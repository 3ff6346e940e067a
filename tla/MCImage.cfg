\* Files of up to three blocks, read and written in pieces; two writes.
CONSTANTS
    FS_NAMELEN = 2
    MAX_FILES = 3
    FS_BLKSZ = 11
    FileLists <- MCFiles
    Names <- MCNames
    Counts = {2, 12}
    Seeks = {0, 10, 11}
    MaxWrites = 2
SPECIFICATION Spec
CHECK_DEADLOCK FALSE
INVARIANTS
    ContentsKept
    OpensNamed
