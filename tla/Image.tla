-------------------------------- MODULE Image ----------------------------------
(***************************************************************************)
(* The layout of the file system: util/mkfs.c builds an image from files,   *)
(* and kfs.c mounts it and finds the files in it.                          *)
(*                                                                         *)
(* The image is a sequence of words: a name is a sequence of characters,    *)
(* one a word, and a number takes one word.  It is mounted from a memory    *)
(* literal, as iolit_tests.c does, by one caller with one open file: what   *)
(* sharing does is in Kfs.                                                 *)
(***************************************************************************)
EXTENDS IoObjects, SequencesExt

CONSTANTS
    FS_NAMELEN, MAX_FILES,
    FS_BLKSZ,       \* the words of a block, as of BLOCK_SIZE
    FileLists,      \* what mkfs may be given: sequences of [name, size]
    Names,          \* the names that are opened
    Counts, Seeks,  \* lengths and positions that are asked for
    MaxWrites       \* the writes of a run (the bound of the model)

Stat == 2           \* the words of a boot block before its entries
Dentry == FS_NAMELEN + 1

ASSUME ImageAssumption ==
    /\ {FS_NAMELEN, MAX_FILES, FS_BLKSZ, MaxWrites} \subseteq Nat \ {0}
    /\ FS_BLKSZ = Stat + MAX_FILES * Dentry
    /\ Counts \subseteq Nat \ {0} /\ Seeks \subseteq Nat
    /\ \A fs \in FileLists :
          /\ Len(fs) <= MAX_FILES
          /\ \A f \in DOMAIN fs : /\ Len(fs[f].name) \in 1 .. FS_NAMELEN
                                  /\ fs[f].size \div FS_BLKSZ < FS_BLKSZ - 1

NUL == 0
Junk == -1                  \* what was on the stack of mkfs
Byte(f, k) == 1000 * f + k  \* the k-th byte of the f-th file
NewByte == 999              \* a byte that is written
NoFd == [inode |-> -1, size |-> 0, pos |-> 0]
NoCall == [op |-> "none", n |-> 0]

VARIABLES
    files,              \* what mkfs was given
    step,               \* the loop it is in, then "mounted" or "refused"
    i,                  \* argv[i] of the loop
    dir_entries, data_block_idx, inode_array,
    disk,               \* the image written so far
    mountedIO, num_inodes, d_entries,       \* of kfs.c
    fd,                 \* the open file
    call,               \* the read or write under way, and what is left of it
    asked,              \* history: the name that was opened, and whether it was found
    contents,           \* history: what every file holds
    from, out,          \* history: where the last read began, and what it returned
    writes

mkfsVars == <<step, i, dir_entries, data_block_idx, inode_array, disk>>
mountVars == <<num_inodes, d_entries>>
vars == <<files, mkfsVars, mountedIO, mountVars, fd, call, asked, contents, from, out, writes>>

Init ==
    /\ files \in FileLists
    /\ step = "dentries" /\ i = 1
    /\ dir_entries = <<>> /\ data_block_idx = 0 /\ inode_array = <<>>
    /\ disk = <<>>
    /\ mountedIO = iolit_init(<<>>) /\ num_inodes = 0
    /\ d_entries = [e \in 1 .. MAX_FILES |-> [j \in 1 .. Dentry |-> NUL]]
    /\ fd = NoFd /\ call = NoCall
    /\ asked = [name |-> <<>>, ok |-> FALSE]
    /\ contents = [f \in DOMAIN files |-> [k \in 1 .. files[f].size |-> Byte(f, k)]]
    /\ from = 0 /\ out = <<>> /\ writes = 0

------------------------------------------------------------------------------
(* mkfs.c *)

Padded(s, len, w) == s \o [j \in 1 .. len - Len(s) |-> w]

\* The next argument of a loop, or the next loop.
Advance(next) ==
    IF i < Len(files) THEN i' = i + 1 /\ step' = step ELSE i' = 1 /\ step' = next

\* strncpy leaves a name of FS_NAMELEN characters without its '\0'.
AddDentry ==
    /\ step = "dentries"
    /\ dir_entries' = Append(dir_entries, Append(Padded(files[i].name, FS_NAMELEN, NUL), i - 1))
    /\ Advance("inodes")
    /\ UNCHANGED <<files, data_block_idx, inode_array, disk, mountedIO, mountVars,
                   fd, call, asked, contents, from, out, writes>>

\* The blocks a file is given.
BlocksFor(size) == (size \div FS_BLKSZ) + 1

AddInode ==
    /\ step = "inodes"
    /\ LET k == BlocksFor(files[i].size)
           blocks == [j \in 1 .. k |-> data_block_idx + j - 1]
       IN /\ data_block_idx' = data_block_idx + k
          /\ inode_array' = Append(inode_array,
                                   Padded(<<files[i].size>> \o blocks, FS_BLKSZ, Junk))
    /\ Advance("headers")
    /\ UNCHANGED <<files, dir_entries, disk, mountedIO, mountVars,
                   fd, call, asked, contents, from, out, writes>>

\* The boot block and the inodes.
WriteHeaders ==
    /\ step = "headers"
    /\ disk' = Padded(<<Len(files), Len(files)>> \o FlattenSeq(dir_entries), FS_BLKSZ, NUL)
                 \o FlattenSeq(inode_array)
    /\ step' = "data"
    /\ UNCHANGED <<files, i, dir_entries, data_block_idx, inode_array, mountedIO, mountVars,
                   fd, call, asked, contents, from, out, writes>>

\* A file, a block at a time.  Past the end of the file the last block has what
\* the buffer held before.
Piece(f, j) ==
    [k \in 1 .. FS_BLKSZ |->
        LET at == (j - 1) * FS_BLKSZ + k
        IN IF at <= files[f].size THEN Byte(f, at)
           ELSE IF j > 1 THEN Byte(f, at - FS_BLKSZ) ELSE NUL]
WriteData ==
    /\ step = "data"
    /\ LET pieces == (files[i].size + FS_BLKSZ - 1) \div FS_BLKSZ
       IN disk' = disk \o FlattenSeq([j \in 1 .. pieces |-> Piece(i, j)])
    /\ Advance("written")
    /\ UNCHANGED <<files, dir_entries, data_block_idx, inode_array, mountedIO, mountVars,
                   fd, call, asked, contents, from, out, writes>>

------------------------------------------------------------------------------
(* kfs.c *)

\* fs_mount of the image, or of no more than its first len words.
Mount(len) ==
    /\ step = "written"
    /\ LET r == iolit_read(iolit_setpos(iolit_init(SubSeq(disk, 1, len)), 0).io, FS_BLKSZ)
       IN /\ mountedIO' = r.io
          /\ IF r.cnt # FS_BLKSZ
             THEN step' = "refused" /\ UNCHANGED mountVars
             ELSE /\ num_inodes' = r.data[2]
                  /\ IF r.data[1] > MAX_FILES
                     THEN step' = "refused" /\ UNCHANGED d_entries
                     ELSE /\ step' = "mounted"
                          /\ d_entries' =
                               [e \in 1 .. MAX_FILES |->
                                   IF e <= r.data[1]
                                   THEN SubSeq(r.data, Stat + (e - 1) * Dentry + 1, Stat + e * Dentry)
                                   ELSE d_entries[e]]
    /\ UNCHANGED <<files, i, dir_entries, data_block_idx, inode_array, disk,
                   fd, call, asked, contents, from, out, writes>>

Idle == step \in {"mounted", "refused"} /\ call = NoCall

\* strcmp(f_name, name) = 0: what is before the first '\0' of the entry, which may
\* be past the name.  And a comparison that stops where the name that was asked for ends.
BeginsWith(entry, name) == SubSeq(entry, 1, Len(name)) = name
Same(entry, name) ==
    /\ Len(name) <= Len(entry) /\ SubSeq(entry, 1, Len(name)) = name
    /\ Len(name) < Len(entry) => entry[Len(name) + 1] = NUL

inode_offset(num) == (num + 1) * FS_BLKSZ

\* ioseek and a read of one word, as of a length or a block number.
Word(io, at) == iolit_read(iolit_setpos(io, at).io, 1)

Open(name) ==
    /\ Idle /\ fd = NoFd
    /\ LET found == {e \in 1 .. MAX_FILES : Same(d_entries[e], name)}
       IN IF found = {}
          THEN asked' = [name |-> name, ok |-> FALSE] /\ UNCHANGED <<fd, mountedIO>>
          ELSE LET num == d_entries[CHOOSE e \in found : \A x \in found : e <= x][Dentry]
                   r == Word(mountedIO, inode_offset(num))
               IN /\ asked' = [name |-> name, ok |-> TRUE]
                  /\ fd' = [inode |-> num, size |-> r.data[1], pos |-> 0]
                  /\ mountedIO' = r.io
    /\ UNCHANGED <<files, mkfsVars, mountVars, call, contents, from, out, writes>>

Close ==
    /\ Idle /\ fd # NoFd
    /\ fd' = NoFd /\ out' = <<>> /\ from' = 0
    /\ UNCHANGED <<files, mkfsVars, mountedIO, mountVars, call, asked, contents, writes>>

fs_setpos(pos) ==
    /\ Idle /\ fd # NoFd
    /\ pos <= fd.size
    /\ fd' = [fd EXCEPT !.pos = pos]
    /\ UNCHANGED <<files, mkfsVars, mountedIO, mountVars, call, asked, contents, from, out, writes>>

\* No more than the file has left.
Limited(n) == Least(n, fd.size - fd.pos)

Call(op, n) ==
    /\ Idle /\ fd # NoFd
    /\ op = "write" => writes < MaxWrites
    /\ call' = IF Limited(n) > 0 THEN [op |-> op, n |-> Limited(n)] ELSE NoCall
    /\ out' = <<>> /\ from' = fd.pos
    /\ writes' = IF op = "write" THEN writes + 1 ELSE writes
    /\ UNCHANGED <<files, mkfsVars, mountedIO, mountVars, fd, asked, contents>>

\* Where the byte at pos of a file is, its block number being num; and where it
\* is taken to be if the boot block is forgotten.
AfterInodes(num, pos) == (num_inodes + num) * FS_BLKSZ + (pos % FS_BLKSZ)
DataAt(num, pos) == (num_inodes + 1 + num) * FS_BLKSZ + (pos % FS_BLKSZ)

\* A round of the loop of fs_read or fs_write: up to the end of the block.
Now == Least(call.n, FS_BLKSZ - (fd.pos % FS_BLKSZ))
Lookup == Word(mountedIO, inode_offset(fd.inode) + fd.pos \div FS_BLKSZ + 1)
AtData == iolit_setpos(Lookup.io, DataAt(Lookup.data[1], fd.pos)).io

Moved(cnt) ==
    IF cnt > 0
    THEN /\ fd' = [fd EXCEPT !.pos = @ + cnt]
         /\ call' = IF call.n > cnt THEN [call EXCEPT !.n = @ - cnt] ELSE NoCall
    ELSE call' = NoCall /\ UNCHANGED fd

ReadRound ==
    /\ call.op = "read"
    /\ LET r == iolit_read(AtData, Now)
       IN mountedIO' = r.io /\ out' = out \o r.data /\ Moved(r.cnt)
    /\ UNCHANGED <<files, mkfsVars, mountVars, asked, contents, from, writes>>

WriteRound ==
    /\ call.op = "write"
    /\ LET r == iowrite(AtData, [j \in 1 .. Now |-> NewByte])
       IN /\ mountedIO' = r.io /\ Moved(r.cnt)
          /\ contents' = [contents EXCEPT ![fd.inode + 1] =
                [k \in DOMAIN @ |-> IF k \in fd.pos + 1 .. fd.pos + r.cnt THEN NewByte ELSE @[k]]]
    /\ UNCHANGED <<files, mkfsVars, mountVars, asked, from, out, writes>>

Next ==
    \/ AddDentry \/ AddInode \/ WriteHeaders \/ WriteData
    \/ \E len \in {Len(disk), Len(disk) - FS_BLKSZ, FS_BLKSZ - 1} : Mount(len)
    \/ \E name \in Names : Open(name)
    \/ Close
    \/ \E pos \in Seeks : fs_setpos(pos)
    \/ \E n \in Counts : Call("read", n) \/ Call("write", n)
    \/ ReadRound \/ WriteRound

Spec == Init /\ [][Next]_vars

------------------------------------------------------------------------------
(* Properties *)

\* mkfs is in one of its loops, and a position is in its file: util/mkfs.c and the
\* limits of fs_read and fs_write.
TypeOK ==
    /\ step \in {"dentries", "inodes", "headers", "data", "written", "mounted", "refused"}
    /\ i \in 1 .. Len(files)
    /\ mountedIO.pos \in 0 .. mountedIO.size
    /\ fd.pos \in 0 .. fd.size
    /\ call.op \in {"none", "read", "write"} /\ fd.pos + call.n <= fd.size

\* The image is mounted, and is not cut short.
Whole == step = "mounted" /\ mountedIO.size = Len(disk)

\* Every byte of every file is where the tables of the image say: mkfs writes the
\* blocks it numbered, and what fs_write writes to a file changes no other.
Stored ==
    Whole =>
        \A f \in DOMAIN files : \A k \in DOMAIN contents[f] :
            LET table == SubSeq(mountedIO.buf, f * FS_BLKSZ + 1, (f + 1) * FS_BLKSZ)
                block == table[((k - 1) \div FS_BLKSZ) + 2]
                at == (Len(files) + 1 + block) * FS_BLKSZ + ((k - 1) % FS_BLKSZ) + 1
            IN at \in DOMAIN mountedIO.buf /\ mountedIO.buf[at] = contents[f][k]

\* A read of a whole image returns what the file holds from where it began, over
\* all its blocks: fs_read.  (fs_read ignores a seek past the end of the device.)
ReadsContents ==
    Whole /\ out # <<>> =>
        /\ fd.inode + 1 \in DOMAIN files
        /\ out = SubSeq(contents[fd.inode + 1], from + 1, from + Len(out))
        /\ call.op = "read" => fd.pos = from + Len(out)

\* What is stored, through mkfs or fs_write, is what fs_read returns.
ContentsKept == TypeOK /\ Stored /\ ReadsContents

\* An open file has the name that was asked for and its own size, and a name that
\* ends in its entry is found: AddDentry of mkfs against strcmp in fs_open.
OpensNamed ==
    /\ fd # NoFd => LET f == files[fd.inode + 1]
                    IN asked.ok /\ f.name = asked.name /\ f.size = fd.size
    /\ step = "mounted" /\ asked.name # <<>> /\ ~asked.ok =>
          \A f \in DOMAIN files : files[f].name = asked.name => Len(asked.name) = FS_NAMELEN

==============================================================================
