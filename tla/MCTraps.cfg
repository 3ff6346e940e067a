\* main and two slots for its children.
CONSTANTS
    main = main
    idle = idle
    a = a
    b = b
    none = none
    Users <- MCUsers
    Main = main
    Idle = idle
    NoThread = none
    Places = 2
SPECIFICATION Spec
SYMMETRY MCSymmetry
INVARIANTS
    StacksKept
PROPERTIES
    GoesOn
