SPECIFICATION Spec
CONSTANTS
    Proc = {p1, p2}
    HeapAr = {a1, a2, a3}
    Sv = {v1, v2}
    Null = Null
    NoArStack = TRUE
    Second = Second
    Arity = 0
    Routines = 2
    Parent <- Nested
    Slots <- Increasing
    VstackBound = 2
    Frame <- NoFrames
    MailboxBound = 0
    Containers = {"list"}
    Folded = {}
SYMMETRY Symmetry
CONSTRAINT LessOnTheHeap
INVARIANT NothingInUseIsFreed
CHECK_DEADLOCK FALSE
