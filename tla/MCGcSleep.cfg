SPECIFICATION Spec
CONSTANTS
    Proc = {p1, p2}
    HeapAr = {a1, a2, a3}
    Sv = {v1}
    Null = Null
    NoArStack = TRUE
    Second = Second
    Arity = 1
    Routines = 1
    Parent <- InMain
    Slots <- Small
    VstackBound = 2
    Frame <- NoFrames
    MailboxBound = 1
    Containers = {"list"}
    Folded = {}
SYMMETRY Symmetry
PROPERTY CollectKeepsSleepers
CHECK_DEADLOCK FALSE
