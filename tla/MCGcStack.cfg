SPECIFICATION Spec
CONSTANTS
    Proc = {p1}
    HeapAr = {a1, a2}
    Sv = {v1}
    Null = Null
    NoArStack = FALSE
    Second = Second
    Arity = 1
    Routines = 1
    Parent <- InMain
    Slots <- Small
    VstackBound = 2
    Frame <- OneFrame
    MailboxBound = 0
    Containers = {"list"}
    Folded = {}
SYMMETRY Symmetry
INVARIANTS NothingInUseIsFreed
CHECK_DEADLOCK FALSE
