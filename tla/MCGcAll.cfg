SPECIFICATION Spec
CONSTANTS
    Proc = {p1}
    HeapAr = {a1}
    Sv = {v1}
    Null = Null
    NoArStack = FALSE
    Second = Second
    Arity = 1
    Routines = 2
    Parent <- InMain
    Slots <- Increasing
    VstackBound = 2
    Frame <- TwoFrames
    MailboxBound = 1
    Containers = {"list", "dict"}
    Folded = {v1}
SYMMETRY Symmetry
CONSTRAINT LessByDefault
INVARIANTS TypeOK FramesAreCallChain
PROPERTY CollectKeepsWhatIsInUse
CHECK_DEADLOCK FALSE
