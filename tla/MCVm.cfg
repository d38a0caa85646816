CONSTANTS
    Main = Main
    F = F
    G = G
    K = K
    d = d
    Routine = {Main, F, G, K}
    parent <- MCParent
    arity <- MCArity
    locals <- MCLocals
    MaxSlots = 1
    Data = {d}
    Null = Null
    Foreign = Foreign
    VstackBound = 3
    CstackBound = 3
    AstackBound = 12
    CallBound = 4
SPECIFICATION Spec
CONSTRAINT Sound
INVARIANTS TypeOK CallChain StackIsBoundedByDepth EachCallHasItsRecord LexicalScope
CHECK_DEADLOCK FALSE
