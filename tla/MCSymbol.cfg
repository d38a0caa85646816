SPECIFICATION Spec
CONSTANTS
    Name = {"a", "b"}
    Predefined = {"b"}
    ScopeBound = 4
    SlotBound = 2
    ClosureBound = 1
    DeclarationBound = 2
    DefinitionBound = 1
    ConstantRoutines = FALSE
CONSTRAINT NoErrorsYet
INVARIANTS TypeOK ReferencesReachTheirVariable ClosureRecordFits ClosuresAreCounted
