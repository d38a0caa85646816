SPECIFICATION Spec
CONSTANTS
    Name = {"F", "G"}
    Predefined = {}
    ScopeBound = 2
    SlotBound = 2
    ClosureBound = 2
    DeclarationBound = 1
    DefinitionBound = 1
    ConstantRoutines = TRUE
CONSTRAINT NoErrorsYet
INVARIANTS ReferencesReachTheirVariable
