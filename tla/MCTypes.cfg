SPECIFICATION Spec
CONSTANTS
    Base <- Classes
    TypeBound = 6
    NameBound = 2
CONSTRAINTS NoErrorsYet FewCompounds
INVARIANTS TypeOK UnifiersEnd TypesAreWhatTheyMean ErrorsAreReal SetsEnd
PROPERTIES KnownTypesStay
