CONSTANTS
    Programs <- SmallPrograms
    Height <- SmallTrees
    Listings <- SmallListings
    Decisions = 2
    Steps = 44
    ValueSize = 3
    PointerSize = 2
SPECIFICATION CompilerSpec
INVARIANTS TypeOK LinksExact BytecodeIsTheList MeaningPreserved
PROPERTY MeaningIsKept
