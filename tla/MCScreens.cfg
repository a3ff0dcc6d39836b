SPECIFICATION MCSpec
CONSTANTS
    None = None
    Texts <- MCTexts
    Blank = ""
    Asts <- MCAsts
    EmptyAst = "empty"
    AstOf <- MCAstOf
    PrintOf <- MCPrintOf
    Foreign = {"p again"}
    Invalid = {}
    MaxRules = 2
    MaxElsewhere = 1
    Keys = {"a", "b"}
    Reserved = {"userId"}
    Typed <- MCTyped
    Kinds <- MCKinds
    Numbers = {"7"}
    Booleans = {"true"}
    Initial <- MCInitial
    MaxAttrs = 2
    Users <- MCUsers
    PageSize = 2
    WalkSize = 1
    MaxWalked = 2
    MaxWrites = 2
    MaxWalks = 2
    Filter <- MCFilter
    MaxPages = 2
    MaxSteps = 1
    Gone = Gone
    Names = {0, 1}
    MaxOpenings = 2
    MaxRows = 3
    Patterns = {"one", "other"}
    MaxPatterns = 2
INVARIANTS
    ShownIsSaved
    ActingIsCookie
    WalkExactUnlessShifted
    SettledShowsTyped
    SavedOnce
    VerdictShown
    CallsCarried
PROPERTIES
    EditsKept
    ClosedStored
CHECK_DEADLOCK FALSE
