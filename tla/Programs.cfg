SPECIFICATION ProgramsSpec
CHECK_DEADLOCK FALSE
CONSTANTS
    BoolSyms = {"A", "M", "P", "W", "X", "Y", "Z", "CH"}
    TriSyms = {"B", "CT"}
    MaxAtoms = 3
    Atoms <- MCAtoms
    Databases <- DBs
    Numbers = {2, 4}
    MaxSets = 2
    Sources <- MCSources
    Programs = {"mconf", "nconf", "gconf", "qconf"}
    DepSyms = {"A", "B", "C", "X", "Y"}
    DepChoices <- MCDepChoices
    DepGraphs <- MCDepGraphs
    Parts = {"p", "mark"}
    Mark = "mark"
    Vals = {0, 1}
    Default = 0
    Fronts = {"mconf", "nconf", "gconf", "qconf"}
    MaxRuns = 2
    MaxSaves = 2
    MaxFaults = 1
    CfgSyms = {"A", "B"}
    CfgVals = {"no", "y", "m"}
    SrcFiles = {"src", "hdr"}
    Objects <- MCObjects
    Texts <- MCTexts
    MaxConfigs = 2
    MaxEdits = 1
    MaxCuts = 1
    DirsAbove <- MCDirsAbove
    MaxNumber = 4
    Tables <- MCTables
    Trees <- MCTrees
    Users = {"root", "disk"}
    DataFiles <- MCDataFiles
    Data <- MCData
    HeaderLen = 4
    FF = "ff"
    Known <- MCKnown
    Ignored = {"I"}
    Conds <- MCConds
    Unknown = "X"
    CppVals <- MCCppVals
    Options <- MCOptions
    MAXDEPTH = 3
    Pkgs = {"app", "mid", "base"}
    PkgOpts = {1, 2}
    Deps <- MCDeps
    Selections <- MCSelections
    MaxMakes = 3
INVARIANTS
    ExprValuesKept ExprVisibilityKept
    SymCacheIsRight SymSelectsHold SymOneOfAChoice SymFilesComeBack SymUnchangedIsSaved
    ViewsMenuAsWritten ViewsEveryEntryIsShown ViewsRowsAreCurrent
    ConfAllAnswered ConfQuestionsEnd
    RecursionsAreFound
    AWholeFile NothingIsLost
    BuiltAsConfigured CarriedOutOrReported AgainIsTheSame AcceptedIsWhole
    DependenciesFirst NothingLeftToDo ImageIsSelected
    SameProgram OnlyDisorderIsRefused CommentsStayWhole
PROPERTIES
    SymSetTakesEffect ConfAnswersKept
