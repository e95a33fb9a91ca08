SPECIFICATION MCSpec
CONSTANTS
    Words <- MCWords
    Names <- MCNames
    Idents <- MCIdents
    Trees <- MCTrees
    MaxDepth = 4
    BufLen = 7
    NameLen = 5
    Chars <- MCChars
    ArgVectors <- MCArgVectors
    Messages <- MCMessages
    Targets <- MCTargets
    Results <- MCResults
    Null = Null
    Nul <- MCNul
    MaxLogs = 1
INVARIANTS ToolsTypeOK NoImplicitPadding PX4Order SizeAssertHolds HashTellsLayouts SkippedForCause
INVARIANTS LogIsPrefix ArgsInOrder ErrorsAreLogged
PROPERTY EveryFileSettles
CHECK_DEADLOCK FALSE
