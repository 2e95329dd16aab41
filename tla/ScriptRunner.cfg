CONSTANTS
    Scripts <- MCScripts
    Pointers <- MCPointers
    AnswerSizes <- MCAnswerSizes
    Lengths <- MCLengths
    MemorySizes <- MCMemorySizes
SPECIFICATION FairRunnerSpec
INVARIANTS
    RunnerTypeOK
    DecodedInPlace
    NullsAndOnlyNulls
    ResultNeedsItsImports
    ResultFollowsAbi
PROPERTIES
    RunEnds
CHECK_DEADLOCK FALSE
