CONSTANTS
    alice = alice
    bob = bob
    eve = eve
    NoParaId = NoParaId
    Keys <- MCKeys
    FileSpecs <- MCFiles
    MaxRuns = 2
CHECK_DEADLOCK FALSE
SPECIFICATION FairNodeSpec
INVARIANTS
    NodeTypeOK
    OnlyOwnJobsAreTaken
    NetworkJobsSurviveStart
PROPERTIES
    CommandsLeaveJobsAlone
    NeverLimpsOn
