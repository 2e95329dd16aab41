CONSTANTS
    alice = alice
    bob = bob
    price = price
    code = code
    abi = abi
    abi64 = abi64
    key1 = key1
    key2 = key2
    out1 = out1
    out2 = out2
    n1 = n1
    n2 = n2
    w1 = w1
    w2 = w2
    None = None
    Request = Request
    Accounts <- OneCaller
    Scripts <- MCScripts
    Codes <- MCCodes
    Abis <- TwoAbis
    Processors <- TwoKeys
    Outputs <- TwoOutputs
    Oversized <- NothingOversized
    Nodes <- OneNode
    Workers <- TwoWorkers
    KeyOf <- SharedKey
    Rank <- MCRank
    AliasedAbis <- Abi64Aliased
    MisreadOutput = out2
    MisreadKey = key2
    MaxBlock = 3
    ChannelCap = 1
    Longevity = 2
    PoolMayReject = TRUE
    MaxCrashes = 2
SYMMETRY WorkerSymmetry
SPECIFICATION Spec
INVARIANTS
    PublishedWasComputed
    ListedSlotsAreFull
PROPERTIES
    KeyListStepsAreFresh
    ResultsAreNotDropped
    ImplementsService
