CONSTANTS
    alice = alice
    bob = bob
    price = price
    code = code
    abi = abi
    abi64 = abi64
    key1 = key1
    key2 = key2
    out1 = out1
    out2 = out2
    n1 = n1
    n2 = n2
    w1 = w1
    w2 = w2
    None = None
    Request = Request
    Accounts <- OneCaller
    Scripts <- MCScripts
    Codes <- MCCodes
    Abis <- OneAbi
    Processors <- OneKey
    Outputs <- OneOutput
    Oversized <- NothingOversized
    Nodes <- OneNode
    Workers <- OneWorker
    KeyOf <- SharedKey
    Rank <- MCRank
    AliasedAbis <- NoAlias
    MisreadOutput = out1
    MisreadKey = key1
    MaxBlock = 3
    ChannelCap = 1
    Longevity = 1
    PoolMayReject = FALSE
    MaxCrashes = 0
SPECIFICATION Spec
PROPERTY
    ClearedKeysAreAssigned
