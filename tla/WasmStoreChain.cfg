CONSTANTS
    alice = alice
    bob = bob
    price = price
    v1 = v1
    v2 = v2
    hugeCode = hugeCode
    abi = abi
    key = key
    out = out
    hugeOut = hugeOut
    None = None
    MaxBlock = 2
    Accounts <- MCAccounts
    Scripts <- MCScripts
    Codes <- MCCodes
    Abis <- MCAbis
    Processors <- MCProcessors
    Outputs <- MCOutputs
    Oversized <- MCOversized
SYMMETRY Symmetry
SPECIFICATION ChainSpec
INVARIANTS
    TypeOK
    ResultOnlyWhenFinished
    StoredValuesFit
PROPERTIES
    JobsOnlyMoveForward
