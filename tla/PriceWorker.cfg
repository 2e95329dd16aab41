CONSTANTS
    n1 = n1
    r1 = r1
    r2 = r2
    Nodes <- OneNode
    Runs <- TwoRuns
    Accounts <- TwoAccounts
    Prices <- MCPrices
    Numbers <- MCNumbers
    MaxU32 = 3
    MaxPrices = 2
    UnsignedInterval = 2
    GracePeriod = 2
    Longevity = 1
    MaxBlock = 4
SYMMETRY RunSymmetry
SPECIFICATION WorkerSpec
INVARIANTS
    WorkerTypeOK
    UsableMeansCurrent
    OneUsablePerPool
    AverageInRange
    SlotsAreSpaced
PROPERTIES
    UnsignedPricesAreSpaced
    UnsignedNumbersGrow
