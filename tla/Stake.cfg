CONSTANTS
    alice = alice
    bob = bob
    treasury = treasury
    None = None
    Accounts <- MCAccounts
    Amounts <- MCAmounts
    ExistentialDeposit = 1
    MinStakeAmount = 2
    CandidacyBond = 1
    Endowment = 4
SYMMETRY Symmetry
SPECIFICATION StakeSpec
INVARIANTS
    StakeTypeOK
    FundsConserved
    DepositsAreReserved
