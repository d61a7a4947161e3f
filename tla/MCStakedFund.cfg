SPECIFICATION Spec
CONSTANTS
    PRECISE_UNIT = 4
    Components = {c1}
    Modules = {staking}
    Data = {none}
    NoData = none
    PerpModules = {}
    RealUnits <- MCUnits
    Multipliers = {}
    MaxComponents = 1
    MaxBalance = 4
    MaxSupply = 6
    ManagerFees = {1}
    ProtocolFeeSplit = 2
    TransferErrors <- MCOffByOne
    Versions = {1, 2}
    Staking = staking
    StakingContracts = {k1, k2}
    StakeUnits <- MCUnits
    MaxRoundings = 3
    ONE_YEAR = 1
    Fees = {0}
    MaxTime = 1
INVARIANTS
    StakingUnitsMatch
    StakeAndDefaultBacked
    ShortfallBounded
    RemovedWhenClosed
PROPERTIES
    DefaultStaysBacked
SYMMETRY MCSymmetry
