SPECIFICATION Spec
CONSTANTS
    PRECISE_UNIT = 4
    Components = {c1}
    Modules = {staking}
    Data = {none}
    NoData = none
    PerpModules = {}
    RealUnits <- MCUnits
    Multipliers = {}
    MaxComponents = 1
    MaxBalance = 4
    MaxSupply = 6
    ManagerFees = {0, 1}
    ProtocolFeeSplit = 2
    TransferErrors <- MCExact
    Versions = {1}
    Staking = staking
    StakingContracts = {k1, k2}
    StakeUnits <- MCUnits
    MaxRoundings = 4
    ONE_YEAR = 1
    Fees = {1, 2}
    MaxTime = 1
INVARIANTS
    StakingUnitsMatch
