SPECIFICATION FundSpec
CONSTANTS
    PRECISE_UNIT = 4
    Components = {c1, c2}
    Modules = {m}
    Data = {none}
    NoData = none
    PerpModules = {}
    RealUnits = {0, 1, 2}
    Units = {0, 1, 2}
    Multipliers = {}
    MaxComponents = 2
    MaxBalance = 3
    MaxSupply = 6
    TradeProtocolFee = 1
    ONE_YEAR = 1
    Fees = {0, 1, 2}
    MaxTime = 2
INVARIANTS
    CollateralizedUntilFee
PROPERTIES
    SurplusKept
    AccrualConservesClaims
    FeeCommitment
