SPECIFICATION AirdropFundSpec
CONSTANTS
    PRECISE_UNIT = 2
    Components = {c1, c2}
    Modules = {m}
    Data = {none}
    NoData = none
    PerpModules = {}
    RealUnits = {0, 1}
    Units = {0, 1}
    Multipliers = {}
    MaxComponents = 2
    MaxBalance = 2
    MaxSupply = 3
    TradeProtocolFee = 1
    ONE_YEAR = 1
    Fees = {0, 1}
    MaxTime = 1
    AirdropFees = {0, 1}
    AirdropProtocolFee = 1
    MaxTokens = 2
INVARIANTS
    CollateralizedUntilFee
    AirdropsListed
PROPERTIES
    AirdropFeeNotRetroactive
