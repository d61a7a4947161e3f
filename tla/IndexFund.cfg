SPECIFICATION Spec
CONSTANTS
    PRECISE_UNIT = 4
    Components = {weth, c}
    Modules = {m}
    Data = {none}
    NoData = none
    PerpModules = {}
    RealUnits = {2}
    Multipliers = {3}
    MaxComponents = 1
    MaxBalance = 4
    MaxSupply = 5
    MaxTime = 1
    MaxCalls = 2
    weth = weth
    IndexProtocolFee = 1
    TargetUnits = {0, 2}
    TradeSizes = {3}
    CoolOffPeriods = {1}
    RaisePercentages = {1}
    Rates = {1}
    Traders = {t}
    EOAs = {t}
INVARIANTS
    TradersListed
PROPERTIES
    RebalanceSettles
    SurplusKept
    NoOvershoot
    FullTradeMeetsTarget
CHECK_DEADLOCK FALSE
