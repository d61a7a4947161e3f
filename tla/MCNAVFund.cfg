SPECIFICATION NAVFundSpec
CONSTANTS
    PRECISE_UNIT = 4
    Components = {usd, c}
    Modules = {m}
    Data = {none}
    NoData = none
    PerpModules = {}
    RealUnits <- MCUnits
    Multipliers = {}
    MaxComponents = 2
    MaxBalance = 4
    MaxSupply = 4
    Prices <- MCPrices
    baseUnits <- MCBaseUnits
    masterQuoteAsset = usd
    NAVFees = {2}
    Premiums = {2}
    MinSupplies = {2}
    ReserveLists <- MCReserveLists
    ProtocolDirectFee = 0
    ProtocolManagerShare = 2
INVARIANTS
    SupplyAsExpected
    ExpectationsWithinRounding
PROPERTIES
    BackingKept
CHECK_DEADLOCK FALSE
