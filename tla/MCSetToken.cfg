SPECIFICATION Spec
CONSTANTS
    PRECISE_UNIT = 2
    Components = {c1, c2}
    Modules = {issuance, perp}
    Data = {none}
    NoData = none
    PerpModules = {perp}
    RealUnits <- MCRealUnits
    Multipliers <- MCMultipliers
    MaxComponents = 2
    Managers = {alice}
    NoAddress = null
    PermanentModules = {issuance}
    MaxSupply = 1
INVARIANTS
    ComponentsTracked
    ExternalPositionsTracked
    NoPositionVanishes
    ModulesListed
    LockerInitialized
PROPERTIES
    LockFreezes
    WindDownIsFinal
SYMMETRY MCSymmetry
