SPECIFICATION ConsentSpec
CONSTANTS
    PRECISE_UNIT = 4
    Callers = {a, b}
    Manager = manager
    FeeSplits = {1, 3}
    Periods = {0, 2}
    StreamingFees = {f}
    SetManagers = {next}
    Recipients = {manager}
    Accruals = {1}
    MaxUndistributed = 1
    MaxTime = 4
    MaxCalls = 2
SYMMETRY ConsentSymmetry
INVARIANTS
    MutualConsent
    SplitNotRetroactive
PROPERTIES
    NoticeOfItsOwn
