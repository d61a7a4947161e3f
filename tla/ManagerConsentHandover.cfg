SPECIFICATION ConsentSpec
CONSTANTS
    PRECISE_UNIT = 4
    Callers = {a, b}
    Manager = manager
    FeeSplits = {1}
    Periods = {}
    StreamingFees = {f}
    SetManagers = {a}
    Recipients = {}
    Accruals = {0}
    MaxUndistributed = 0
    MaxTime = 1
    MaxCalls = 2
PROPERTIES
    ManagerChangeAgreed
