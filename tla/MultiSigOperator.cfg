SPECIFICATION MultiSigSpec
CONSTANTS
    Owners = {o1, o2, o3}
    numConfirmationsRequired = 2
    numOperationConfirmationsRequired = 3
    Rebalances = {r1, r2}
    Operations = {d1}
    Empty = empty
    MaxSubmissions = 2
INVARIANTS
    ConfirmationsCounted
    ExecutedByQuorum
PROPERTIES
    ExecutedOnce
