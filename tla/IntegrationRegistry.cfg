SPECIFICATION Spec
CONSTANTS
    Sets = {s1, s2}
    Factories = {f1, f2}
    Modules = {m1, m2}
    Resources = {r1, r2}
    ResourceIds = {0, 1}
    FeeTypes = {0}
    Fees = {0, 1}
    NoResource = null
    Accounts = {a1}
    MaxListLength = 2
    Names = {n1}
    Adapters = {x1, x2}
    NoAdapter = none
    MaxBatch = 2
INVARIANTS
    ArraysMatchFlags
