\* A state allocated through one export and then freed through state->state_exp.
CONSTANTS
    Exports = {x1, x2}
    Threads = {t1}
    Users = {u1}
    StateIds = {s1}
    NoExport = NoExport
    Wild = Wild
    Quotas <- MCQuotaZero
SPECIFICATION Spec
CHECK_DEADLOCK FALSE
INVARIANT FreeStateReachesOwner
