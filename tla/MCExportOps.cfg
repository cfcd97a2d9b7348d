\* The export operations on two exports, every query, both quota values and a state object (one thread: two make the answer history explode).
CONSTANTS
    Exports = {x1, x2}
    Threads = {t1}
    Users = {u1}
    StateIds = {s1}
    NoExport = NoExport
    Wild = Wild
    Quotas <- MCQuotas
SPECIFICATION Spec
CHECK_DEADLOCK FALSE
INVARIANTS TypeOK
PROPERTIES ImplementsSubExport
