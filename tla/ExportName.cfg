\* One thread, two exports: get_name on the handle of an export other than
\* the one the thread's request is on.
CONSTANTS
    Exports = {x1, x2}
    Threads = {t1}
    Users = {u1}
    Quotas = {0}
    StateIds = {s1}
    NoExport = NoExport
    Wild = Wild
SPECIFICATION NameSpec
CHECK_DEADLOCK FALSE
PROPERTIES
    GetNameOfHandle
