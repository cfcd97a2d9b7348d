CONSTANTS
    Entries = {e1, e2}
    Exports = {x1, x2}
    Threads = {t1, t2}
    NoEntry = NoEntry
    NoExport = NoExport
    UnexportQuiesced = FALSE
SPECIFICATION Spec
SYMMETRY Symmetry
INVARIANTS
    NoExportMapAtTeardown
CHECK_DEADLOCK FALSE
