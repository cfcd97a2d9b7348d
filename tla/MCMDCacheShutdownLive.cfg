CONSTANTS
    Entries = {e1, e2}
    Exports = {x1, x2}
    Threads = {t1}
    NoEntry = NoEntry
    NoExport = NoExport
    UnexportQuiesced = FALSE
SPECIFICATION FairSpec
PROPERTIES
    OrderlyShutdownCompletes
CHECK_DEADLOCK FALSE
