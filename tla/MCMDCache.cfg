CONSTANTS
    Entries = {e1, e2, e3}
    Exports = {x1, x2}
    Threads = {t1, t2}
    NoEntry = NoEntry
    NoExport = NoExport
    UnexportQuiesced = TRUE
SPECIFICATION Spec
SYMMETRY Symmetry
INVARIANTS
    TypeOK
    UnexportMapStillLinked
    FirstExportValid
    RefsAccounted
    OrphanBeingPushed
    UnexportComplete
    FsalPinnedPerExport
