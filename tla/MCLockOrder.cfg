\* Two unexports, a lookup and the reaper on two entries.
CONSTANTS
    Entries = {e1, e2}
    Exports = {x1, x2}
    Linkers = {l1}
    Reaper = Reaper
    NoEntry = NoEntry
    Nobody = Nobody
SPECIFICATION LockSpec
SYMMETRY LockSymmetry
INVARIANTS
    NoCircularWait
    NoLockLeak
    LockOrdered
