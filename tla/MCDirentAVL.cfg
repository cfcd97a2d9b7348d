\* Three names, two of them colliding, 16 keys and probes j = 0..2.
CONSTANTS
    Names = {"a", "b", "c"}
    HashOf <- MCHashOf
    KeySpace = 16
    MaxJ = 2
    NONE = NONE
SPECIFICATION DirSpec
INVARIANTS
    LookupExact
