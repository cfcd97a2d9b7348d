------------------------------ MODULE DirentAVL ------------------------------
(***************************************************************************)
(* One directory's dirent index (spec §4.1): an AVL tree of dirents keyed  *)
(* by a 64-bit hash of the name, ordered by avl_dirent_hk_cmpf             *)
(* (mdcache_avl.h, lines 59-74), with quadratic probing on top: the j-th   *)
(* colliding name goes to key k + j + j^2 (mod KeySpace, 2^64), for j up to MaxJ.    *)
(* A dirent is tombstoned, never unlinked, until the tree is swept.        *)
(*                                                                         *)
(* The comparator is translated from the code.  Insert, lookup by name,    *)
(* set_deleted and the sweep live in mdcache_avl.c, which is not part of   *)
(* this source tree, and are modelled from the spec.  The tree is the map  *)
(* from the keys in use to their dirents; a lookup finds a node through    *)
(* the comparator (AvlLookup), so a comparator that calls two keys equal   *)
(* sends it to the wrong dirent.                                           *)
(***************************************************************************)
EXTENDS Naturals, Integers

CONSTANTS
    Names,     \* the child names of the directory
    HashOf,    \* HashOf[n]: the hash key k of name n
    KeySpace,  \* the number of keys: 2^64 in the code, keys being uint64_t
    MaxJ,      \* the probe bound (spec: avl_max_collisions)
    NONE       \* no dirent

Keys == 0 .. KeySpace - 1

ASSUME DirentAVLAssumption ==
    /\ KeySpace \in Nat \ {0}
    /\ MaxJ \in Nat
    /\ HashOf \in [Names -> Keys]
    /\ NONE \notin Keys

VARIABLES
    tree,      \* tree[k]: the dirent at key k, for the keys in the tree
    reindex    \* the directory is marked for the reaper to reindex

dir_vars == <<tree, reindex>>

Live(n) == [name |-> n, deleted |-> FALSE]
Dirents == [name : Names, deleted : BOOLEAN]

\* (Mutant) the comparison by subtraction, truncated to an int half as
\* wide as the key (w values).
HkCmpfBySubtraction(l, r) ==
    LET w == CHOOSE w \in 1 .. KeySpace : w * w = KeySpace
        d == (l - r) % w
    IN  CASE d = 0       -> 0
          [] d < w \div 2 -> 1
          [] OTHER       -> -1

\* avl_dirent_hk_cmpf: -1, 0 or 1 as the left key is below, equal to or
\* above the right one, compared as unsigned 64-bit integers.
HkCmpf(l, r) == CASE l < r -> -1
                  [] l = r -> 0
                  [] OTHER -> 1

\* The j-th probe key of hash key k.
ProbeKey(k, j) == (k + j + j * j) % KeySpace

MinOf(S) == CHOOSE j \in S : \A i \in S : j <= i

\* The AVL tree's lookup of key k under avl_dirent_hk_cmpf: a node whose
\* key the comparator finds equal to k, or none.
AvlLookup(k) ==
    IF \E s \in DOMAIN tree : HkCmpf(s, k) = 0
      THEN CHOOSE s \in DOMAIN tree : HkCmpf(s, k) = 0
      ELSE NONE

DirTypeOK ==
    /\ DOMAIN tree \subseteq Keys
    /\ \A k \in DOMAIN tree : tree[k] \in Dirents
    /\ reindex \in BOOLEAN

DirInit ==
    /\ tree = [k \in {} |-> Live(CHOOSE n \in Names : TRUE)]
    /\ reindex = FALSE

-----------------------------------------------------------------------------

\* insert(dir, name): walk the probe sequence to the first key that is free
\* or tombstoned (or already holds name, which is returned); past MaxJ the
\* insert fails with TOO_MANY_COLLISIONS and the directory is marked for
\* reindex.
Insert(n) ==
    LET \* probe j ends the walk unless its key holds a live dirent of
        \* another name: the key is free, tombstoned, or already holds n
        Stop(j) == LET s == ProbeKey(HashOf[n], j)
                   IN  ~(s \in DOMAIN tree /\ ~tree[s].deleted /\ tree[s].name # n)
    IN  \/ /\ \E j \in 0 .. MaxJ :
                 /\ Stop(j)
                 /\ \A i \in 0 .. j - 1 : ~Stop(i)
                 /\ tree' = [x \in DOMAIN tree \cup {ProbeKey(HashOf[n], j)} |->
                               IF x = ProbeKey(HashOf[n], j) THEN Live(n) ELSE tree[x]]
           /\ UNCHANGED reindex
        \/ /\ \A j \in 0 .. MaxJ : ~Stop(j)
           /\ reindex' = TRUE
           /\ UNCHANGED tree

\* set_deleted(dir, dirent): tombstone a live dirent; it stays linked.
SetDeleted(s) ==
    /\ s \in DOMAIN tree
    /\ ~tree[s].deleted
    /\ tree' = [tree EXCEPT ![s].deleted = TRUE]
    /\ UNCHANGED reindex

\* mdcache_avl_clean_tree on directory invalidation: every dirent goes, and
\* the rebuilt directory needs no reindex.
CleanTree ==
    /\ DOMAIN tree # {}
    /\ tree' = [k \in {} |-> Live(CHOOSE n \in Names : TRUE)]
    /\ reindex' = FALSE

DirNext ==
    \/ \E n \in Names : Insert(n)
    \/ \E s \in Keys : SetDeleted(s)
    \/ CleanTree

DirSpec == DirInit /\ [][DirNext]_dir_vars

-----------------------------------------------------------------------------

\* (Mutant) the walk ends at a tombstone as at a free key.
LookupByNameStopsAtTombstone(n) ==
    LET node(j) == AvlLookup(ProbeKey(HashOf[n], j))
        hits == {j \in 0 .. MaxJ :
                   /\ node(j) # NONE
                   /\ tree[node(j)] = Live(n)
                   /\ \A i \in 0 .. j - 1 : node(i) # NONE /\ ~tree[node(i)].deleted}
    IN  IF hits = {} THEN NONE ELSE node(MinOf(hits))

\* lookup_by_name(dir, name): walk the same probe sequence, past tombstones
\* and other names, to a live dirent of the name; a free key ends the walk.
\* Each probe key is looked up in the AVL tree.
LookupByName(n) ==
    LET node(j) == AvlLookup(ProbeKey(HashOf[n], j))
        hits == {j \in 0 .. MaxJ :
                   /\ node(j) # NONE
                   /\ tree[node(j)] = Live(n)
                   /\ \A i \in 0 .. j - 1 : node(i) # NONE}
    IN  IF hits = {} THEN NONE ELSE node(MinOf(hits))

\* lookup_by_name is exact after any sequence of inserts, tombstones and
\* sweeps: it finds a live dirent of the name if there is one, and NONE
\* when the name has only tombstones or nothing (spec §3: a tombstoned
\* dirent is never a positive lookup; §6.7: insert then lookup round-trips).
LookupExact ==
    \A n \in Names :
        IF \E s \in DOMAIN tree : tree[s] = Live(n)
          THEN LookupByName(n) \in DOMAIN tree /\ tree[LookupByName(n)] = Live(n)
          ELSE LookupByName(n) = NONE

=============================================================================
