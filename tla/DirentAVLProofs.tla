--------------------------- MODULE DirentAVLProofs ---------------------------
(***************************************************************************)
(* Proofs about the dirent index, for every key width, probe bound, set of *)
(* names and hash: every reachable tree is a map from keys of the width to *)
(* dirents, and lookup_by_name is exact.                                   *)
(***************************************************************************)
EXTENDS DirentAVL, WellFoundedInduction, TLAPS

\* The key space is a positive number of keys.
LEMMA KeySpacePositive == KeySpace \in Nat \ {0}
BY DirentAVLAssumption

\* Every probe key of every key is a key of the width.
LEMMA ProbeKeyType ==
    ASSUME NEW k \in Keys, NEW j \in Nat
    PROVE  ProbeKey(k, j) \in Keys
BY KeySpacePositive DEF ProbeKey, Keys

LEMMA InitTypeOK == DirInit => DirTypeOK
BY DEF DirInit, DirTypeOK

\* An insert adds at most one probe key of the name, holding a live dirent.
LEMMA InsertTypeOK ==
    ASSUME DirTypeOK, NEW n \in Names, Insert(n)
    PROVE  DirTypeOK'
<1>1. HashOf[n] \in Keys
  BY DirentAVLAssumption
<1>2. CASE \E j \in 0 .. MaxJ :
             tree' = [x \in DOMAIN tree \cup {ProbeKey(HashOf[n], j)} |->
                      IF x = ProbeKey(HashOf[n], j) THEN Live(n) ELSE tree[x]]
           /\ UNCHANGED reindex
  <2>1. PICK j \in 0 .. MaxJ :
             tree' = [x \in DOMAIN tree \cup {ProbeKey(HashOf[n], j)} |->
                        IF x = ProbeKey(HashOf[n], j) THEN Live(n) ELSE tree[x]]
    BY <1>2
  <2>2. ProbeKey(HashOf[n], j) \in Keys
    BY <1>1, ProbeKeyType, DirentAVLAssumption
  <2>3. Live(n) \in Dirents
    BY DEF Live, Dirents
  <2> QED
    BY <1>2, <2>1, <2>2, <2>3 DEF DirTypeOK
<1>3. CASE /\ reindex' = TRUE
           /\ UNCHANGED tree
  BY <1>3 DEF DirTypeOK
<1> QED
  BY <1>2, <1>3 DEF Insert

LEMMA NextTypeOK == DirTypeOK /\ [DirNext]_dir_vars => DirTypeOK'
<1> SUFFICES ASSUME DirTypeOK, [DirNext]_dir_vars PROVE DirTypeOK'
  OBVIOUS
<1>1. CASE \E n \in Names : Insert(n)
  BY <1>1, InsertTypeOK
<1>2. CASE \E s \in Keys : SetDeleted(s)
  BY <1>2 DEF SetDeleted, DirTypeOK, Dirents
<1>3. CASE CleanTree
  BY <1>3 DEF CleanTree, DirTypeOK
<1>4. CASE UNCHANGED dir_vars
  BY <1>4 DEF dir_vars, DirTypeOK
<1> QED
  BY <1>1, <1>2, <1>3, <1>4 DEF DirNext

\* Every reachable dirent index maps keys of the width to dirents, and the
\* reindex mark is a flag: insert only ever adds a probe key (mod the key
\* space), set_deleted and the sweep keep or drop keys.
THEOREM DirentTypeCorrect == DirSpec => []DirTypeOK
BY InitTypeOK, NextTypeOK, PTL DEF DirSpec

-----------------------------------------------------------------------------
(***************************************************************************)
(* lookup_by_name is exact.  The inductive invariant is the probe chain:   *)
(* a live dirent sits at the j-th probe key of its name's hash, for some   *)
(* j up to MaxJ, with every earlier probe key in the tree.  Insert keeps   *)
(* it because it stops at the first key that is free, tombstoned or the   *)
(* name's own, after passing keys in use; set_deleted and the sweep never  *)
(* free a key that a live dirent's chain passes.  With it, the probe index *)
(* of a live dirent is a hit of the lookup's walk, and the least hit,      *)
(* which the natural numbers being well-founded provides, is a live dirent *)
(* of the name.                                                            *)
(***************************************************************************)

\* The probe chain of every live dirent is in the tree.
ProbeChain ==
    \A s \in DOMAIN tree :
        ~tree[s].deleted =>
            \E j \in 0 .. MaxJ :
                /\ s = ProbeKey(HashOf[tree[s].name], j)
                /\ \A i \in 0 .. j - 1 : ProbeKey(HashOf[tree[s].name], i) \in DOMAIN tree

\* MinOf picks the least element of a nonempty set of natural numbers.
LEMMA MinOfLeast ==
    ASSUME NEW S \in SUBSET Nat, S # {}
    PROVE  /\ MinOf(S) \in S
           /\ \A i \in S : MinOf(S) <= i
<1>1. \E x \in S : \A y \in S : ~(<<y, x>> \in OpToRel(<, Nat))
  BY NatLessThanWellFounded, WFMin
<1>2. ASSUME NEW x \in Nat, NEW y \in Nat, ~(<<y, x>> \in OpToRel(<, Nat))
      PROVE  x <= y
  <2>1. ~(y < x)
    BY <1>2, Zenon DEF OpToRel
  <2> QED
    BY <2>1
<1>3. \E x \in S : \A y \in S : x <= y
  BY <1>1, <1>2
<1> QED
  BY <1>3 DEF MinOf

LEMMA InitProbeChain == DirInit => ProbeChain
BY DEF DirInit, ProbeChain

\* An insert that stops at probe j of the name has passed keys in use.
LEMMA InsertProbeChain ==
    ASSUME DirTypeOK, ProbeChain, NEW n \in Names, Insert(n)
    PROVE  ProbeChain'
<1>1. CASE \E j \in 0 .. MaxJ :
             /\ \A i \in 0 .. j - 1 : ProbeKey(HashOf[n], i) \in DOMAIN tree
             /\ tree' = [x \in DOMAIN tree \cup {ProbeKey(HashOf[n], j)} |->
                           IF x = ProbeKey(HashOf[n], j) THEN Live(n) ELSE tree[x]]
  <2>1. PICK j \in 0 .. MaxJ :
             /\ \A i \in 0 .. j - 1 : ProbeKey(HashOf[n], i) \in DOMAIN tree
             /\ tree' = [x \in DOMAIN tree \cup {ProbeKey(HashOf[n], j)} |->
                           IF x = ProbeKey(HashOf[n], j) THEN Live(n) ELSE tree[x]]
    BY <1>1
  <2> SUFFICES ASSUME NEW s \in DOMAIN tree', ~tree'[s].deleted
               PROVE  \E m \in 0 .. MaxJ :
                        /\ s = ProbeKey(HashOf[tree'[s].name], m)
                        /\ \A i \in 0 .. m - 1 :
                              ProbeKey(HashOf[tree'[s].name], i) \in DOMAIN tree'
    BY DEF ProbeChain
  <2>2. DOMAIN tree \subseteq DOMAIN tree'
    BY <2>1
  <2>3. CASE s = ProbeKey(HashOf[n], j)
    <3>1. tree'[s].name = n
      BY <2>1, <2>3 DEF Live
    <3> QED
      BY <2>1, <2>2, <2>3, <3>1
  <2>4. CASE s # ProbeKey(HashOf[n], j)
    <3>1. s \in DOMAIN tree /\ tree'[s] = tree[s]
      BY <2>1, <2>4
    <3> QED
      BY <3>1, <2>2 DEF ProbeChain
  <2> QED
    BY <2>3, <2>4
<1>2. CASE UNCHANGED tree
  BY <1>2 DEF ProbeChain
<1> QED
  BY <1>1, <1>2 DEF Insert

LEMMA NextProbeChain ==
    DirTypeOK /\ ProbeChain /\ [DirNext]_dir_vars => ProbeChain'
<1> SUFFICES ASSUME DirTypeOK, ProbeChain, [DirNext]_dir_vars PROVE ProbeChain'
  OBVIOUS
<1>1. CASE \E n \in Names : Insert(n)
  BY <1>1, InsertProbeChain
<1>2. CASE \E s \in Keys : SetDeleted(s)
  <2>1. PICK d \in Keys : SetDeleted(d)
    BY <1>2
  <2>2. DOMAIN tree' = DOMAIN tree
    BY <2>1 DEF SetDeleted
  <2>3. \A s \in DOMAIN tree : ~tree'[s].deleted =>
           ~tree[s].deleted /\ tree'[s].name = tree[s].name
    BY <2>1 DEF SetDeleted, DirTypeOK, Dirents
  <2> QED
    BY <2>2, <2>3 DEF ProbeChain
<1>3. CASE CleanTree
  BY <1>3 DEF CleanTree, ProbeChain
<1>4. CASE UNCHANGED dir_vars
  BY <1>4 DEF dir_vars, ProbeChain
<1> QED
  BY <1>1, <1>2, <1>3, <1>4 DEF DirNext

LEMMA ProbeChainHolds == DirSpec => [](DirTypeOK /\ ProbeChain)
BY InitTypeOK, InitProbeChain, NextTypeOK, NextProbeChain, PTL DEF DirSpec

\* lookup_by_name is exact in every reachable tree, for every key width,
\* probe bound and hash: it returns a key holding a live dirent of the name
\* when there is one, past tombstones and other names on the probe
\* sequence, and NONE when the name has only tombstones or nothing.
\* avl_dirent_hk_cmpf calls two keys equal exactly when they are equal, so
\* the tree's lookup of a key finds the node of that key, if there is one.
LEMMA HkCmpfZero ==
    ASSUME NEW l \in Keys, NEW r \in Keys
    PROVE  HkCmpf(l, r) = 0 <=> l = r
BY DEF HkCmpf, Keys

LEMMA AvlLookupExact ==
    ASSUME DirTypeOK, NEW x \in Keys
    PROVE  AvlLookup(x) = IF x \in DOMAIN tree THEN x ELSE NONE
<1>1. \A s \in DOMAIN tree : HkCmpf(s, x) = 0 <=> s = x
  BY HkCmpfZero DEF DirTypeOK
<1> QED
  BY <1>1 DEF AvlLookup

THEOREM LookupExactHolds == DirSpec => []LookupExact
<1>1. DirTypeOK /\ ProbeChain => LookupExact
  <2> SUFFICES ASSUME DirTypeOK, ProbeChain, NEW n \in Names
               PROVE  IF \E s \in DOMAIN tree : tree[s] = Live(n)
                        THEN LookupByName(n) \in DOMAIN tree
                             /\ tree[LookupByName(n)] = Live(n)
                        ELSE LookupByName(n) = NONE
    BY DEF LookupExact
  <2> DEFINE k == HashOf[n]
             node(j) == AvlLookup(ProbeKey(k, j))
             hits == {j \in 0 .. MaxJ :
                        /\ node(j) # NONE
                        /\ tree[node(j)] = Live(n)
                        /\ \A i \in 0 .. j - 1 : node(i) # NONE}
  <2>1. LookupByName(n) = IF hits = {} THEN NONE ELSE node(MinOf(hits))
    BY DEF LookupByName
  <2>0. \A j \in Nat : node(j) = IF ProbeKey(k, j) \in DOMAIN tree
                                  THEN ProbeKey(k, j) ELSE NONE
    BY ProbeKeyType, AvlLookupExact, DirentAVLAssumption
  <2>4. \A j \in Nat : node(j) # NONE => node(j) = ProbeKey(k, j)
                                        /\ node(j) \in DOMAIN tree
    BY <2>0
  <2>2. CASE \E s \in DOMAIN tree : tree[s] = Live(n)
    <3>1. PICK s \in DOMAIN tree : tree[s] = Live(n)
      BY <2>2
    <3>2. ~tree[s].deleted /\ tree[s].name = n
      BY <3>1 DEF Live
    <3>3. PICK j \in 0 .. MaxJ :
             /\ s = ProbeKey(k, j)
             /\ \A i \in 0 .. j - 1 : ProbeKey(k, i) \in DOMAIN tree
      BY <3>2 DEF ProbeChain
    <3>4. j \in hits
      BY <3>1, <3>3, <2>0, DirentAVLAssumption, NONE \notin Keys DEF DirTypeOK
    <3>5. MinOf(hits) \in hits
      BY <3>4, MinOfLeast
    <3> QED
      BY <2>1, <2>2, <2>4, <3>4, <3>5
  <2>3. CASE ~\E s \in DOMAIN tree : tree[s] = Live(n)
    <3>1. hits = {}
      BY <2>3, <2>4
    <3> QED
      BY <2>1, <2>3, <3>1
  <2> QED
    BY <2>2, <2>3
<1> QED
  BY <1>1, ProbeChainHolds, PTL

=============================================================================
