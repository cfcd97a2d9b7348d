-------------------------- MODULE LockOrderProofs ---------------------------
(***************************************************************************)
(* Proofs about the locks of mdcache_unexport, of a lookup linking an      *)
(* entry, and of the LRU reaper.                                           *)
(*                                                                         *)
(* NoLockLeak is not inductive as it stands: the locks an actor holds are  *)
(* named by the entry it works on, so the invariant adds that the entry is *)
(* set wherever a lock on it is held or about to be taken (CurSet).        *)
(* LockOrdered then follows in every state from NoLockLeak alone.          *)
(***************************************************************************)
EXTENDS LockOrder, TLAPS

\* An actor works on an entry from where it picks one to where it lets go.
CurSet ==
    /\ \A x \in Exports :
          pc[x] \in {"first", "second", "lane", "push_attr", "put"} => cur[x] \in Entries
    /\ \A l \in Linkers : pc[l] \in {"first", "second"} => cur[l] \in Entries
    /\ pc[Reaper] = "unmap" => cur[Reaper] \in Entries

\* Every actor has a place.
PcDomain == pc \in [Actors -> UnexportPcs \cup LinkPcs \cup ReapPcs]

LInv == LockTypeOK /\ PcDomain /\ CurSet /\ NoLockLeak

-----------------------------------------------------------------------------
(* What each actor holds, by its place.                                    *)

LEMMA ActorKinds ==
    /\ Reaper \in Actors /\ Nobody \notin Actors
    /\ \A x \in Exports : x \notin Linkers /\ x # Reaper
    /\ \A l \in Linkers : l # Reaper
BY LockOrderAssumption DEF Actors

LEMMA HoldsExport ==
    ASSUME NEW x \in Exports
    PROVE  Holds(x) = IF pc[x] = "second" THEN {AttrLock(cur[x])}
                      ELSE IF pc[x] = "push_attr" THEN {LaneLock}
                      ELSE {}
BY ActorKinds DEF Holds, UnexportLocks

LEMMA HoldsLinker ==
    ASSUME NEW l \in Linkers
    PROVE  Holds(l) = IF pc[l] = "second" THEN {AttrLock(cur[l])} ELSE {}
BY ActorKinds DEF Holds

LEMMA HoldsReaper ==
    Holds(Reaper) = IF pc[Reaper] = "scan" THEN {LaneLock}
                    ELSE IF pc[Reaper] = "unmap" THEN {LaneLock, AttrLock(cur[Reaper])}
                    ELSE {}
BY ActorKinds DEF Holds


\* What an actor holds depends on its own place and entry only.
LEMMA HoldsFrame ==
    ASSUME NEW a \in Actors, pc'[a] = pc[a], cur'[a] = cur[a]
    PROVE  Holds(a)' = Holds(a)
BY DEF Holds, UnexportLocks

\* A step of actor b that changes only b's place and entry, and takes or
\* drops only free locks or b's own, leaves every other actor holding what
\* it held.
LEMMA OthersKeep ==
    ASSUME NoLockLeak, LockTypeOK,
           NEW b \in Actors,
           owner' \in [Locks -> Actors \cup {Nobody}],
           \A l \in Locks : owner'[l] # owner[l] =>
                               owner[l] \in {b, Nobody} /\ owner'[l] \in {b, Nobody},
           \A a \in Actors \ {b} : pc'[a] = pc[a] /\ cur'[a] = cur[a]
    PROVE  \A a \in Actors \ {b} : {l \in Locks : owner'[l] = a} = Holds(a)'
<1> SUFFICES ASSUME NEW a \in Actors \ {b}
             PROVE  {l \in Locks : owner'[l] = a} = Holds(a)'
  OBVIOUS
<1>1. Holds(a)' = Holds(a)
  BY HoldsFrame
<1>2. {l \in Locks : owner'[l] = a} = {l \in Locks : owner[l] = a}
  BY ActorKinds
<1>3. QED
  BY <1>1, <1>2 DEF NoLockLeak


\* What the acting actor holds after its step.
LEMMA HoldsExportNext ==
    ASSUME NEW x \in Exports
    PROVE  Holds(x)' = IF pc'[x] = "second" THEN {AttrLock(cur'[x])}
                       ELSE IF pc'[x] = "push_attr" THEN {LaneLock}
                       ELSE {}
BY ActorKinds DEF Holds, UnexportLocks

LEMMA HoldsLinkerNext ==
    ASSUME NEW l \in Linkers
    PROVE  Holds(l)' = IF pc'[l] = "second" THEN {AttrLock(cur'[l])} ELSE {}
BY ActorKinds DEF Holds

LEMMA HoldsReaperNext ==
    Holds(Reaper)' = IF pc'[Reaper] = "scan" THEN {LaneLock}
                     ELSE IF pc'[Reaper] = "unmap" THEN {LaneLock, AttrLock(cur'[Reaper])}
                     ELSE {}
BY ActorKinds DEF Holds


\* The ranks of the three kinds of lock.
LEMMA RankOf ==
    /\ LockRank(LaneLock) = 0
    /\ \A e \in Entries : LockRank(AttrLock(e)) = 1
    /\ \A x \in Exports : LockRank(ExpLock(x)) = 2
<1>1. LaneLock \notin {AttrLock(e) : e \in Entries} \cup {ExpLock(x) : x \in Exports}
  BY DEF LaneLock, AttrLock, ExpLock
<1>2. \A e \in Entries : AttrLock(e) \notin {ExpLock(x) : x \in Exports}
  BY DEF AttrLock, ExpLock
<1>3. QED
  BY <1>1, <1>2, Zenon DEF LockRank

\* The lock each kind of actor blocks on, by its place.
LEMMA WantsExport ==
    ASSUME NEW x \in Exports
    PROVE  Wants(x) = IF pc[x] \in {"loop", "second"} THEN {ExpLock(x)}
                      ELSE IF pc[x] \in {"first", "push_attr"} THEN {AttrLock(cur[x])}
                      ELSE IF pc[x] = "lane" THEN {LaneLock}
                      ELSE {}
BY ActorKinds DEF Wants, UnexportLocks

LEMMA WantsLinker ==
    ASSUME NEW n \in Linkers
    PROVE  Wants(n) = IF pc[n] = "first" THEN {AttrLock(cur[n])}
                      ELSE IF pc[n] = "second" THEN {ExpLock(target[n])}
                      ELSE {}
BY ActorKinds DEF Wants

\* The reaper only try-locks.
LEMMA WantsReaper == Wants(Reaper) = {}
BY ActorKinds DEF Wants

-----------------------------------------------------------------------------
(* mdcache_unexport's loop.                                                *)

\* Lines 100-118: the loop reads the map under mdc_exp_lock and leaves
\* holding nothing.
LEMMA UxLoopLInv ==
    ASSUME LInv, NEW x \in Exports, UxLoop(x)
    PROVE  LInv'
<1>0. x \in Actors /\ pc[x] = "loop" /\ owner' = owner
  BY DEF UxLoop, Actors
<1>1. /\ pc' = [pc EXCEPT ![x] = pc'[x]] /\ pc'[x] \in {"first", "done"}
      /\ cur' = [cur EXCEPT ![x] = cur'[x]] /\ cur'[x] \in Entries \cup {NoEntry}
      /\ pc'[x] = "first" => cur'[x] \in Entries
      /\ UNCHANGED <<target, linked>>
  <2>1. CASE \E e \in Entries : x \in linked[e]
    <3>1. PICK e \in Entries : /\ cur' = [cur EXCEPT ![x] = e]
                               /\ pc' = [pc EXCEPT ![x] = "first"]
      BY <2>1 DEF UxLoop
    <3>2. QED
      BY <3>1, <1>0 DEF UxLoop, LInv, LockTypeOK, PcDomain
  <2>2. CASE ~\E e \in Entries : x \in linked[e]
    BY <2>2, <1>0 DEF UxLoop, LInv, LockTypeOK, PcDomain
  <2>3. QED
    BY <2>1, <2>2
<1>2. LockTypeOK' /\ PcDomain' /\ CurSet'
  BY <1>0, <1>1, ActorKinds DEF LInv, LockTypeOK, PcDomain, CurSet,
                                UnexportPcs, LinkPcs, ReapPcs, Actors
<1>3. {l \in Locks : owner'[l] = x} = Holds(x)'
  BY <1>0, <1>1, HoldsExport, HoldsExportNext DEF LInv, NoLockLeak
<1>4. \A a \in Actors \ {x} : {l \in Locks : owner'[l] = a} = Holds(a)'
  BY <1>0, <1>1, OthersKeep DEF LInv, LockTypeOK, PcDomain
<1>5. QED
  BY <1>2, <1>3, <1>4, <1>0 DEF LInv, NoLockLeak


\* Line 121: attr_lock of the entry the loop holds a reference on.
LEMMA UxFirstLockLInv ==
    ASSUME LInv, NEW x \in Exports, UxFirstLock(x)
    PROVE  LInv'
<1>0. /\ x \in Actors /\ pc[x] = "first" /\ cur[x] \in Entries
      /\ AttrLock(cur[x]) \in Locks /\ owner[AttrLock(cur[x])] = Nobody
      /\ owner' = [owner EXCEPT ![AttrLock(cur[x])] = x]
  BY DEF UxFirstLock, UnexportLocks, Free, LInv, CurSet, Actors, Locks
<1>1. /\ pc' = [pc EXCEPT ![x] = "second"] /\ UNCHANGED <<cur, target, linked>>
  BY DEF UxFirstLock
<1>2. LockTypeOK' /\ PcDomain' /\ CurSet'
  BY <1>0, <1>1, ActorKinds DEF LInv, LockTypeOK, PcDomain, CurSet,
                                UnexportPcs, LinkPcs, ReapPcs, Actors
<1>3. {l \in Locks : owner'[l] = x} = Holds(x)'
  BY <1>0, <1>1, HoldsExport, HoldsExportNext DEF LInv, NoLockLeak, LockTypeOK,
                                                PcDomain, Actors
<1>4. \A a \in Actors \ {x} : {l \in Locks : owner'[l] = a} = Holds(a)'
  BY <1>0, <1>1, OthersKeep DEF LInv, LockTypeOK, PcDomain
<1>5. QED
  BY <1>2, <1>3, <1>4, <1>0 DEF LInv, NoLockLeak

\* Lines 122-149: the map removed under both locks, and both dropped.
LEMMA UxSecondLockLInv ==
    ASSUME LInv, NEW x \in Exports, UxSecondLock(x)
    PROVE  LInv'
<1>0. /\ x \in Actors /\ pc[x] = "second" /\ cur[x] \in Entries
      /\ AttrLock(cur[x]) \in Locks /\ owner[AttrLock(cur[x])] = x
      /\ owner' = [owner EXCEPT ![AttrLock(cur[x])] = Nobody]
  <2>1. x \in Actors /\ pc[x] = "second" /\ cur[x] \in Entries
    BY DEF UxSecondLock, LInv, CurSet, Actors
  <2>2. Holds(x) = {AttrLock(cur[x])}
    BY <2>1, HoldsExport
  <2>3. QED
    BY <2>1, <2>2 DEF UxSecondLock, UnexportLocks, LInv, NoLockLeak, Locks
<1>1. /\ pc' = [pc EXCEPT ![x] = pc'[x]] /\ pc'[x] \in {"lane", "put"}
      /\ UNCHANGED <<cur, target>>
      /\ linked' = [linked EXCEPT ![cur[x]] = @ \ {x}]
  BY <1>0 DEF UxSecondLock, LInv, PcDomain
<1>2. LockTypeOK' /\ PcDomain' /\ CurSet'
  BY <1>0, <1>1, ActorKinds DEF LInv, LockTypeOK, PcDomain, CurSet,
                                UnexportPcs, LinkPcs, ReapPcs, Actors
<1>3. {l \in Locks : owner'[l] = x} = Holds(x)'
  <2>1. {l \in Locks : owner[l] = x} = {AttrLock(cur[x])}
    BY <1>0, HoldsExport DEF LInv, NoLockLeak
  <2>2. Holds(x)' = {}
    BY <1>0, <1>1, HoldsExportNext DEF LInv, PcDomain
  <2>3. QED
    BY <1>0, <2>1, <2>2, ActorKinds DEF LInv, LockTypeOK
<1>4. \A a \in Actors \ {x} : {l \in Locks : owner'[l] = a} = Holds(a)'
  BY <1>0, <1>1, OthersKeep DEF LInv, LockTypeOK, PcDomain
<1>5. QED
  BY <1>2, <1>3, <1>4, <1>0 DEF LInv, NoLockLeak

\* mdcache_lru_cleanup_try_push takes the lane lock.
LEMMA UxPushLaneLInv ==
    ASSUME LInv, NEW x \in Exports, UxPushLane(x)
    PROVE  LInv'
<1>0. /\ x \in Actors /\ pc[x] = "lane"
      /\ LaneLock \in Locks /\ owner[LaneLock] = Nobody
      /\ owner' = [owner EXCEPT ![LaneLock] = x]
  BY DEF UxPushLane, Free, Actors, Locks
<1>1. /\ pc' = [pc EXCEPT ![x] = "push_attr"] /\ UNCHANGED <<cur, target, linked>>
  BY DEF UxPushLane
<1>2. LockTypeOK' /\ PcDomain' /\ CurSet'
  BY <1>0, <1>1, ActorKinds DEF LInv, LockTypeOK, PcDomain, CurSet,
                                UnexportPcs, LinkPcs, ReapPcs, Actors
<1>3. {l \in Locks : owner'[l] = x} = Holds(x)'
  BY <1>0, <1>1, HoldsExport, HoldsExportNext DEF LInv, NoLockLeak, LockTypeOK,
                                                PcDomain, Actors
<1>4. \A a \in Actors \ {x} : {l \in Locks : owner'[l] = a} = Holds(a)'
  BY <1>0, <1>1, OthersKeep DEF LInv, LockTypeOK, PcDomain
<1>5. QED
  BY <1>2, <1>3, <1>4, <1>0 DEF LInv, NoLockLeak

\* ... then attr_lock while the entry is queued, and drops both.
LEMMA UxPushAttrLInv ==
    ASSUME LInv, NEW x \in Exports, UxPushAttr(x)
    PROVE  LInv'
<1>0. /\ x \in Actors /\ pc[x] = "push_attr"
      /\ LaneLock \in Locks /\ owner[LaneLock] = x
      /\ owner' = [owner EXCEPT ![LaneLock] = Nobody]
  <2>1. x \in Actors /\ pc[x] = "push_attr"
    BY DEF UxPushAttr, Actors
  <2>2. Holds(x) = {LaneLock}
    BY <2>1, HoldsExport
  <2>3. QED
    BY <2>1, <2>2 DEF UxPushAttr, LInv, NoLockLeak, Locks
<1>1. /\ pc' = [pc EXCEPT ![x] = "put"] /\ UNCHANGED <<cur, target, linked>>
  BY DEF UxPushAttr
<1>2. LockTypeOK' /\ PcDomain' /\ CurSet'
  BY <1>0, <1>1, ActorKinds DEF LInv, LockTypeOK, PcDomain, CurSet,
                                UnexportPcs, LinkPcs, ReapPcs, Actors
<1>3. {l \in Locks : owner'[l] = x} = Holds(x)'
  <2>1. {l \in Locks : owner[l] = x} = {LaneLock}
    BY <1>0, HoldsExport DEF LInv, NoLockLeak
  <2>2. Holds(x)' = {}
    BY <1>0, <1>1, HoldsExportNext DEF LInv, PcDomain
  <2>3. QED
    BY <1>0, <2>1, <2>2, ActorKinds DEF LInv, LockTypeOK
<1>4. \A a \in Actors \ {x} : {l \in Locks : owner'[l] = a} = Holds(a)'
  BY <1>0, <1>1, OthersKeep DEF LInv, LockTypeOK, PcDomain
<1>5. QED
  BY <1>2, <1>3, <1>4, <1>0 DEF LInv, NoLockLeak

\* Line 152: mdcache_put lets the entry go.
LEMMA UxPutLInv ==
    ASSUME LInv, NEW x \in Exports, UxPut(x)
    PROVE  LInv'
<1>0. x \in Actors /\ pc[x] = "put" /\ owner' = owner
  BY DEF UxPut, Actors
<1>1. /\ pc' = [pc EXCEPT ![x] = "loop"] /\ cur' = [cur EXCEPT ![x] = NoEntry]
      /\ UNCHANGED <<target, linked>>
  BY DEF UxPut
<1>2. LockTypeOK' /\ PcDomain' /\ CurSet'
  BY <1>0, <1>1, ActorKinds DEF LInv, LockTypeOK, PcDomain, CurSet,
                                UnexportPcs, LinkPcs, ReapPcs, Actors
<1>3. {l \in Locks : owner'[l] = x} = Holds(x)'
  BY <1>0, <1>1, HoldsExport, HoldsExportNext DEF LInv, NoLockLeak, LockTypeOK,
                                                PcDomain, Actors
<1>4. \A a \in Actors \ {x} : {l \in Locks : owner'[l] = a} = Holds(a)'
  BY <1>0, <1>1, OthersKeep DEF LInv, LockTypeOK, PcDomain
<1>5. QED
  BY <1>2, <1>3, <1>4, <1>0 DEF LInv, NoLockLeak


-----------------------------------------------------------------------------
(* A lookup linking an entry to an export.                                 *)

\* The lookup picks the entry and the export.
LEMMA LinkStartLInv ==
    ASSUME LInv, NEW n \in Linkers, LinkStart(n)
    PROVE  LInv'
<1>0. n \in Actors /\ pc[n] = "idle" /\ owner' = owner
  BY DEF LinkStart, Actors
<1>1. /\ pc' = [pc EXCEPT ![n] = "first"]
      /\ \E e \in Entries : cur' = [cur EXCEPT ![n] = e]
      /\ \E x \in Exports : target' = [target EXCEPT ![n] = x]
      /\ UNCHANGED linked
  BY DEF LinkStart
<1>2. LockTypeOK' /\ PcDomain' /\ CurSet'
  BY <1>0, <1>1, ActorKinds DEF LInv, LockTypeOK, PcDomain, CurSet,
                                UnexportPcs, LinkPcs, ReapPcs, Actors
<1>3. {l \in Locks : owner'[l] = n} = Holds(n)'
  <2>1. {l \in Locks : owner[l] = n} = {}
    BY <1>0, HoldsLinker DEF LInv, NoLockLeak
  <2>2. Holds(n)' = {}
    BY <1>0, <1>1, HoldsLinkerNext DEF LInv, PcDomain
  <2>3. QED
    BY <1>0, <2>1, <2>2, ActorKinds DEF LInv, LockTypeOK
<1>4. \A a \in Actors \ {n} : {l \in Locks : owner'[l] = a} = Holds(a)'
  BY <1>0, <1>1, OthersKeep DEF LInv, LockTypeOK, PcDomain
<1>5. QED
  BY <1>2, <1>3, <1>4, <1>0 DEF LInv, NoLockLeak

\* attr_lock first ...
LEMMA LinkAttrLInv ==
    ASSUME LInv, NEW n \in Linkers, LinkAttr(n)
    PROVE  LInv'
<1>0. /\ n \in Actors /\ pc[n] = "first" /\ cur[n] \in Entries
      /\ AttrLock(cur[n]) \in Locks /\ owner[AttrLock(cur[n])] = Nobody
      /\ owner' = [owner EXCEPT ![AttrLock(cur[n])] = n]
  BY DEF LinkAttr, Free, LInv, CurSet, Actors, Locks
<1>1. /\ pc' = [pc EXCEPT ![n] = "second"] /\ UNCHANGED <<cur, target, linked>>
  BY DEF LinkAttr
<1>2. LockTypeOK' /\ PcDomain' /\ CurSet'
  BY <1>0, <1>1, ActorKinds DEF LInv, LockTypeOK, PcDomain, CurSet,
                                UnexportPcs, LinkPcs, ReapPcs, Actors
<1>3. {l \in Locks : owner'[l] = n} = Holds(n)'
  <2>1. {l \in Locks : owner[l] = n} = {}
    BY <1>0, HoldsLinker DEF LInv, NoLockLeak
  <2>2. Holds(n)' = {AttrLock(cur[n])}
    BY <1>0, <1>1, HoldsLinkerNext DEF LInv, PcDomain
  <2>3. QED
    BY <1>0, <2>1, <2>2, ActorKinds DEF LInv, LockTypeOK
<1>4. \A a \in Actors \ {n} : {l \in Locks : owner'[l] = a} = Holds(a)'
  BY <1>0, <1>1, OthersKeep DEF LInv, LockTypeOK, PcDomain
<1>5. QED
  BY <1>2, <1>3, <1>4, <1>0 DEF LInv, NoLockLeak

\* ... then mdc_exp_lock; the association is added and both are dropped.
LEMMA LinkExpLInv ==
    ASSUME LInv, NEW n \in Linkers, LinkExp(n)
    PROVE  LInv'
<1>0. /\ n \in Actors /\ pc[n] = "second" /\ cur[n] \in Entries
      /\ AttrLock(cur[n]) \in Locks /\ owner[AttrLock(cur[n])] = n
      /\ owner' = [owner EXCEPT ![AttrLock(cur[n])] = Nobody]
  <2>1. n \in Actors /\ pc[n] = "second" /\ cur[n] \in Entries
    BY DEF LinkExp, LInv, CurSet, Actors
  <2>2. Holds(n) = {AttrLock(cur[n])}
    BY <2>1, HoldsLinker
  <2>3. QED
    BY <2>1, <2>2 DEF LinkExp, LInv, NoLockLeak, Locks
<1>1. /\ pc' = [pc EXCEPT ![n] = "idle"] /\ cur' = [cur EXCEPT ![n] = NoEntry]
      /\ linked' = [linked EXCEPT ![cur[n]] = @ \cup {target[n]}]
      /\ UNCHANGED target
  BY DEF LinkExp
<1>2. LockTypeOK' /\ PcDomain' /\ CurSet'
  BY <1>0, <1>1, ActorKinds DEF LInv, LockTypeOK, PcDomain, CurSet,
                                UnexportPcs, LinkPcs, ReapPcs, Actors
<1>3. {l \in Locks : owner'[l] = n} = Holds(n)'
  <2>1. {l \in Locks : owner[l] = n} = {AttrLock(cur[n])}
    BY <1>0, HoldsLinker DEF LInv, NoLockLeak
  <2>2. Holds(n)' = {}
    BY <1>0, <1>1, HoldsLinkerNext DEF LInv, PcDomain
  <2>3. QED
    BY <1>0, <2>1, <2>2, ActorKinds DEF LInv, LockTypeOK
<1>4. \A a \in Actors \ {n} : {l \in Locks : owner'[l] = a} = Holds(a)'
  BY <1>0, <1>1, OthersKeep DEF LInv, LockTypeOK, PcDomain
<1>5. QED
  BY <1>2, <1>3, <1>4, <1>0 DEF LInv, NoLockLeak


-----------------------------------------------------------------------------
(* The LRU reaper.                                                         *)

\* The reaper takes the lane lock only when it is free.
LEMMA ReapLaneLInv ==
    ASSUME LInv, ReapLane
    PROVE  LInv'
<1>0. /\ Reaper \in Actors /\ pc[Reaper] = "idle"
      /\ LaneLock \in Locks /\ owner[LaneLock] = Nobody
      /\ owner' = [owner EXCEPT ![LaneLock] = Reaper]
  BY ActorKinds DEF ReapLane, Free, Locks
<1>1. /\ pc' = [pc EXCEPT ![Reaper] = "scan"] /\ UNCHANGED <<cur, target, linked>>
  BY DEF ReapLane
<1>2. LockTypeOK' /\ PcDomain' /\ CurSet'
  BY <1>0, <1>1, ActorKinds DEF LInv, LockTypeOK, PcDomain, CurSet,
                                UnexportPcs, LinkPcs, ReapPcs, Actors
<1>3. {l \in Locks : owner'[l] = Reaper} = Holds(Reaper)'
  <2>1. {l \in Locks : owner[l] = Reaper} = {}
    BY <1>0, HoldsReaper DEF LInv, NoLockLeak
  <2>2. Holds(Reaper)' = {LaneLock}
    BY <1>0, <1>1, HoldsReaperNext DEF LInv, PcDomain
  <2>3. QED
    BY <1>0, <2>1, <2>2, ActorKinds DEF LInv, LockTypeOK
<1>4. \A a \in Actors \ {Reaper} : {l \in Locks : owner'[l] = a} = Holds(a)'
  BY <1>0, <1>1, OthersKeep DEF LInv, LockTypeOK, PcDomain
<1>5. QED
  BY <1>2, <1>3, <1>4, <1>0 DEF LInv, NoLockLeak

\* Walking the lane, the reaper try-locks attr_lock of an entry nobody
\* references.
LEMMA ReapScanTakeLInv ==
    ASSUME LInv, pc[Reaper] = "scan", NEW e \in Entries,
           ~Referenced(e), Free(AttrLock(e)),
           owner' = [owner EXCEPT ![AttrLock(e)] = Reaper],
           cur' = [cur EXCEPT ![Reaper] = e],
           pc' = [pc EXCEPT ![Reaper] = "unmap"],
           UNCHANGED <<target, linked>>
    PROVE  LInv'
<1>0. /\ Reaper \in Actors /\ pc[Reaper] = "scan"
      /\ AttrLock(e) \in Locks /\ owner[AttrLock(e)] = Nobody
      /\ owner' = [owner EXCEPT ![AttrLock(e)] = Reaper]
  BY ActorKinds DEF Free, Locks
<1>1. /\ pc' = [pc EXCEPT ![Reaper] = "unmap"] /\ cur' = [cur EXCEPT ![Reaper] = e]
      /\ UNCHANGED <<target, linked>>
  OBVIOUS
<1>2. LockTypeOK' /\ PcDomain' /\ CurSet'
  BY <1>0, <1>1, ActorKinds DEF LInv, LockTypeOK, PcDomain, CurSet,
                                UnexportPcs, LinkPcs, ReapPcs, Actors
<1>3. {l \in Locks : owner'[l] = Reaper} = Holds(Reaper)'
  <2>1. {l \in Locks : owner[l] = Reaper} = {LaneLock}
    BY <1>0, HoldsReaper DEF LInv, NoLockLeak
  <2>2. Holds(Reaper)' = {LaneLock, AttrLock(e)}
    BY <1>0, <1>1, HoldsReaperNext DEF LInv, PcDomain, LockTypeOK
  <2>3. QED
    BY <1>0, <2>1, <2>2, ActorKinds DEF LInv, LockTypeOK
<1>4. \A a \in Actors \ {Reaper} : {l \in Locks : owner'[l] = a} = Holds(a)'
  BY <1>0, <1>1, OthersKeep DEF LInv, LockTypeOK, PcDomain
<1>5. QED
  BY <1>2, <1>3, <1>4, <1>0 DEF LInv, NoLockLeak

\* ... or gives the lane up.
LEMMA ReapScanYieldLInv ==
    ASSUME LInv, pc[Reaper] = "scan",
           owner' = [owner EXCEPT ![LaneLock] = Nobody],
           pc' = [pc EXCEPT ![Reaper] = "idle"],
           UNCHANGED <<cur, target, linked>>
    PROVE  LInv'
<1>0. /\ Reaper \in Actors /\ pc[Reaper] = "scan"
      /\ LaneLock \in Locks /\ owner[LaneLock] = Reaper
      /\ owner' = [owner EXCEPT ![LaneLock] = Nobody]
  BY ActorKinds, HoldsReaper DEF LInv, NoLockLeak, Locks
<1>1. /\ pc' = [pc EXCEPT ![Reaper] = "idle"] /\ UNCHANGED <<cur, target, linked>>
  OBVIOUS
<1>2. LockTypeOK' /\ PcDomain' /\ CurSet'
  BY <1>0, <1>1, ActorKinds DEF LInv, LockTypeOK, PcDomain, CurSet,
                                UnexportPcs, LinkPcs, ReapPcs, Actors
<1>3. {l \in Locks : owner'[l] = Reaper} = Holds(Reaper)'
  <2>1. {l \in Locks : owner[l] = Reaper} = {LaneLock}
    BY <1>0, HoldsReaper DEF LInv, NoLockLeak
  <2>2. Holds(Reaper)' = {}
    BY <1>0, <1>1, HoldsReaperNext DEF LInv, PcDomain
  <2>3. QED
    BY <1>0, <2>1, <2>2, ActorKinds DEF LInv, LockTypeOK
<1>4. \A a \in Actors \ {Reaper} : {l \in Locks : owner'[l] = a} = Holds(a)'
  BY <1>0, <1>1, OthersKeep DEF LInv, LockTypeOK, PcDomain
<1>5. QED
  BY <1>2, <1>3, <1>4, <1>0 DEF LInv, NoLockLeak

LEMMA ReapScanLInv ==
    ASSUME LInv, ReapScan
    PROVE  LInv'
BY ReapScanTakeLInv, ReapScanYieldLInv DEF ReapScan

\* Unlinking the entry, or giving it up, drops both locks.
LEMMA ReapUnmapLInv ==
    ASSUME LInv, ReapUnmap
    PROVE  LInv'
<1>0. /\ Reaper \in Actors /\ pc[Reaper] = "unmap" /\ cur[Reaper] \in Entries
      /\ LaneLock \in Locks /\ owner[LaneLock] = Reaper
      /\ AttrLock(cur[Reaper]) \in Locks /\ owner[AttrLock(cur[Reaper])] = Reaper
      /\ owner' = [owner EXCEPT ![AttrLock(cur[Reaper])] = Nobody,
                                ![LaneLock] = Nobody]
  <2>1. Reaper \in Actors /\ pc[Reaper] = "unmap" /\ cur[Reaper] \in Entries
    BY ActorKinds DEF ReapUnmap, LInv, CurSet
  <2>2. Holds(Reaper) = {LaneLock, AttrLock(cur[Reaper])}
    BY <2>1, HoldsReaper
  <2>3. QED
    BY <2>1, <2>2 DEF ReapUnmap, LInv, NoLockLeak, Locks
<1>1. /\ pc' = [pc EXCEPT ![Reaper] = "idle"]
      /\ cur' = [cur EXCEPT ![Reaper] = NoEntry]
      /\ linked' \in [Entries -> SUBSET Exports]
      /\ UNCHANGED target
  BY <1>0 DEF ReapUnmap, LInv, LockTypeOK
<1>2. LockTypeOK' /\ PcDomain' /\ CurSet'
  BY <1>0, <1>1, ActorKinds DEF LInv, LockTypeOK, PcDomain, CurSet,
                                UnexportPcs, LinkPcs, ReapPcs, Actors
<1>3. {l \in Locks : owner'[l] = Reaper} = Holds(Reaper)'
  <2>1. {l \in Locks : owner[l] = Reaper} = {LaneLock, AttrLock(cur[Reaper])}
    BY <1>0, HoldsReaper DEF LInv, NoLockLeak
  <2>2. Holds(Reaper)' = {}
    BY <1>0, <1>1, HoldsReaperNext DEF LInv, PcDomain
  <2>3. QED
    BY <1>0, <2>1, <2>2, ActorKinds DEF LInv, LockTypeOK
<1>4. \A a \in Actors \ {Reaper} : {l \in Locks : owner'[l] = a} = Holds(a)'
  BY <1>0, <1>1, OthersKeep DEF LInv, LockTypeOK, PcDomain
<1>5. QED
  BY <1>2, <1>3, <1>4, <1>0 DEF LInv, NoLockLeak


-----------------------------------------------------------------------------
(* The invariant.                                                          *)

LEMMA InitLInv == LockInit => LInv
<1> SUFFICES ASSUME LockInit PROVE LInv
  OBVIOUS
<1>1. \A a \in Actors : pc[a] = IF a \in Exports THEN "loop" ELSE "idle"
  <2> SUFFICES ASSUME NEW a \in Actors
               PROVE  pc[a] = IF a \in Exports THEN "loop" ELSE "idle"
    OBVIOUS
  <2>1. CASE a \in Exports
    <3>1. pc[a] = CASE a \in Exports -> "loop" [] a \in Linkers -> "idle"
                    [] OTHER -> "idle"
      BY DEF LockInit
    <3>2. QED
      BY <2>1, <3>1, ActorKinds, Zenon
  <2>2. CASE a \in Linkers
    BY <2>2, ActorKinds, Zenon DEF LockInit
  <2>3. CASE a = Reaper
    BY <2>3, ActorKinds, Zenon DEF LockInit
  <2>4. QED
    BY <2>1, <2>2, <2>3 DEF Actors
<1>2. \A a \in Actors : Holds(a) = {}
  BY <1>1, ActorKinds, HoldsExport, HoldsLinker, HoldsReaper DEF Actors
<1>3. LockTypeOK /\ PcDomain /\ CurSet
  BY <1>1, ActorKinds DEF LockInit, LockTypeOK, PcDomain, CurSet,
                          UnexportPcs, LinkPcs, ReapPcs, Actors
<1>4. NoLockLeak
  BY <1>2, ActorKinds DEF LockInit, NoLockLeak
<1>5. QED
  BY <1>3, <1>4 DEF LInv

LEMMA StutterLInv ==
    ASSUME LInv, UNCHANGED lock_vars
    PROVE  LInv'
BY DEF lock_vars, LInv, LockTypeOK, PcDomain, CurSet, NoLockLeak, Holds,
       UnexportLocks

LEMMA NextLInv == LInv /\ [LockNext]_lock_vars => LInv'
<1> SUFFICES ASSUME LInv, [LockNext]_lock_vars PROVE LInv'
  OBVIOUS
<1>1. ASSUME NEW x \in Exports,
             \/ UxLoop(x) \/ UxFirstLock(x) \/ UxSecondLock(x)
             \/ UxPushLane(x) \/ UxPushAttr(x) \/ UxPut(x)
      PROVE  LInv'
  BY <1>1, UxLoopLInv, UxFirstLockLInv, UxSecondLockLInv, UxPushLaneLInv,
     UxPushAttrLInv, UxPutLInv
<1>2. ASSUME NEW n \in Linkers, LinkStart(n) \/ LinkAttr(n) \/ LinkExp(n)
      PROVE  LInv'
  BY <1>2, LinkStartLInv, LinkAttrLInv, LinkExpLInv
<1>3. QED
  BY <1>1, <1>2, ReapLaneLInv, ReapScanLInv, ReapUnmapLInv, StutterLInv
     DEF LockNext

\* The strengthened invariant holds in every reachable state.
THEOREM LInvHolds == LockSpec => []LInv
BY InitLInv, NextLInv, PTL DEF LockSpec

\* No lock is leaked: every path of mdcache_unexport's loop, of a lookup
\* linking an entry and of the reaper's give-up paths drops what it took,
\* whichever way the actors interleave and however many entries, exports
\* and lookups there are.
THEOREM NoLockLeakHolds == LockSpec => []NoLockLeak
BY LInvHolds, PTL DEF LInv


\* LockOrdered follows from the invariant in each state: a holder is an
\* unexport or a lookup past its first lock, and the reaper never waits.
LEMMA LockOrderedInv == LInv => LockOrdered
<1>1. LInv => LockOrdered
  <2> SUFFICES ASSUME LInv, NEW a \in Actors, NEW l \in Locks, owner[l] = a,
                      NEW w \in Wants(a)
               PROVE  LockRank(l) < LockRank(w)
    BY DEF LockOrdered
  <2>1. l \in Holds(a)
    BY DEF LInv, NoLockLeak
  <2>2. CASE a \in Exports
    <3>1. /\ pc[a] = "second" => l = AttrLock(cur[a]) /\ w = ExpLock(a)
          /\ pc[a] = "push_attr" => l = LaneLock /\ w = AttrLock(cur[a])
          /\ pc[a] \in {"second", "push_attr"}
      BY <2>1, <2>2, HoldsExport, WantsExport
    <3>2. cur[a] \in Entries
      BY <2>2, <3>1 DEF LInv, CurSet
    <3>3. QED
      BY <2>2, <3>1, <3>2, RankOf
  <2>3. CASE a \in Linkers
    <3>1. pc[a] = "second" /\ l = AttrLock(cur[a]) /\ w = ExpLock(target[a])
      BY <2>1, <2>3, HoldsLinker, WantsLinker
    <3>2. cur[a] \in Entries /\ target[a] \in Exports
      BY <2>3, <3>1 DEF LInv, CurSet, LockTypeOK
    <3>3. QED
      BY <3>1, <3>2, RankOf
  <2>4. CASE a = Reaper
    BY <2>4, WantsReaper
  <2>5. QED
    BY <2>2, <2>3, <2>4 DEF Actors
<1>2. QED
  BY <1>1

\* Every actor blocks only on a lock ranked above every lock it holds:
\* the unexport loop drops attr_lock and mdc_exp_lock before the cleanup
\* push takes the lane lock, and a lookup holds attr_lock only while it
\* waits for mdc_exp_lock, for any number of entries, exports and lookups.
THEOREM LockOrderedHolds == LockSpec => []LockOrdered
BY LockOrderedInv, LInvHolds, PTL


\* Each actor waits for at most one lock, and it is a lock of the model.
LEMMA WantsOne ==
    ASSUME LInv, NEW a \in Actors
    PROVE  \E L \in Locks : Wants(a) \subseteq {L}
<1>1. CASE a \in Exports
  <2>1. pc[a] \in {"first", "push_attr"} => cur[a] \in Entries
    BY <1>1 DEF LInv, CurSet
  <2>2. QED
    BY <1>1, <2>1, WantsExport DEF Locks
<1>2. CASE a \in Linkers
  <2>1. pc[a] = "first" => cur[a] \in Entries
    BY <1>2 DEF LInv, CurSet
  <2>2. target[a] \in Exports
    BY <1>2 DEF LInv, LockTypeOK
  <2>3. QED
    BY <1>2, <2>1, <2>2, WantsLinker DEF Locks
<1>3. CASE a = Reaper
  BY <1>3, WantsReaper DEF Locks
<1>4. QED
  BY <1>1, <1>2, <1>3 DEF Actors

\* Along every edge of the wait-for graph the lock waited for climbs in
\* rank: if a is blocked on a lock b holds, whatever b is blocked on is
\* ranked higher.  A cycle would need a lock ranked above itself; what is
\* left of NoCircularWait is that TransitiveClosure follows these edges.
WaitEdgesAscend ==
    \A a, b \in Actors :
        WaitsFor[<<a, b>>] =>
            \A u \in Wants(a), v \in Wants(b) : LockRank(u) < LockRank(v)

THEOREM WaitEdgesAscendHolds == LockSpec => []WaitEdgesAscend
<1>1. LInv => WaitEdgesAscend
  <2> SUFFICES ASSUME LInv, NEW a \in Actors, NEW b \in Actors,
                      WaitsFor[<<a, b>>],
                      NEW u \in Wants(a), NEW v \in Wants(b)
               PROVE  LockRank(u) < LockRank(v)
    BY DEF WaitEdgesAscend
  <2>1. PICK l \in Wants(a) : owner[l] = b
    BY DEF WaitsFor
  <2>2. PICK L \in Locks : Wants(a) \subseteq {L}
    BY WantsOne
  <2>3. u = l /\ l \in Locks
    BY <2>2
  <2>4. LockOrdered
    BY LockOrderedInv
  <2>5. QED
    BY <2>1, <2>3, <2>4 DEF LockOrdered
<1>2. QED
  BY <1>1, LInvHolds, PTL

=============================================================================
