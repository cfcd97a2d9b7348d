------------------------------ MODULE LockOrder ------------------------------
(***************************************************************************)
(* The locks mdcache_unexport takes (mdcache_export.c, lines 99-153), and  *)
(* the locks of the two other actors that touch the same entries and       *)
(* exports: a lookup linking an entry to an export, and the LRU reaper.    *)
(*                                                                         *)
(* The unexport loop takes an export's mdc_exp_lock for reading to pick    *)
(* the head entry, then the entry's attr_lock and the export's             *)
(* mdc_exp_lock for writing (in that order: the comment at line 120), and  *)
(* pushes an entry left with no export to the cleanup queue only after     *)
(* dropping both (line 134: the push takes the LRU lane lock and then      *)
(* attr_lock).  Linking an entry takes attr_lock and then mdc_exp_lock     *)
(* (spec §5); the reaper only ever try-locks and yields when a lock is     *)
(* taken (spec §4.4), so it holds locks but never waits for one.            *)
(*                                                                         *)
(* Only the locks are modelled, with the export map they protect; a lock   *)
(* is held by one actor (every lock that is held across a step is taken    *)
(* for writing).  A step that takes a lock and releases it before anything *)
(* can block is one atomic step.                                           *)
(***************************************************************************)
EXTENDS Naturals, FiniteSets, Relation

CONSTANTS
    Entries,   \* cache entries, all in one LRU lane
    Exports,   \* exports; the unexport thread of x is named x
    Linkers,   \* threads linking entries to exports (lookups)
    Reaper,    \* the LRU reaper thread
    NoEntry,   \* an actor works on no entry
    Nobody     \* a lock is free

ASSUME LockOrderAssumption ==
    /\ NoEntry \notin Entries
    /\ Nobody \notin Exports \cup Linkers \cup {Reaper}
    /\ Reaper \notin Exports \cup Linkers
    /\ Exports \cap Linkers = {}

VARIABLES
    owner,    \* owner[l]: the actor holding lock l, or Nobody
    pc,       \* pc[a]: where actor a is
    cur,      \* cur[a]: the entry actor a works on
    target,   \* target[l]: the export linker l links cur[l] to
    linked    \* linked[e]: the exports entry e is mapped to (export_list)

lock_vars == <<owner, pc, cur, target, linked>>

Actors == Exports \cup Linkers \cup {Reaper}

AttrLock(e) == <<"attr", e>>
ExpLock(x) == <<"mdc_exp", x>>
LaneLock == <<"lane">>

Locks == {AttrLock(e) : e \in Entries} \cup {ExpLock(x) : x \in Exports}
         \cup {LaneLock}

Free(l) == owner[l] = Nobody

UnexportPcs == {"loop", "first", "second", "lane", "push_attr", "put", "done"}
LinkPcs == {"idle", "first", "second"}
ReapPcs == {"idle", "scan", "unmap"}

LockTypeOK ==
    /\ owner \in [Locks -> Actors \cup {Nobody}]
    /\ \A x \in Exports : pc[x] \in UnexportPcs
    /\ \A l \in Linkers : pc[l] \in LinkPcs
    /\ pc[Reaper] \in ReapPcs
    /\ cur \in [Actors -> Entries \cup {NoEntry}]
    /\ target \in [Linkers -> Exports]
    /\ linked \in [Entries -> SUBSET Exports]

LockInit ==
    /\ owner = [l \in Locks |-> Nobody]
    /\ pc = [a \in Actors |-> CASE a \in Exports -> "loop"
                                [] a \in Linkers -> "idle"
                                [] OTHER         -> "idle"]
    /\ cur = [a \in Actors |-> NoEntry]
    /\ target \in [Linkers -> Exports]
    /\ linked \in [Entries -> SUBSET Exports]

-----------------------------------------------------------------------------
(* mdcache_unexport's loop, for the unexport thread of export x.           *)

\* (Mutant) mdc_exp_lock taken before attr_lock.
UnexportLocksExpFirst(x) == <<ExpLock(x), AttrLock(cur[x])>>

\* The two locks of lines 121-122, in the order they are taken.
UnexportLocks(x) == <<AttrLock(cur[x]), ExpLock(x)>>

\* Lines 100-118: under mdc_exp_lock for reading, the loop ends on an
\* empty list or takes a reference on the head entry; the lock is dropped
\* before anything else.
UxLoop(x) ==
    /\ pc[x] = "loop"
    /\ Free(ExpLock(x))
    /\ IF \E e \in Entries : x \in linked[e]
         THEN \E e \in Entries :
                /\ x \in linked[e]
                /\ cur' = [cur EXCEPT ![x] = e]
                /\ pc' = [pc EXCEPT ![x] = "first"]
         ELSE /\ pc' = [pc EXCEPT ![x] = "done"]
              /\ UNCHANGED cur
    /\ UNCHANGED <<owner, target, linked>>

\* Line 123: the first lock.
UxFirstLock(x) ==
    /\ pc[x] = "first"
    /\ Free(UnexportLocks(x)[1])
    /\ owner' = [owner EXCEPT ![UnexportLocks(x)[1]] = x]
    /\ pc' = [pc EXCEPT ![x] = "second"]
    /\ UNCHANGED <<cur, target, linked>>

\* (Mutant) the else branch (line 147) forgets to drop attr_lock.
UxSecondLockKeepsAttr(x) ==
    /\ pc[x] = "second"
    /\ Free(UnexportLocks(x)[2])
    /\ linked' = [linked EXCEPT ![cur[x]] = @ \ {x}]
    /\ owner' = IF linked'[cur[x]] = {}
                 THEN [owner EXCEPT ![UnexportLocks(x)[1]] = Nobody]
                 ELSE owner
    /\ pc' = [pc EXCEPT ![x] = IF linked'[cur[x]] = {} THEN "lane" ELSE "put"]
    /\ UNCHANGED <<cur, target>>

\* Lines 122-149: the second lock, the map removed, both locks dropped;
\* an entry left with no export goes on to the cleanup push (line 141).
UxSecondLock(x) ==
    /\ pc[x] = "second"
    /\ Free(UnexportLocks(x)[2])
    /\ linked' = [linked EXCEPT ![cur[x]] = @ \ {x}]
    /\ owner' = [owner EXCEPT ![UnexportLocks(x)[1]] = Nobody]
    /\ pc' = [pc EXCEPT ![x] = IF linked'[cur[x]] = {} THEN "lane" ELSE "put"]
    /\ UNCHANGED <<cur, target>>

\* mdcache_lru_cleanup_try_push: the lane lock, then attr_lock; the entry
\* moves to the cleanup queue and both are dropped.
UxPushLane(x) ==
    /\ pc[x] = "lane"
    /\ Free(LaneLock)
    /\ owner' = [owner EXCEPT ![LaneLock] = x]
    /\ pc' = [pc EXCEPT ![x] = "push_attr"]
    /\ UNCHANGED <<cur, target, linked>>

UxPushAttr(x) ==
    /\ pc[x] = "push_attr"
    /\ Free(AttrLock(cur[x]))
    /\ owner' = [owner EXCEPT ![LaneLock] = Nobody]
    /\ pc' = [pc EXCEPT ![x] = "put"]
    /\ UNCHANGED <<cur, target, linked>>

\* Line 152: mdcache_put, and round the loop again.
UxPut(x) ==
    /\ pc[x] = "put"
    /\ pc' = [pc EXCEPT ![x] = "loop"]
    /\ cur' = [cur EXCEPT ![x] = NoEntry]
    /\ UNCHANGED <<owner, target, linked>>

-----------------------------------------------------------------------------
(* A lookup linking entry e to export x (spec §4.5, §5): attr_lock, then   *)
(* mdc_exp_lock, the association added, both dropped.                      *)

LinkStart(l) ==
    /\ pc[l] = "idle"
    /\ \E e \in Entries, x \in Exports :
          /\ cur' = [cur EXCEPT ![l] = e]
          /\ target' = [target EXCEPT ![l] = x]
    /\ pc' = [pc EXCEPT ![l] = "first"]
    /\ UNCHANGED <<owner, linked>>

LinkAttr(l) ==
    /\ pc[l] = "first"
    /\ Free(AttrLock(cur[l]))
    /\ owner' = [owner EXCEPT ![AttrLock(cur[l])] = l]
    /\ pc' = [pc EXCEPT ![l] = "second"]
    /\ UNCHANGED <<cur, target, linked>>

LinkExp(l) ==
    /\ pc[l] = "second"
    /\ Free(ExpLock(target[l]))
    /\ linked' = [linked EXCEPT ![cur[l]] = @ \cup {target[l]}]
    /\ owner' = [owner EXCEPT ![AttrLock(cur[l])] = Nobody]
    /\ pc' = [pc EXCEPT ![l] = "idle"]
    /\ cur' = [cur EXCEPT ![l] = NoEntry]
    /\ UNCHANGED target

-----------------------------------------------------------------------------
(* The reaper (spec §4.4): every acquisition is a try-lock, and the reaper *)
(* drops what it holds and yields when one fails.  It reclaims only an     *)
(* entry nobody holds a reference on.                                      *)

Referenced(e) == \E a \in Actors \ {Reaper} : cur[a] = e

\* The lane lock, when it is free.
ReapLane ==
    /\ pc[Reaper] = "idle"
    /\ Free(LaneLock)
    /\ owner' = [owner EXCEPT ![LaneLock] = Reaper]
    /\ pc' = [pc EXCEPT ![Reaper] = "scan"]
    /\ UNCHANGED <<cur, target, linked>>

\* Walking the lane: try attr_lock of an unreferenced entry, or give up
\* the lane.
ReapScan ==
    /\ pc[Reaper] = "scan"
    /\ \/ \E e \in Entries :
             /\ ~Referenced(e)
             /\ Free(AttrLock(e))
             /\ owner' = [owner EXCEPT ![AttrLock(e)] = Reaper]
             /\ cur' = [cur EXCEPT ![Reaper] = e]
             /\ pc' = [pc EXCEPT ![Reaper] = "unmap"]
       \/ /\ owner' = [owner EXCEPT ![LaneLock] = Nobody]
          /\ pc' = [pc EXCEPT ![Reaper] = "idle"]
          /\ UNCHANGED cur
    /\ UNCHANGED <<target, linked>>

\* Unlinking the entry from its exports needs each mdc_exp_lock; when one
\* is taken the reaper gives the entry up.  Either way it drops its locks.
ReapUnmap ==
    /\ pc[Reaper] = "unmap"
    /\ linked' = IF \A x \in linked[cur[Reaper]] : Free(ExpLock(x))
                   THEN [linked EXCEPT ![cur[Reaper]] = {}]
                   ELSE linked
    /\ owner' = [owner EXCEPT ![AttrLock(cur[Reaper])] = Nobody,
                              ![LaneLock] = Nobody]
    /\ pc' = [pc EXCEPT ![Reaper] = "idle"]
    /\ cur' = [cur EXCEPT ![Reaper] = NoEntry]
    /\ UNCHANGED target

LockNext ==
    \/ \E x \in Exports :
          \/ UxLoop(x) \/ UxFirstLock(x) \/ UxSecondLock(x)
          \/ UxPushLane(x) \/ UxPushAttr(x) \/ UxPut(x)
    \/ \E l \in Linkers : LinkStart(l) \/ LinkAttr(l) \/ LinkExp(l)
    \/ ReapLane \/ ReapScan \/ ReapUnmap

LockSpec == LockInit /\ [][LockNext]_lock_vars

-----------------------------------------------------------------------------
(* Properties.                                                             *)

\* The lock actor a is blocked on at its next step, if any.
Wants(a) ==
    CASE a \in Exports /\ pc[a] = "loop"      -> {ExpLock(a)}
      [] a \in Exports /\ pc[a] = "first"     -> {UnexportLocks(a)[1]}
      [] a \in Exports /\ pc[a] = "second"    -> {UnexportLocks(a)[2]}
      [] a \in Exports /\ pc[a] = "lane"      -> {LaneLock}
      [] a \in Exports /\ pc[a] = "push_attr" -> {AttrLock(cur[a])}
      [] a \in Linkers /\ pc[a] = "first"     -> {AttrLock(cur[a])}
      [] a \in Linkers /\ pc[a] = "second"    -> {ExpLock(target[a])}
      [] OTHER                                -> {}

\* a waits for b: b holds the lock a is blocked on.
WaitsFor == [p \in Actors \X Actors |-> \E l \in Wants(p[1]) : owner[l] = p[2]]

\* No set of threads running mdcache_unexport, lookups and the reaper ever
\* waits on one another in a cycle: the order attr_lock before
\* mdc_exp_lock (line 120) and the push after both are dropped (line 134)
\* leave no circular wait.
NoCircularWait ==
    \A a \in Actors : ~TransitiveClosure(WaitsFor, Actors)[a, a]

\* The locks an actor holds between its steps, by where it is.
Holds(a) ==
    CASE a \in Exports /\ pc[a] = "second"    -> {UnexportLocks(a)[1]}
      [] a \in Exports /\ pc[a] = "push_attr" -> {LaneLock}
      [] a \in Linkers /\ pc[a] = "second"    -> {AttrLock(cur[a])}
      [] a = Reaper /\ pc[a] = "scan"         -> {LaneLock}
      [] a = Reaper /\ pc[a] = "unmap"        -> {LaneLock, AttrLock(cur[a])}
      [] OTHER                                -> {}

\* No lock is leaked: every path of mdcache_unexport's loop (both branches
\* of the export_list test at line 130, and the cleanup push), of a link
\* and of the reaper's give-up paths drops what it took, so an actor holds
\* exactly the locks its place in the code says it holds.
NoLockLeak ==
    \A a \in Actors : {l \in Locks : owner[l] = a} = Holds(a)


\* The place of a lock in the order the code takes locks in: the LRU lane
\* lock before attr_lock (mdcache_lru_cleanup_try_push), attr_lock before
\* mdc_exp_lock (line 120).
LockRank(l) ==
    CASE l = LaneLock                             -> 0
      [] l \in {AttrLock(e) : e \in Entries}      -> 1
      [] l \in {ExpLock(x) : x \in Exports}       -> 2

\* Every actor blocks only on a lock ranked above every lock it holds: the
\* unexport loop drops attr_lock and mdc_exp_lock before the cleanup push
\* takes the lane lock (line 134), and a lookup holds attr_lock only while
\* it waits for mdc_exp_lock.  This is the lock discipline that rules out
\* NoCircularWait's cycle.
LockOrdered ==
    \A a \in Actors, l \in Locks :
        owner[l] = a => \A w \in Wants(a) : LockRank(l) < LockRank(w)

=============================================================================
