------------------------------- MODULE MDCache -------------------------------
(***************************************************************************)
(* The MDCACHE stacking layer of NFS-Ganesha: the cache entries, the       *)
(* entry <-> export association map, the MDC exports' life cycle and the   *)
(* unexport loop of src/FSAL/Stackable_FSALs/FSAL_MDCACHE/mdcache_export.c, *)
(* together with the actors the unexport loop races with: protocol        *)
(* request threads that look entries up through an export and drop their  *)
(* reference, the backend killing a stale entry, and the LRU reaper.       *)
(*                                                                         *)
(* The two intrusive lists of entry_export_map records (entry->export_list *)
(* and exp->entry_list) are always changed together under attr_lock and   *)
(* mdc_exp_lock, so both are modelled by one relation: export_list[e] is  *)
(* the set of exports e is associated with, and EntryList(x) is the other *)
(* side.  The order of the lists is abstracted: taking "the first element" *)
(* is a choice of any element, which covers every insertion order.        *)
(***************************************************************************)
EXTENDS Naturals, FiniteSets

CONSTANTS
    Entries,          \* cache entries, identified by their backend key
    Exports,          \* MDC exports (each wraps one sub-FSAL export)
    Threads,          \* protocol request threads
    NoEntry,          \* "no entry" sentinel
    NoExport,         \* the NULL first_export pointer / idle thread
    UnexportQuiesced  \* TRUE: no request is in flight on an export when
                      \* its unexport starts (the shutdown path)

\* What the cache needs of its constants.
CacheConstants ==
    /\ IsFiniteSet(Threads)
    /\ IsFiniteSet(Exports)
    /\ NoEntry \notin Entries
    /\ NoExport \notin Exports
    /\ UnexportQuiesced \in BOOLEAN

ASSUME ConstantsAssumption == CacheConstants

VARIABLES
    cached,        \* cached[e]: e is allocated and in the entry store
    refcnt,        \* refcnt[e]: references held on e
    unreachable,   \* unreachable[e]: e is killed / queued for cleanup
    export_list,   \* export_list[e]: exports e is associated with
    first_export,  \* first_export[e]: entry->first_export, or NoExport
    exp_state,     \* exp_state[x]: life cycle and unexport program counter
    exp_cur,       \* exp_cur[x]: the entry the unexport of x is working on
    fsal_refcount, \* references held on the sub-FSAL module
    req            \* req[t]: export and entry a request thread works on

vars == <<cached, refcnt, unreachable, export_list, first_export,
          exp_state, exp_cur, fsal_refcount, req>>

ExpStates == {"absent", "live", "loop", "remove", "push", "put", "done"}

\* The states in which mdcache_unexport holds its reference on exp_cur[x].
HoldingStates == {"remove", "push", "put"}

EntryList(x) == {e \in Entries : x \in export_list[e]}

Idle == [exp |-> NoExport, ent |-> NoEntry]

TypeOK ==
    /\ cached \in [Entries -> BOOLEAN]
    /\ refcnt \in [Entries -> Nat]
    /\ unreachable \in [Entries -> BOOLEAN]
    /\ export_list \in [Entries -> SUBSET Exports]
    /\ first_export \in [Entries -> Exports \cup {NoExport}]
    /\ exp_state \in [Exports -> ExpStates]
    /\ exp_cur \in [Exports -> Entries \cup {NoEntry}]
    /\ fsal_refcount \in Nat
    /\ req \in [Threads -> [exp : Exports \cup {NoExport},
                            ent : Entries \cup {NoEntry}]]

Init ==
    /\ cached = [e \in Entries |-> FALSE]
    /\ refcnt = [e \in Entries |-> 0]
    /\ unreachable = [e \in Entries |-> FALSE]
    /\ export_list = [e \in Entries |-> {}]
    /\ first_export = [e \in Entries |-> NoExport]
    /\ exp_state = [x \in Exports |-> "absent"]
    /\ exp_cur = [x \in Exports |-> NoEntry]
    /\ fsal_refcount = 0
    /\ req = [t \in Threads |-> Idle]

-----------------------------------------------------------------------------
(* Entry store helpers (spec 4.2; the entry store is not under src/).      *)

\* mdcache_get: take a reference unless the entry is unreachable (STALE).
GetOK(e) == cached[e] /\ ~unreachable[e]

-----------------------------------------------------------------------------
(* Export life cycle.                                                      *)

\* mdc_init_export wraps the sub-export in a new MDCACHE export with an
\* empty entry list and pins the sub-FSAL (fsal_get): n pins become n + 1.
MdcInitExportPin(n) == n + 1

\* Faulty variant: the error path of create_export forgets fsal_put.
CreateExportLeakOnError(x) ==
    /\ exp_state[x] = "absent"
    /\ \E sub_ok \in BOOLEAN :
         /\ fsal_refcount' = fsal_refcount + 1
         /\ exp_state' = [exp_state EXCEPT ![x] = IF sub_ok THEN "live"
                                                            ELSE "absent"]
    /\ UNCHANGED <<cached, refcnt, unreachable, export_list, first_export,
                   exp_cur, req>>

\* mdcache_fsal_create_export: lookup_fsal pins the sub-FSAL; if the
\* sub-FSAL's create_export fails the pin is dropped, otherwise
\* mdc_init_export takes its own pin and the lookup pin is dropped.  A
\* configuration error returns before lookup_fsal and changes nothing.
CreateExport(x) ==
    /\ exp_state[x] = "absent"
    /\ \E sub_ok \in BOOLEAN :
         LET looked_up == fsal_refcount + 1 IN
         /\ fsal_refcount' = IF sub_ok THEN MdcInitExportPin(looked_up) - 1
                                       ELSE looked_up - 1
         /\ exp_state' = [exp_state EXCEPT ![x] = IF sub_ok THEN "live"
                                                            ELSE "absent"]
    /\ UNCHANGED <<cached, refcnt, unreachable, export_list, first_export,
                   exp_cur, req>>

\* mdcache_unexport, first step: the sub-FSAL's unexport (a subcall that
\* changes no cache state), then into the cleanup loop.  When
\* UnexportQuiesced holds the caller has stopped every request on x.
UnexportSub(x) ==
    /\ exp_state[x] = "live"
    /\ UnexportQuiesced => \A t \in Threads : req[t].exp # x
    /\ exp_state' = [exp_state EXCEPT ![x] = "loop"]
    /\ UNCHANGED <<cached, refcnt, unreachable, export_list, first_export,
                   exp_cur, fsal_refcount, req>>

\* Faulty variant: the loop uses the entry without taking a reference.
UnexportLoopNoRef(x) ==
    /\ exp_state[x] = "loop"
    /\ \/ /\ EntryList(x) = {}
          /\ exp_state' = [exp_state EXCEPT ![x] = "done"]
          /\ UNCHANGED exp_cur
       \/ \E e \in EntryList(x) :
            /\ GetOK(e)
            /\ exp_cur' = [exp_cur EXCEPT ![x] = e]
            /\ exp_state' = [exp_state EXCEPT ![x] = "remove"]
    /\ UNCHANGED <<cached, refcnt, unreachable, export_list, first_export,
                   fsal_refcount, req>>

\* Faulty variant: a failed mdcache_get ends the loop (break, not continue).
UnexportLoopBreakOnStale(x) ==
    /\ exp_state[x] = "loop"
    /\ \/ /\ \A e \in EntryList(x) : ~GetOK(e)
          /\ exp_state' = [exp_state EXCEPT ![x] = "done"]
          /\ UNCHANGED <<refcnt, exp_cur>>
       \/ \E e \in EntryList(x) :
            /\ GetOK(e)
            /\ refcnt' = [refcnt EXCEPT ![e] = @ + 1]
            /\ exp_cur' = [exp_cur EXCEPT ![x] = e]
            /\ exp_state' = [exp_state EXCEPT ![x] = "remove"]
    /\ UNCHANGED <<cached, unreachable, export_list, first_export,
                   fsal_refcount, req>>

\* Loop head, under mdc_exp_lock for read: take the first association of
\* the export; none left ends the loop.  mdcache_get on a stale entry
\* fails and the loop retries without any state change, so that case is
\* a stutter and is not an action.
UnexportLoop(x) ==
    /\ exp_state[x] = "loop"
    /\ \/ /\ EntryList(x) = {}
          /\ exp_state' = [exp_state EXCEPT ![x] = "done"]
          /\ UNCHANGED <<refcnt, exp_cur>>
       \/ \E e \in EntryList(x) :
            /\ GetOK(e)
            /\ refcnt' = [refcnt EXCEPT ![e] = @ + 1]
            /\ exp_cur' = [exp_cur EXCEPT ![x] = e]
            /\ exp_state' = [exp_state EXCEPT ![x] = "remove"]
    /\ UNCHANGED <<cached, unreachable, export_list, first_export,
                   fsal_refcount, req>>

\* Faulty variant: first_export is not re-pointed when other exports remain.
UnexportRemoveKeepFirst(x) ==
    LET e    == exp_cur[x]
        rest == export_list[e] \ {x}
    IN
    /\ exp_state[x] = "remove"
    /\ export_list' = [export_list EXCEPT ![e] = rest]
    /\ IF rest = {}
         THEN /\ first_export' = [first_export EXCEPT ![e] = NoExport]
              /\ exp_state' = [exp_state EXCEPT ![x] = "push"]
         ELSE /\ UNCHANGED first_export
              /\ exp_state' = [exp_state EXCEPT ![x] = "put"]
    /\ UNCHANGED <<cached, refcnt, unreachable, exp_cur, fsal_refcount, req>>

\* attr_lock then mdc_exp_lock for write: mdc_remove_export_map, then
\* point first_export at the new head of the entry's list, or clear it
\* and go on to push the entry to cleanup (after dropping both locks).
UnexportRemove(x) ==
    LET e    == exp_cur[x]
        rest == export_list[e] \ {x}
    IN
    /\ exp_state[x] = "remove"
    /\ export_list' = [export_list EXCEPT ![e] = rest]
    /\ IF rest = {}
         THEN /\ first_export' = [first_export EXCEPT ![e] = NoExport]
              /\ exp_state' = [exp_state EXCEPT ![x] = "push"]
         ELSE /\ \E head \in rest :
                   first_export' = [first_export EXCEPT ![e] = head]
              /\ exp_state' = [exp_state EXCEPT ![x] = "put"]
    /\ UNCHANGED <<cached, refcnt, unreachable, exp_cur, fsal_refcount, req>>

\* mdcache_lru_cleanup_try_push (spec 4.3): under the lane lock and
\* attr_lock, re-check that the entry still has no export; if so move it
\* to the cleanup queue and out of the hash table (it becomes unreachable).
CleanupTryPush(e) ==
    unreachable' = [unreachable EXCEPT ![e] = @ \/ export_list[e] = {}]

\* Faulty variant: the orphaned entry is never pushed to cleanup.
UnexportPushSkipped(x) ==
    /\ exp_state[x] = "push"
    /\ exp_state' = [exp_state EXCEPT ![x] = "put"]
    /\ UNCHANGED <<cached, refcnt, unreachable, export_list, first_export,
                   exp_cur, fsal_refcount, req>>

UnexportPush(x) ==
    /\ exp_state[x] = "push"
    /\ CleanupTryPush(exp_cur[x])
    /\ exp_state' = [exp_state EXCEPT ![x] = "put"]
    /\ UNCHANGED <<cached, refcnt, export_list, first_export, exp_cur,
                   fsal_refcount, req>>

\* Faulty variant: the reference taken at the loop head is never put.
UnexportPutLeak(x) ==
    /\ exp_state[x] = "put"
    /\ exp_cur' = [exp_cur EXCEPT ![x] = NoEntry]
    /\ exp_state' = [exp_state EXCEPT ![x] = "loop"]
    /\ UNCHANGED <<cached, refcnt, unreachable, export_list, first_export,
                   fsal_refcount, req>>

\* mdcache_put of the reference taken at the loop head.
UnexportPut(x) ==
    /\ exp_state[x] = "put"
    /\ refcnt' = [refcnt EXCEPT ![exp_cur[x]] = @ - 1]
    /\ exp_cur' = [exp_cur EXCEPT ![x] = NoEntry]
    /\ exp_state' = [exp_state EXCEPT ![x] = "loop"]
    /\ UNCHANGED <<cached, unreachable, export_list, first_export,
                   fsal_refcount, req>>

\* Faulty variant: a second release of an already released export.
ExpReleaseTwice(x) ==
    /\ exp_state[x] \in {"done", "absent"}
    /\ \A t \in Threads : req[t].exp # x
    /\ fsal_refcount' = fsal_refcount - 1
    /\ exp_state' = [exp_state EXCEPT ![x] = "absent"]
    /\ UNCHANGED <<cached, refcnt, unreachable, export_list, first_export,
                   exp_cur, req>>

\* mdcache_exp_release: release the sub-export and drop the pin on the
\* sub-FSAL.  The export manager calls it once the export is unexported
\* and no request refers to it any more.
ExpRelease(x) ==
    /\ exp_state[x] = "done"
    /\ \A t \in Threads : req[t].exp # x
    /\ fsal_refcount' = fsal_refcount - 1
    /\ exp_state' = [exp_state EXCEPT ![x] = "absent"]
    /\ UNCHANGED <<cached, refcnt, unreachable, export_list, first_export,
                   exp_cur, req>>

-----------------------------------------------------------------------------
(* The actors the unexport loop races with (spec 4.2-4.4, 4.6).            *)

\* The protocol engine admits a request on a live export.
Admit(t, x) ==
    /\ req[t] = Idle
    /\ exp_state[x] = "live"
    /\ req' = [req EXCEPT ![t].exp = x]
    /\ UNCHANGED <<cached, refcnt, unreachable, export_list, first_export,
                   exp_state, exp_cur, fsal_refcount>>

\* A lookup through export req[t].exp: get_or_create the entry (+1 ref)
\* and record the export association, setting first_export if it is
\* NULL.  An unreachable entry answers STALE and the request ends.
Lookup(t, e) ==
    LET x == req[t].exp IN
    /\ x # NoExport
    /\ req[t].ent = NoEntry
    /\ IF cached[e] /\ unreachable[e]
         THEN /\ req' = [req EXCEPT ![t] = Idle]
              /\ UNCHANGED <<cached, refcnt, export_list, first_export>>
         ELSE /\ cached' = [cached EXCEPT ![e] = TRUE]
              /\ refcnt' = [refcnt EXCEPT ![e] = @ + 1]
              /\ export_list' = [export_list EXCEPT ![e] = @ \cup {x}]
              /\ first_export' = [first_export EXCEPT ![e] =
                                     IF @ = NoExport THEN x ELSE @]
              /\ req' = [req EXCEPT ![t].ent = e]
    /\ UNCHANGED <<unreachable, exp_state, exp_cur, fsal_refcount>>

\* The request completes and puts its reference.
Done(t) ==
    /\ req[t].ent # NoEntry
    /\ refcnt' = [refcnt EXCEPT ![req[t].ent] = @ - 1]
    /\ req' = [req EXCEPT ![t] = Idle]
    /\ UNCHANGED <<cached, unreachable, export_list, first_export,
                   exp_state, exp_cur, fsal_refcount>>

\* The backend reports the object stale: mdcache_kill_entry marks the
\* entry unreachable (it stays allocated while referenced).
Kill(e) ==
    /\ cached[e]
    /\ ~unreachable[e]
    /\ unreachable' = [unreachable EXCEPT ![e] = TRUE]
    /\ UNCHANGED <<cached, refcnt, export_list, first_export, exp_state,
                   exp_cur, fsal_refcount, req>>

\* The reaper frees an unreferenced entry: it leaves every export's
\* list, the hash table and memory.  ReapCleanup services the cleanup
\* queue (unreachable entries); ReclaimLRU evicts under memory pressure.
Reap(e) ==
    /\ cached[e]
    /\ refcnt[e] = 0
    /\ cached' = [cached EXCEPT ![e] = FALSE]
    /\ unreachable' = [unreachable EXCEPT ![e] = FALSE]
    /\ export_list' = [export_list EXCEPT ![e] = {}]
    /\ first_export' = [first_export EXCEPT ![e] = NoExport]
    /\ UNCHANGED <<refcnt, exp_state, exp_cur, fsal_refcount, req>>

ReapCleanup(e) == unreachable[e] /\ Reap(e)

ReclaimLRU(e) == ~unreachable[e] /\ Reap(e)

-----------------------------------------------------------------------------

Next ==
    \/ \E x \in Exports :
         \/ CreateExport(x) \/ UnexportSub(x) \/ UnexportLoop(x)
         \/ UnexportRemove(x) \/ UnexportPush(x) \/ UnexportPut(x)
         \/ ExpRelease(x)
    \/ \E t \in Threads :
         \/ \E x \in Exports : Admit(t, x)
         \/ \E e \in Entries : Lookup(t, e)
         \/ Done(t)
    \/ \E e \in Entries : Kill(e) \/ ReapCleanup(e) \/ ReclaimLRU(e)

\* The unexport thread runs to completion, requests complete, and the
\* reaper services its cleanup queue; clients, the backend and memory
\* pressure owe nothing.
Fairness ==
    /\ \A x \in Exports :
         WF_vars(UnexportLoop(x) \/ UnexportRemove(x) \/ UnexportPush(x)
                 \/ UnexportPut(x))
    /\ \A t \in Threads : WF_vars(\E e \in Entries : Lookup(t, e))
    /\ \A t \in Threads : WF_vars(Done(t))
    /\ \A e \in Entries : WF_vars(ReapCleanup(e))

Spec == Init /\ [][Next]_vars

FairSpec == Spec /\ Fairness

-----------------------------------------------------------------------------
(* Properties.                                                             *)

\* The association the unexport loop picked under the read lock is still
\* linked, and its entry still allocated, when the loop takes attr_lock
\* and mdc_exp_lock again to remove it (mdcache_unexport drops every lock
\* between reading expmap and calling mdc_remove_export_map; only its
\* reference keeps the reaper away).
UnexportMapStillLinked ==
    \A x \in Exports :
        exp_state[x] = "remove" =>
            /\ cached[exp_cur[x]]
            /\ x \in export_list[exp_cur[x]]

\* entry->first_export is NULL exactly when the entry has no export, and
\* otherwise names one of its exports (unexport re-points it at the new
\* head of the entry's list, lookup sets it when it is NULL).
FirstExportValid ==
    \A e \in Entries :
        cached[e] =>
            /\ first_export[e] = NoExport <=> export_list[e] = {}
            /\ first_export[e] # NoExport => first_export[e] \in export_list[e]

\* The references held on an entry: by request threads, and by unexport
\* loops between their mdcache_get and mdcache_put.
ReqHolders(e) == {t \in Threads : req[t].ent = e}

UnexportHolders(e) ==
    {x \in Exports : exp_state[x] \in HoldingStates /\ exp_cur[x] = e}

\* The reference count is exactly the number of outstanding gets, and no
\* entry anybody holds has been freed (the reaper frees only entries with
\* no reference; every mdcache_get is matched by one mdcache_put).
RefsAccounted ==
    \A e \in Entries :
        /\ refcnt[e] = Cardinality(ReqHolders(e)) + Cardinality(UnexportHolders(e))
        /\ ReqHolders(e) \cup UnexportHolders(e) # {} => cached[e]

\* An entry that is still reachable by lookup but no longer belongs to any
\* export is one an unexport loop is about to push to the cleanup queue:
\* mdcache_unexport leaves no reachable orphan behind.
OrphanBeingPushed ==
    \A e \in Entries :
        (cached[e] /\ ~unreachable[e] /\ export_list[e] = {}) =>
            \E x \in Exports : exp_state[x] = "push" /\ exp_cur[x] = e

\* Once mdcache_unexport has returned, no entry is associated with the
\* export any more (spec section 8, property 5).
UnexportComplete ==
    \A x \in Exports : exp_state[x] = "done" => EntryList(x) = {}

\* The sub-FSAL module is pinned exactly once per MDC export that has been
\* created and not yet released, whichever way create_export went.
FsalPinnedPerExport ==
    fsal_refcount = Cardinality({x \in Exports : exp_state[x] # "absent"})

\* Every unexport that has started eventually returns, even when the
\* loop meets entries that are stale and still referenced.
UnexportTerminates ==
    \A x \in Exports : exp_state[x] = "loop" ~> exp_state[x] = "done"

\* Spec section 3, literally: an entry reachable by lookup has at least
\* one export association.
ReachableHasExport ==
    \A e \in Entries : (cached[e] /\ ~unreachable[e]) => export_list[e] # {}

=============================================================================
