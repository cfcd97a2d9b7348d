-------------------------- MODULE MDCacheMapProofs --------------------------
(***************************************************************************)
(* Proofs about the export map of MDCache: the unexport loop's pick is     *)
(* still linked when it removes it, first_export is valid, no reachable    *)
(* entry is left without an export unless an unexport is pushing it, and,  *)
(* when requests are quiesced, a finished unexport leaves no entry linked. *)
(*                                                                         *)
(* None of these is inductive alone.  MapInv adds what they rest on:       *)
(*  - first_export is valid for every entry, cached or not (a lookup may   *)
(*    re-create a freed entry, and the reaper leaves it clean);            *)
(*  - with quiesced unexports, a request is only ever on a live export,    *)
(*    so no lookup can link an entry to an export being unexported;       *)
(* and it is proved on top of IInv, whose reference counting keeps the     *)
(* reaper away from the entry the unexport loop holds.                     *)
(***************************************************************************)
EXTENDS MDCacheProofs

USE DEF CacheConstants

\* first_export is NULL exactly for an entry with no export, and otherwise
\* names one, for every entry.
FirstExportAll ==
    \A e \in Entries :
        /\ first_export[e] = NoExport <=> export_list[e] = {}
        /\ first_export[e] # NoExport => first_export[e] \in export_list[e]

\* Every request works on a live export.
ReqOnLive ==
    \A t \in Threads : req[t].exp # NoExport => exp_state[req[t].exp] = "live"

MapInv ==
    /\ FirstExportAll
    /\ UnexportMapStillLinked
    /\ OrphanBeingPushed
    /\ UnexportQuiesced => ReqOnLive /\ UnexportComplete

-----------------------------------------------------------------------------

LEMMA InitMapInv == Init => MapInv
BY DEF Init, MapInv, FirstExportAll, UnexportMapStillLinked,
       OrphanBeingPushed, ReqOnLive, UnexportComplete, EntryList, Idle,
       ConstantsAssumption

\* The export life cycle steps change only exp_state and fsal_refcount, and
\* only between absent, live, loop and done.
LEMMA CreateExportMapInv ==
    ASSUME IInv, MapInv, NEW x \in Exports, CreateExport(x)
    PROVE  MapInv'
<1>1. /\ exp_state[x] = "absent"
      /\ exp_state'[x] \in {"absent", "live"}
      /\ \A y \in Exports \ {x} : exp_state'[y] = exp_state[y]
  BY DEF CreateExport, IInv, TypeOK
<1>2. FirstExportAll' /\ UnexportMapStillLinked' /\ OrphanBeingPushed'
  BY <1>1 DEF CreateExport, MapInv, FirstExportAll, UnexportMapStillLinked,
             OrphanBeingPushed
<1>3. UnexportQuiesced => ReqOnLive' /\ UnexportComplete'
  BY <1>1 DEF CreateExport, MapInv, ReqOnLive, UnexportComplete, EntryList,
             IInv, TypeOK
<1>4. QED
  BY <1>2, <1>3 DEF MapInv

LEMMA ExpReleaseMapInv ==
    ASSUME IInv, MapInv, NEW x \in Exports, ExpRelease(x)
    PROVE  MapInv'
<1>1. /\ exp_state[x] = "done"
      /\ exp_state'[x] = "absent"
      /\ \A y \in Exports \ {x} : exp_state'[y] = exp_state[y]
      /\ \A t \in Threads : req[t].exp # x
  BY DEF ExpRelease, IInv, TypeOK
<1>2. FirstExportAll' /\ UnexportMapStillLinked' /\ OrphanBeingPushed'
  BY <1>1 DEF ExpRelease, MapInv, FirstExportAll, UnexportMapStillLinked,
             OrphanBeingPushed
<1>3. UnexportQuiesced => ReqOnLive' /\ UnexportComplete'
  BY <1>1 DEF ExpRelease, MapInv, ReqOnLive, UnexportComplete, EntryList,
             IInv, TypeOK
<1>4. QED
  BY <1>2, <1>3 DEF MapInv

\* With quiesced unexports no request is on the export any more.
LEMMA UnexportSubMapInv ==
    ASSUME IInv, MapInv, NEW x \in Exports, UnexportSub(x)
    PROVE  MapInv'
<1>1. /\ exp_state[x] = "live"
      /\ exp_state'[x] = "loop"
      /\ \A y \in Exports \ {x} : exp_state'[y] = exp_state[y]
  BY DEF UnexportSub, IInv, TypeOK
<1>2. FirstExportAll' /\ UnexportMapStillLinked' /\ OrphanBeingPushed'
  BY <1>1 DEF UnexportSub, MapInv, FirstExportAll, UnexportMapStillLinked,
             OrphanBeingPushed
<1>3. UnexportQuiesced => ReqOnLive' /\ UnexportComplete'
  BY <1>1 DEF UnexportSub, MapInv, ReqOnLive, UnexportComplete, EntryList,
             IInv, TypeOK
<1>4. QED
  BY <1>2, <1>3 DEF MapInv

\* The loop head either ends on an empty entry list or picks a linked,
\* allocated entry.
LEMMA UnexportLoopMapInv ==
    ASSUME IInv, MapInv, NEW x \in Exports, UnexportLoop(x)
    PROVE  MapInv'
<1>0. /\ exp_state[x] = "loop"
      /\ UNCHANGED <<cached, unreachable, export_list, first_export, req>>
      /\ TypeOK
  BY DEF UnexportLoop, IInv
<1>1. CASE /\ EntryList(x) = {}
           /\ exp_state' = [exp_state EXCEPT ![x] = "done"]
           /\ UNCHANGED <<refcnt, exp_cur>>
  <2>1. /\ exp_state'[x] = "done"
        /\ \A y \in Exports \ {x} : exp_state'[y] = exp_state[y]
    BY <1>0, <1>1 DEF TypeOK
  <2>2. FirstExportAll' /\ UnexportMapStillLinked' /\ OrphanBeingPushed'
    BY <1>0, <1>1, <2>1 DEF MapInv, FirstExportAll, UnexportMapStillLinked,
                           OrphanBeingPushed
  <2>3. UnexportQuiesced => ReqOnLive' /\ UnexportComplete'
    BY <1>0, <1>1, <2>1 DEF MapInv, ReqOnLive, UnexportComplete, EntryList,
                           TypeOK
  <2>4. QED
    BY <2>2, <2>3 DEF MapInv
<1>2. CASE \E e \in EntryList(x) :
             /\ GetOK(e)
             /\ refcnt' = [refcnt EXCEPT ![e] = @ + 1]
             /\ exp_cur' = [exp_cur EXCEPT ![x] = e]
             /\ exp_state' = [exp_state EXCEPT ![x] = "remove"]
  <2>1. PICK e \in EntryList(x) :
             /\ GetOK(e)
             /\ exp_cur' = [exp_cur EXCEPT ![x] = e]
             /\ exp_state' = [exp_state EXCEPT ![x] = "remove"]
    BY <1>2
  <2>2. /\ e \in Entries /\ cached[e] /\ x \in export_list[e]
        /\ exp_state'[x] = "remove" /\ exp_cur'[x] = e
        /\ \A y \in Exports \ {x} : exp_state'[y] = exp_state[y]
                                   /\ exp_cur'[y] = exp_cur[y]
    BY <1>0, <2>1 DEF GetOK, EntryList, TypeOK
  <2>3. FirstExportAll' /\ UnexportMapStillLinked'
    BY <1>0, <2>2 DEF MapInv, FirstExportAll, UnexportMapStillLinked
  <2>4. OrphanBeingPushed'
    BY <1>0, <2>2 DEF MapInv, OrphanBeingPushed
  <2>5. UnexportQuiesced => ReqOnLive' /\ UnexportComplete'
    BY <1>0, <2>2 DEF MapInv, ReqOnLive, UnexportComplete, EntryList, TypeOK
  <2>6. QED
    BY <2>3, <2>4, <2>5 DEF MapInv
<1>3. QED
  BY <1>1, <1>2 DEF UnexportLoop

\* Removing the picked association: first_export is cleared or re-pointed,
\* and an entry left with no export goes on to the cleanup push.
LEMMA UnexportRemoveMapInv ==
    ASSUME IInv, MapInv, NEW x \in Exports, UnexportRemove(x)
    PROVE  MapInv'
<1> PICK e \in Entries : e = exp_cur[x]
  BY DEF UnexportRemove, IInv, HoldingCur, HoldingStates
<1>0. /\ TypeOK
      /\ exp_state[x] = "remove"
      /\ export_list' = [export_list EXCEPT ![e] = export_list[e] \ {x}]
      /\ \A g \in Entries \ {e} : first_export'[g] = first_export[g]
      /\ \A y \in Exports \ {x} : exp_state'[y] = exp_state[y]
      /\ UNCHANGED <<cached, unreachable, exp_cur, req>>
  BY DEF UnexportRemove, IInv, TypeOK
<1>1. CASE export_list[e] \ {x} = {}
  <2>1. /\ first_export'[e] = NoExport
        /\ exp_state'[x] = "push"
    BY <1>0, <1>1 DEF UnexportRemove, TypeOK
  <2>2. FirstExportAll'
    BY <1>0, <1>1, <2>1 DEF MapInv, FirstExportAll, TypeOK
  <2>3. UnexportMapStillLinked'
    BY <1>0, <2>1 DEF MapInv, UnexportMapStillLinked, TypeOK
  <2>4. OrphanBeingPushed'
    BY <1>0, <1>1, <2>1 DEF MapInv, OrphanBeingPushed, TypeOK
  <2>5. UnexportQuiesced => ReqOnLive' /\ UnexportComplete'
    BY <1>0, <2>1 DEF MapInv, ReqOnLive, UnexportComplete, EntryList, TypeOK
  <2>6. QED
    BY <2>2, <2>3, <2>4, <2>5 DEF MapInv
<1>2. CASE export_list[e] \ {x} # {}
  <2>0. PICK head \in export_list[e] \ {x} :
             first_export' = [first_export EXCEPT ![e] = head]
    BY <1>2 DEF UnexportRemove
  <2>1. /\ first_export'[e] \in export_list[e] \ {x}
        /\ exp_state'[x] = "put"
    BY <1>0, <1>2, <2>0 DEF UnexportRemove, TypeOK
  <2>2. FirstExportAll'
    BY <1>0, <1>2, <2>0, <2>1, ConstantsAssumption
       DEF MapInv, FirstExportAll, TypeOK
  <2>3. UnexportMapStillLinked'
    BY <1>0, <2>1 DEF MapInv, UnexportMapStillLinked, TypeOK
  <2>4. OrphanBeingPushed'
    BY <1>0, <1>2, <2>1 DEF MapInv, OrphanBeingPushed, TypeOK
  <2>5. UnexportQuiesced => ReqOnLive' /\ UnexportComplete'
    BY <1>0, <2>1 DEF MapInv, ReqOnLive, UnexportComplete, EntryList, TypeOK
  <2>6. QED
    BY <2>2, <2>3, <2>4, <2>5 DEF MapInv
<1>3. QED
  BY <1>1, <1>2

\* The push marks the entry unreachable if it still has no export.
LEMMA UnexportPushMapInv ==
    ASSUME IInv, MapInv, NEW x \in Exports, UnexportPush(x)
    PROVE  MapInv'
<1> PICK e \in Entries : e = exp_cur[x]
  BY DEF UnexportPush, IInv, HoldingCur, HoldingStates
<1>0. /\ TypeOK
      /\ exp_state[x] = "push" /\ exp_state'[x] = "put"
      /\ unreachable' = [unreachable EXCEPT ![e] = @ \/ export_list[e] = {}]
      /\ \A y \in Exports \ {x} : exp_state'[y] = exp_state[y]
      /\ UNCHANGED <<cached, export_list, first_export, exp_cur, req>>
  BY DEF UnexportPush, CleanupTryPush, IInv, TypeOK
<1>1. FirstExportAll' /\ UnexportMapStillLinked'
  BY <1>0 DEF MapInv, FirstExportAll, UnexportMapStillLinked
<1>2. OrphanBeingPushed'
  BY <1>0 DEF MapInv, OrphanBeingPushed, TypeOK
<1>3. UnexportQuiesced => ReqOnLive' /\ UnexportComplete'
  BY <1>0 DEF MapInv, ReqOnLive, UnexportComplete, EntryList, TypeOK
<1>4. QED
  BY <1>1, <1>2, <1>3 DEF MapInv

\* The put ends one round of the loop.
LEMMA UnexportPutMapInv ==
    ASSUME IInv, MapInv, NEW x \in Exports, UnexportPut(x)
    PROVE  MapInv'
<1>0. /\ TypeOK
      /\ exp_state[x] = "put" /\ exp_state'[x] = "loop"
      /\ \A y \in Exports \ {x} : exp_state'[y] = exp_state[y]
                                 /\ exp_cur'[y] = exp_cur[y]
      /\ UNCHANGED <<cached, unreachable, export_list, first_export, req>>
  BY DEF UnexportPut, IInv, TypeOK
<1>1. FirstExportAll' /\ UnexportMapStillLinked' /\ OrphanBeingPushed'
  BY <1>0 DEF MapInv, FirstExportAll, UnexportMapStillLinked,
             OrphanBeingPushed
<1>2. UnexportQuiesced => ReqOnLive' /\ UnexportComplete'
  BY <1>0 DEF MapInv, ReqOnLive, UnexportComplete, EntryList, TypeOK
<1>3. QED
  BY <1>1, <1>2 DEF MapInv

\* Admission reads a live export: the request's export is live.
LEMMA AdmitMapInv ==
    ASSUME IInv, MapInv, NEW t \in Threads, NEW x \in Exports, Admit(t, x)
    PROVE  MapInv'
<1>1. FirstExportAll' /\ UnexportMapStillLinked' /\ OrphanBeingPushed'
  BY DEF Admit, MapInv, FirstExportAll, UnexportMapStillLinked,
         OrphanBeingPushed
<1>2. UnexportQuiesced => ReqOnLive' /\ UnexportComplete'
  BY DEF Admit, MapInv, ReqOnLive, UnexportComplete, EntryList, IInv, TypeOK
<1>3. QED
  BY <1>1, <1>2 DEF MapInv

\* A lookup either answers STALE, or links the entry to the request's
\* export and sets first_export if it was NULL.
LEMMA LookupMapInv ==
    ASSUME IInv, MapInv, NEW t \in Threads, NEW e \in Entries, Lookup(t, e)
    PROVE  MapInv'
<1>0. /\ TypeOK
      /\ req[t].exp \in Exports
      /\ UNCHANGED <<unreachable, exp_state, exp_cur>>
  BY ConstantsAssumption DEF Lookup, IInv, TypeOK
<1>1. CASE cached[e] /\ unreachable[e]
  <2>1. /\ req' = [req EXCEPT ![t] = Idle]
        /\ UNCHANGED <<cached, export_list, first_export>>
    BY <1>1 DEF Lookup
  <2>2. FirstExportAll' /\ UnexportMapStillLinked' /\ OrphanBeingPushed'
    BY <1>0, <2>1 DEF MapInv, FirstExportAll, UnexportMapStillLinked,
                      OrphanBeingPushed
  <2>3. UnexportQuiesced => ReqOnLive' /\ UnexportComplete'
    BY <1>0, <2>1, ConstantsAssumption
       DEF MapInv, ReqOnLive, UnexportComplete, EntryList, TypeOK, Idle
  <2>4. QED
    BY <2>2, <2>3 DEF MapInv
<1>2. CASE ~(cached[e] /\ unreachable[e])
  <2>1. /\ cached' = [cached EXCEPT ![e] = TRUE]
        /\ export_list' = [export_list EXCEPT ![e] = @ \cup {req[t].exp}]
        /\ first_export' = [first_export EXCEPT ![e] =
                              IF @ = NoExport THEN req[t].exp ELSE @]
        /\ req' = [req EXCEPT ![t].ent = e]
    BY <1>2 DEF Lookup
  <2>2. FirstExportAll'
    BY <1>0, <2>1, ConstantsAssumption DEF MapInv, FirstExportAll, TypeOK
  <2>3. UnexportMapStillLinked' /\ OrphanBeingPushed'
    <3>1. UnexportMapStillLinked'
      BY <1>0, <2>1 DEF MapInv, UnexportMapStillLinked, IInv, HoldingCur,
                        HoldingStates, TypeOK
    <3>2. OrphanBeingPushed'
      BY <1>0, <2>1 DEF MapInv, OrphanBeingPushed, TypeOK
    <3>3. QED
      BY <3>1, <3>2
  <2>4. ASSUME UnexportQuiesced PROVE ReqOnLive' /\ UnexportComplete'
    <3>1. exp_state[req[t].exp] = "live"
      BY <1>0, <2>4, ConstantsAssumption DEF MapInv, ReqOnLive
    <3>2. ReqOnLive'
      BY <1>0, <2>1, <2>4 DEF MapInv, ReqOnLive, TypeOK
    <3>3. UnexportComplete'
      BY <1>0, <2>1, <2>4, <3>1 DEF MapInv, UnexportComplete, EntryList,
                                    TypeOK
    <3>4. QED
      BY <3>2, <3>3
  <2>5. QED
    BY <2>2, <2>3, <2>4 DEF MapInv
<1>3. QED
  BY <1>1, <1>2

\* A completed request goes back to idle.
LEMMA DoneMapInv ==
    ASSUME IInv, MapInv, NEW t \in Threads, Done(t)
    PROVE  MapInv'
<1>1. FirstExportAll' /\ UnexportMapStillLinked' /\ OrphanBeingPushed'
  BY DEF Done, MapInv, FirstExportAll, UnexportMapStillLinked,
         OrphanBeingPushed
<1>2. UnexportQuiesced => ReqOnLive' /\ UnexportComplete'
  BY ConstantsAssumption
     DEF Done, MapInv, ReqOnLive, UnexportComplete, EntryList, IInv,
         TypeOK, Idle
<1>3. QED
  BY <1>1, <1>2 DEF MapInv

\* mdcache_kill_entry only makes an entry unreachable.
LEMMA KillMapInv ==
    ASSUME IInv, MapInv, NEW e \in Entries, Kill(e)
    PROVE  MapInv'
<1>1. FirstExportAll' /\ UnexportMapStillLinked'
  BY DEF Kill, MapInv, FirstExportAll, UnexportMapStillLinked
<1>2. OrphanBeingPushed'
  BY DEF Kill, MapInv, OrphanBeingPushed, IInv, TypeOK
<1>3. UnexportQuiesced => ReqOnLive' /\ UnexportComplete'
  BY DEF Kill, MapInv, ReqOnLive, UnexportComplete, EntryList
<1>4. QED
  BY <1>1, <1>2, <1>3 DEF MapInv

\* The reaper frees only an entry no unexport iteration holds, so the
\* entry an unexport is removing stays cached and linked.
LEMMA ReapMapInv ==
    ASSUME IInv, MapInv, NEW e \in Entries, Reap(e)
    PROVE  MapInv'
<1>1. UnexportHolders(e) = {}
  BY HeldMeansPositive DEF Reap, IInv
<1>2. \A x \in Exports : exp_state[x] = "remove" => exp_cur[x] # e
  BY <1>1 DEF UnexportHolders, HoldingStates
<1>3. FirstExportAll'
  BY DEF Reap, MapInv, FirstExportAll, IInv, TypeOK
<1>4. UnexportMapStillLinked'
  BY <1>2 DEF Reap, MapInv, UnexportMapStillLinked, IInv, TypeOK
<1>5. OrphanBeingPushed'
  BY DEF Reap, MapInv, OrphanBeingPushed, IInv, TypeOK
<1>6. UnexportQuiesced => ReqOnLive' /\ UnexportComplete'
  BY DEF Reap, MapInv, ReqOnLive, UnexportComplete, EntryList, IInv, TypeOK
<1>7. QED
  BY <1>3, <1>4, <1>5, <1>6 DEF MapInv

\* A step that changes no variable keeps the invariant.
LEMMA StutterMapInv ==
    ASSUME MapInv, UNCHANGED vars
    PROVE  MapInv'
BY DEF MapInv, vars, FirstExportAll, UnexportMapStillLinked,
       OrphanBeingPushed, ReqOnLive, UnexportComplete, EntryList

\* Every step of the cache, the unexport thread, the requests and the
\* reaper keeps MapInv, given the counting invariant of MDCacheProofs.
LEMMA NextMapInv == IInv /\ MapInv /\ [Next]_vars => MapInv'
<1> SUFFICES ASSUME IInv, MapInv, [Next]_vars PROVE MapInv'
  OBVIOUS
<1>1. CASE \E x \in Exports :
             \/ CreateExport(x) \/ UnexportSub(x) \/ UnexportLoop(x)
             \/ UnexportRemove(x) \/ UnexportPush(x) \/ UnexportPut(x)
             \/ ExpRelease(x)
  BY <1>1, CreateExportMapInv, UnexportSubMapInv, UnexportLoopMapInv,
     UnexportRemoveMapInv, UnexportPushMapInv, UnexportPutMapInv,
     ExpReleaseMapInv
<1>2. CASE \E t \in Threads :
             \/ \E x \in Exports : Admit(t, x)
             \/ \E e \in Entries : Lookup(t, e)
             \/ Done(t)
  BY <1>2, AdmitMapInv, LookupMapInv, DoneMapInv
<1>3. CASE \E e \in Entries : Kill(e) \/ ReapCleanup(e) \/ ReclaimLRU(e)
  BY <1>3, KillMapInv, ReapMapInv DEF ReapCleanup, ReclaimLRU
<1>4. CASE UNCHANGED vars
  BY <1>4, StutterMapInv
<1>5. QED
  BY <1>1, <1>2, <1>3, <1>4 DEF Next

\* IInv and MapInv hold together in every reachable state.
THEOREM MapInvHolds == Spec => [](IInv /\ MapInv)
<1>1. Init => IInv /\ MapInv
  BY InitIInv, InitMapInv
<1>2. IInv /\ MapInv /\ [Next]_vars => (IInv /\ MapInv)'
  BY NextIInv, NextMapInv
<1>3. QED
  BY <1>1, <1>2, PTL DEF Spec

\* While mdcache_unexport is between mdcache_remove_export_map's lookup of
\* the entry and its removal, the entry is still cached and still on the
\* export's list: the reaper cannot free it under the held reference, and
\* nothing else removes the association (spec 4.5).
THEOREM UnexportMapStillLinkedHolds == Spec => []UnexportMapStillLinked
BY MapInvHolds, PTL DEF MapInv

\* entry->first_export is NULL exactly when the entry has no export, and
\* otherwise names one of its exports, after any interleaving of lookups,
\* unexports and reaping.
THEOREM FirstExportValidHolds == Spec => []FirstExportValid
<1>1. FirstExportAll => FirstExportValid
  BY DEF FirstExportAll, FirstExportValid
<1>2. QED
  BY <1>1, MapInvHolds, PTL DEF MapInv

\* mdcache_unexport leaves no reachable orphan behind: an entry that is
\* cached and reachable but belongs to no export is one an unexport loop
\* is about to push to the cleanup queue.
THEOREM OrphanBeingPushedHolds == Spec => []OrphanBeingPushed
BY MapInvHolds, PTL DEF MapInv

\* When the export manager has quiesced the export's requests before
\* mdcache_unexport, no entry is associated with the export once it
\* returns (spec section 8, property 5).
THEOREM UnexportCompleteHolds ==
    UnexportQuiesced => (Spec => []UnexportComplete)
<1> SUFFICES ASSUME UnexportQuiesced PROVE Spec => []UnexportComplete
  OBVIOUS
<1>1. IInv /\ MapInv => UnexportComplete
  BY DEF MapInv
<1>2. QED
  BY <1>1, MapInvHolds, PTL

=============================================================================
