---------------------------- MODULE MDCacheProofs ----------------------------
(***************************************************************************)
(* Proofs about MDCache for every value of the constants.                  *)
(*                                                                         *)
(* TypeOK is not inductive by itself: mdcache_put decrements refcnt and    *)
(* mdcache_exp_release decrements fsal_refcount, and only the counting     *)
(* invariants RefsAccounted and FsalPinnedPerExport say that those         *)
(* counters are positive at that point.  The inductive invariant IInv is   *)
(* therefore TypeOK together with both counting invariants and the fact    *)
(* that an unexport that holds a reference names a real entry.            *)
(***************************************************************************)
EXTENDS MDCache, FiniteSetTheorems, TLAPS

USE DEF CacheConstants

\* An unexport loop that holds a reference holds it on an entry.
HoldingCur ==
    \A x \in Exports : exp_state[x] \in HoldingStates => exp_cur[x] \in Entries

LiveExports == {x \in Exports : exp_state[x] # "absent"}

IInv == TypeOK /\ HoldingCur /\ RefsAccounted /\ FsalPinnedPerExport

-----------------------------------------------------------------------------
(* Finiteness of the holder sets, in any state.                            *)

LEMMA HoldersFinite ==
    ASSUME NEW e
    PROVE  /\ IsFiniteSet(ReqHolders(e))
           /\ IsFiniteSet(UnexportHolders(e))
           /\ IsFiniteSet(ReqHolders(e)')
           /\ IsFiniteSet(UnexportHolders(e)')
BY ConstantsAssumption, FS_Subset DEF ReqHolders, UnexportHolders

LEMMA LiveFinite == IsFiniteSet(LiveExports) /\ IsFiniteSet(LiveExports')
BY ConstantsAssumption, FS_Subset DEF LiveExports

\* The number of references is at least the number of holders of each kind.
LEMMA HeldMeansPositive ==
    ASSUME RefsAccounted, NEW e \in Entries
    PROVE  /\ \A t \in ReqHolders(e) : refcnt[e] >= 1
           /\ \A x \in UnexportHolders(e) : refcnt[e] >= 1
           /\ refcnt[e] = 0 => ReqHolders(e) = {} /\ UnexportHolders(e) = {}
<1>1. /\ Cardinality(ReqHolders(e)) \in Nat
      /\ Cardinality(UnexportHolders(e)) \in Nat
  BY HoldersFinite, FS_CardinalityType
<1>2. /\ ReqHolders(e) # {} => Cardinality(ReqHolders(e)) >= 1
      /\ UnexportHolders(e) # {} => Cardinality(UnexportHolders(e)) >= 1
  BY <1>1, HoldersFinite, FS_EmptySet
<1>3. QED
  BY <1>1, <1>2 DEF RefsAccounted

-----------------------------------------------------------------------------
LEMMA InitIInv == Init => IInv
<1> SUFFICES ASSUME Init PROVE IInv
  OBVIOUS
<1>1. TypeOK
  BY ConstantsAssumption DEF Init, TypeOK, Idle, ExpStates
<1>2. HoldingCur
  BY DEF Init, HoldingCur, HoldingStates
<1>3. RefsAccounted
  <2> SUFFICES ASSUME NEW e \in Entries
               PROVE  /\ refcnt[e] = Cardinality(ReqHolders(e))
                                      + Cardinality(UnexportHolders(e))
                      /\ ReqHolders(e) \cup UnexportHolders(e) # {} => cached[e]
    BY DEF RefsAccounted
  <2>1. ReqHolders(e) = {} /\ UnexportHolders(e) = {}
    BY ConstantsAssumption DEF Init, ReqHolders, UnexportHolders, Idle,
                                HoldingStates
  <2>2. QED
    BY <2>1, FS_EmptySet DEF Init
<1>4. FsalPinnedPerExport
  BY FS_EmptySet DEF Init, FsalPinnedPerExport
<1>5. QED
  BY <1>1, <1>2, <1>3, <1>4 DEF IInv

-----------------------------------------------------------------------------
(* Steps that leave every reference and every holder where it was: the     *)
(* holder sets are unchanged, so RefsAccounted carries over.               *)

LEMMA HoldersUnchanged ==
    ASSUME RefsAccounted,
           UNCHANGED <<refcnt, exp_cur>>,
           \A t \in Threads : req'[t].ent = req[t].ent,
           \A x \in Exports :
               exp_state'[x] \in HoldingStates <=> exp_state[x] \in HoldingStates,
           \A e \in Entries :
               ReqHolders(e) \cup UnexportHolders(e) # {} => (cached[e] => cached'[e])
    PROVE  RefsAccounted'
<1> SUFFICES ASSUME NEW e \in Entries
             PROVE  /\ refcnt'[e] = Cardinality(ReqHolders(e)')
                                     + Cardinality(UnexportHolders(e)')
                    /\ ReqHolders(e)' \cup UnexportHolders(e)' # {} => cached'[e]
  BY DEF RefsAccounted
<1>1. ReqHolders(e)' = ReqHolders(e) /\ UnexportHolders(e)' = UnexportHolders(e)
  BY DEF ReqHolders, UnexportHolders
<1>2. QED
  BY <1>1 DEF RefsAccounted

\* A step that gives entry f one more holder h and one more reference.
LEMMA AddHolder ==
    ASSUME RefsAccounted, refcnt \in [Entries -> Nat],
           NEW f \in Entries, NEW h,
           refcnt' = [refcnt EXCEPT ![f] = @ + 1],
           cached'[f],
           \A e \in Entries \ {f} : cached'[e] = cached[e],
           \A e \in Entries \ {f} :
               ReqHolders(e)' = ReqHolders(e) /\ UnexportHolders(e)' = UnexportHolders(e),
           \/ /\ ReqHolders(f)' = ReqHolders(f) \cup {h} /\ h \notin ReqHolders(f)
              /\ UnexportHolders(f)' = UnexportHolders(f)
           \/ /\ UnexportHolders(f)' = UnexportHolders(f) \cup {h}
              /\ h \notin UnexportHolders(f)
              /\ ReqHolders(f)' = ReqHolders(f)
    PROVE  RefsAccounted'
<1> SUFFICES ASSUME NEW e \in Entries
             PROVE  /\ refcnt'[e] = Cardinality(ReqHolders(e)')
                                     + Cardinality(UnexportHolders(e)')
                    /\ ReqHolders(e)' \cup UnexportHolders(e)' # {} => cached'[e]
  BY DEF RefsAccounted
<1>1. CASE e = f
  <2> SUFFICES /\ refcnt'[f] = Cardinality(ReqHolders(f)')
                                + Cardinality(UnexportHolders(f)')
               /\ ReqHolders(f)' \cup UnexportHolders(f)' # {} => cached'[f]
    BY <1>1
  <2>1. /\ Cardinality(ReqHolders(f) \cup {h}) = Cardinality(ReqHolders(f)) + 1
           \/ h \in ReqHolders(f)
        /\ Cardinality(UnexportHolders(f) \cup {h})
              = Cardinality(UnexportHolders(f)) + 1
           \/ h \in UnexportHolders(f)
    BY HoldersFinite, FS_AddElement
  <2>0. /\ Cardinality(ReqHolders(f)) \in Nat
        /\ Cardinality(UnexportHolders(f)) \in Nat
    BY HoldersFinite, FS_CardinalityType
  <2>2. QED
    BY <1>1, <2>0, <2>1 DEF RefsAccounted
<1>2. CASE e # f
  BY <1>2 DEF RefsAccounted
<1>3. QED
  BY <1>1, <1>2

\* A step that takes holder h, and its reference, away from entry f.
LEMMA RemoveHolder ==
    ASSUME RefsAccounted, refcnt \in [Entries -> Nat],
           NEW f \in Entries, NEW h,
           refcnt' = [refcnt EXCEPT ![f] = @ - 1],
           UNCHANGED cached,
           \A e \in Entries \ {f} :
               ReqHolders(e)' = ReqHolders(e) /\ UnexportHolders(e)' = UnexportHolders(e),
           \/ /\ ReqHolders(f)' = ReqHolders(f) \ {h} /\ h \in ReqHolders(f)
              /\ UnexportHolders(f)' = UnexportHolders(f)
           \/ /\ UnexportHolders(f)' = UnexportHolders(f) \ {h}
              /\ h \in UnexportHolders(f)
              /\ ReqHolders(f)' = ReqHolders(f)
    PROVE  RefsAccounted'
<1> SUFFICES ASSUME NEW e \in Entries
             PROVE  /\ refcnt'[e] = Cardinality(ReqHolders(e)')
                                     + Cardinality(UnexportHolders(e)')
                    /\ ReqHolders(e)' \cup UnexportHolders(e)' # {} => cached'[e]
  BY DEF RefsAccounted
<1>1. CASE e = f
  <2> SUFFICES /\ refcnt'[f] = Cardinality(ReqHolders(f)')
                                + Cardinality(UnexportHolders(f)')
               /\ ReqHolders(f)' \cup UnexportHolders(f)' # {} => cached'[f]
    BY <1>1
  <2>1. /\ h \in ReqHolders(f) =>
             Cardinality(ReqHolders(f) \ {h}) = Cardinality(ReqHolders(f)) - 1
        /\ h \in UnexportHolders(f) =>
             Cardinality(UnexportHolders(f) \ {h})
               = Cardinality(UnexportHolders(f)) - 1
    BY HoldersFinite, FS_RemoveElement
  <2>0. /\ Cardinality(ReqHolders(f)) \in Nat
        /\ Cardinality(UnexportHolders(f)) \in Nat
    BY HoldersFinite, FS_CardinalityType
  <2>5. refcnt'[f] = refcnt[f] - 1
              /\ refcnt[f] = Cardinality(ReqHolders(f)) + Cardinality(UnexportHolders(f))
    BY DEF RefsAccounted
  <2>2. refcnt'[f] = Cardinality(ReqHolders(f)') + Cardinality(UnexportHolders(f)')
    <3>1. CASE h \in ReqHolders(f) /\ ReqHolders(f)' = ReqHolders(f) \ {h}
                                  /\ UnexportHolders(f)' = UnexportHolders(f)
      BY <3>1, <2>0, <2>1, <2>5
    <3>2. CASE h \in UnexportHolders(f)
               /\ UnexportHolders(f)' = UnexportHolders(f) \ {h}
               /\ ReqHolders(f)' = ReqHolders(f)
      BY <3>2, <2>0, <2>1, <2>5
    <3>3. QED
      BY <3>1, <3>2
  <2>3. ReqHolders(f)' \cup UnexportHolders(f)' # {} => cached'[f]
    BY DEF RefsAccounted
  <2>4. QED
    BY <2>2, <2>3
<1>2. CASE e # f
  BY <1>2 DEF RefsAccounted
<1>3. QED
  BY <1>1, <1>2

\* The same when the only change to exp_state keeps the set of live exports.
LEMMA LiveUnchanged ==
    ASSUME FsalPinnedPerExport,
           UNCHANGED fsal_refcount,
           \A x \in Exports : exp_state'[x] = "absent" <=> exp_state[x] = "absent"
    PROVE  FsalPinnedPerExport'
<1>1. LiveExports' = LiveExports
  BY DEF LiveExports
<1>2. QED
  BY <1>1 DEF FsalPinnedPerExport, LiveExports

-----------------------------------------------------------------------------
(* One lemma per action.                                                   *)

LEMMA CreateExportIInv ==
    ASSUME TypeOK, HoldingCur, RefsAccounted, FsalPinnedPerExport,
           NEW x \in Exports, CreateExport(x)
    PROVE  IInv'
<1>1. PICK sub_ok \in BOOLEAN :
        /\ fsal_refcount' = (IF sub_ok THEN MdcInitExportPin(fsal_refcount + 1) - 1
                                        ELSE (fsal_refcount + 1) - 1)
        /\ exp_state' = [exp_state EXCEPT ![x] = IF sub_ok THEN "live"
                                                           ELSE "absent"]
  BY Zenon DEF CreateExport
<1>0. fsal_refcount' = (IF sub_ok THEN fsal_refcount + 1 ELSE fsal_refcount)
  BY <1>1 DEF TypeOK, MdcInitExportPin
<1>2. TypeOK'
  BY <1>0, <1>1 DEF CreateExport, MdcInitExportPin, TypeOK, ExpStates
<1>3. HoldingCur'
  BY <1>0, <1>1 DEF CreateExport, MdcInitExportPin, TypeOK, HoldingCur, HoldingStates
<1>4. RefsAccounted'
  BY <1>0, <1>1, HoldersUnchanged DEF CreateExport, MdcInitExportPin, TypeOK, HoldingStates
<1>5. FsalPinnedPerExport'
  <2>1. CASE sub_ok
    <3>1. LiveExports' = LiveExports \cup {x} /\ x \notin LiveExports
      BY <1>0, <1>1, <2>1 DEF CreateExport, MdcInitExportPin, TypeOK, LiveExports
    <3>2. Cardinality(LiveExports') = Cardinality(LiveExports) + 1
      BY <3>1, LiveFinite, FS_AddElement
    <3>3. QED
      BY <1>0, <1>1, <2>1, <3>2 DEF FsalPinnedPerExport, LiveExports
  <2>2. CASE ~sub_ok
    <3>1. UNCHANGED fsal_refcount
      BY <1>0, <2>2
    <3>2. \A y \in Exports : exp_state'[y] = "absent" <=> exp_state[y] = "absent"
      BY <1>1, <2>2 DEF CreateExport, MdcInitExportPin, TypeOK
    <3>3. QED
      BY <3>1, <3>2, LiveUnchanged
  <2>3. QED
    BY <2>1, <2>2
<1>6. QED
  BY <1>2, <1>3, <1>4, <1>5 DEF IInv

LEMMA ExpReleaseIInv ==
    ASSUME TypeOK, HoldingCur, RefsAccounted, FsalPinnedPerExport,
           NEW x \in Exports, ExpRelease(x)
    PROVE  IInv'
<1>1. LiveExports' = LiveExports \ {x} /\ x \in LiveExports
  BY DEF ExpRelease, TypeOK, LiveExports
<1>2. Cardinality(LiveExports') = Cardinality(LiveExports) - 1
  BY <1>1, LiveFinite, FS_RemoveElement
<1>3. Cardinality(LiveExports') \in Nat
  BY LiveFinite, FS_CardinalityType
<1>4. fsal_refcount' = Cardinality(LiveExports') /\ fsal_refcount' \in Nat
  BY <1>2, <1>3 DEF ExpRelease, FsalPinnedPerExport, LiveExports, TypeOK
<1>5. TypeOK'
  BY <1>4 DEF ExpRelease, TypeOK, ExpStates
<1>6. HoldingCur'
  BY DEF ExpRelease, TypeOK, HoldingCur, HoldingStates
<1>7. RefsAccounted'
  BY HoldersUnchanged DEF ExpRelease, TypeOK, HoldingStates
<1>8. FsalPinnedPerExport'
  BY <1>4 DEF FsalPinnedPerExport, LiveExports
<1>9. QED
  BY <1>5, <1>6, <1>7, <1>8 DEF IInv

\* The steps of the unexport loop that move between two states of the same
\* kind (holding a reference or not, live or not) and touch no counter.
LEMMA UnexportSubIInv ==
    ASSUME TypeOK, HoldingCur, RefsAccounted, FsalPinnedPerExport,
           NEW x \in Exports, UnexportSub(x)
    PROVE  IInv'
<1>1. TypeOK'
  BY DEF UnexportSub, TypeOK, ExpStates
<1>2. HoldingCur'
  BY DEF UnexportSub, TypeOK, HoldingCur, HoldingStates
<1>3. RefsAccounted'
  <2>1. \A y \in Exports :
          exp_state'[y] \in HoldingStates <=> exp_state[y] \in HoldingStates
    BY DEF UnexportSub, TypeOK, HoldingStates
  <2>2. QED
    BY <2>1, HoldersUnchanged DEF UnexportSub
<1>4. FsalPinnedPerExport'
  <2>1. \A y \in Exports : exp_state'[y] = "absent" <=> exp_state[y] = "absent"
    BY DEF UnexportSub, TypeOK
  <2>2. QED
    BY <2>1, LiveUnchanged DEF UnexportSub
<1>5. QED
  BY <1>1, <1>2, <1>3, <1>4 DEF IInv

LEMMA UnexportRemoveIInv ==
    ASSUME TypeOK, HoldingCur, RefsAccounted, FsalPinnedPerExport,
           NEW x \in Exports, UnexportRemove(x)
    PROVE  IInv'
<1> DEFINE e == exp_cur[x]
<1>1. e \in Entries
  BY DEF UnexportRemove, HoldingCur, HoldingStates
<1>2. /\ export_list' = [export_list EXCEPT ![e] = export_list[e] \ {x}]
      /\ exp_state'[x] \in {"push", "put"}
      /\ first_export'[e] \in Exports \cup {NoExport}
      /\ \A g \in Entries \ {e} : first_export'[g] = first_export[g]
      /\ first_export' \in [Entries -> Exports \cup {NoExport}]
  BY <1>1 DEF UnexportRemove, TypeOK
<1>3. TypeOK'
  BY <1>1, <1>2 DEF UnexportRemove, TypeOK, ExpStates
<1>4. HoldingCur'
  BY <1>2 DEF UnexportRemove, TypeOK, HoldingCur, HoldingStates
<1>5. RefsAccounted'
  <2>1. \A y \in Exports :
          exp_state'[y] \in HoldingStates <=> exp_state[y] \in HoldingStates
    BY <1>2 DEF UnexportRemove, TypeOK, HoldingStates
  <2>2. QED
    BY <2>1, HoldersUnchanged DEF UnexportRemove
<1>6. FsalPinnedPerExport'
  <2>1. \A y \in Exports : exp_state'[y] = "absent" <=> exp_state[y] = "absent"
    BY <1>2 DEF UnexportRemove, TypeOK
  <2>2. QED
    BY <2>1, LiveUnchanged DEF UnexportRemove
<1>7. QED
  BY <1>3, <1>4, <1>5, <1>6 DEF IInv

LEMMA UnexportPushIInv ==
    ASSUME TypeOK, HoldingCur, RefsAccounted, FsalPinnedPerExport,
           NEW x \in Exports, UnexportPush(x)
    PROVE  IInv'
<1>1. exp_cur[x] \in Entries
  BY DEF UnexportPush, HoldingCur, HoldingStates
<1>2. TypeOK'
  BY <1>1 DEF UnexportPush, CleanupTryPush, TypeOK, ExpStates
<1>3. HoldingCur'
  BY DEF UnexportPush, TypeOK, HoldingCur, HoldingStates
<1>4. RefsAccounted'
  <2>1. \A y \in Exports :
          exp_state'[y] \in HoldingStates <=> exp_state[y] \in HoldingStates
    BY DEF UnexportPush, TypeOK, HoldingStates
  <2>2. QED
    BY <2>1, HoldersUnchanged DEF UnexportPush
<1>5. FsalPinnedPerExport'
  <2>1. \A y \in Exports : exp_state'[y] = "absent" <=> exp_state[y] = "absent"
    BY DEF UnexportPush, TypeOK
  <2>2. QED
    BY <2>1, LiveUnchanged DEF UnexportPush
<1>6. QED
  BY <1>2, <1>3, <1>4, <1>5 DEF IInv

\* The loop head either ends the loop or takes one reference.
LEMMA UnexportLoopIInv ==
    ASSUME TypeOK, HoldingCur, RefsAccounted, FsalPinnedPerExport,
           NEW x \in Exports, UnexportLoop(x)
    PROVE  IInv'
<1>0. exp_state[x] = "loop"
  BY DEF UnexportLoop
<1>1. CASE /\ EntryList(x) = {}
           /\ exp_state' = [exp_state EXCEPT ![x] = "done"]
           /\ UNCHANGED <<refcnt, exp_cur>>
  <2>1. TypeOK'
    BY <1>1 DEF UnexportLoop, TypeOK, ExpStates
  <2>2. HoldingCur'
    BY <1>1 DEF UnexportLoop, TypeOK, HoldingCur, HoldingStates
  <2>3. RefsAccounted'
    <3>1. \A y \in Exports :
            exp_state'[y] \in HoldingStates <=> exp_state[y] \in HoldingStates
      BY <1>0, <1>1 DEF TypeOK, HoldingStates
    <3>2. QED
      BY <1>1, <3>1, HoldersUnchanged DEF UnexportLoop
  <2>4. FsalPinnedPerExport'
    <3>1. \A y \in Exports : exp_state'[y] = "absent" <=> exp_state[y] = "absent"
      BY <1>0, <1>1 DEF TypeOK
    <3>2. QED
      BY <3>1, LiveUnchanged DEF UnexportLoop
  <2>5. QED
    BY <2>1, <2>2, <2>3, <2>4 DEF IInv
<1>2. CASE \E e \in EntryList(x) :
             /\ GetOK(e)
             /\ refcnt' = [refcnt EXCEPT ![e] = @ + 1]
             /\ exp_cur' = [exp_cur EXCEPT ![x] = e]
             /\ exp_state' = [exp_state EXCEPT ![x] = "remove"]
  <2>1. PICK f \in EntryList(x) :
             /\ GetOK(f)
             /\ refcnt' = [refcnt EXCEPT ![f] = @ + 1]
             /\ exp_cur' = [exp_cur EXCEPT ![x] = f]
             /\ exp_state' = [exp_state EXCEPT ![x] = "remove"]
    BY <1>2
  <2>2. f \in Entries /\ cached[f]
    BY <2>1 DEF EntryList, GetOK
  <2>3. TypeOK'
    BY <2>1, <2>2 DEF UnexportLoop, TypeOK, ExpStates
  <2>4. HoldingCur'
    BY <2>1, <2>2 DEF UnexportLoop, TypeOK, HoldingCur
  <2>5. \A g \in Entries \ {f} :
          ReqHolders(g)' = ReqHolders(g) /\ UnexportHolders(g)' = UnexportHolders(g)
    BY <1>0, <2>1 DEF UnexportLoop, TypeOK, ReqHolders, UnexportHolders,
                      HoldingStates
  <2>6. /\ UnexportHolders(f)' = UnexportHolders(f) \cup {x}
        /\ x \notin UnexportHolders(f)
        /\ ReqHolders(f)' = ReqHolders(f)
    BY <1>0, <2>1 DEF UnexportLoop, TypeOK, ReqHolders, UnexportHolders,
                      HoldingStates
  <2>7. RefsAccounted'
    BY <2>1, <2>2, <2>5, <2>6, AddHolder DEF UnexportLoop, TypeOK
  <2>8. FsalPinnedPerExport'
    <3>1. \A y \in Exports : exp_state'[y] = "absent" <=> exp_state[y] = "absent"
      BY <1>0, <2>1 DEF TypeOK
    <3>2. QED
      BY <3>1, LiveUnchanged DEF UnexportLoop
  <2>9. QED
    BY <2>3, <2>4, <2>7, <2>8 DEF IInv
<1>3. QED
  BY <1>1, <1>2 DEF UnexportLoop

\* mdcache_put at the end of an iteration gives back that reference.
LEMMA UnexportPutIInv ==
    ASSUME TypeOK, HoldingCur, RefsAccounted, FsalPinnedPerExport,
           NEW x \in Exports, UnexportPut(x)
    PROVE  IInv'
<1>0. PICK f \in Entries : f = exp_cur[x]
  BY DEF UnexportPut, HoldingCur, HoldingStates
<1>1. f \in Entries /\ x \in UnexportHolders(f)
  BY <1>0 DEF UnexportPut, UnexportHolders, HoldingStates
<1>2. refcnt[f] >= 1
  BY <1>1, HeldMeansPositive
<1>3. TypeOK'
  BY <1>0, <1>1, <1>2 DEF UnexportPut, TypeOK, ExpStates
<1>4. HoldingCur'
  BY DEF UnexportPut, TypeOK, HoldingCur, HoldingStates
<1>5. \A g \in Entries \ {f} :
        ReqHolders(g)' = ReqHolders(g) /\ UnexportHolders(g)' = UnexportHolders(g)
  BY <1>0 DEF UnexportPut, TypeOK, ReqHolders, UnexportHolders, HoldingStates
<1>6. /\ UnexportHolders(f)' = UnexportHolders(f) \ {x}
      /\ ReqHolders(f)' = ReqHolders(f)
  BY <1>0 DEF UnexportPut, TypeOK, ReqHolders, UnexportHolders, HoldingStates
<1>7. RefsAccounted'
  BY <1>0, <1>1, <1>5, <1>6, RemoveHolder DEF UnexportPut, TypeOK
<1>8. FsalPinnedPerExport'
  <2>1. \A y \in Exports : exp_state'[y] = "absent" <=> exp_state[y] = "absent"
    BY DEF UnexportPut, TypeOK
  <2>2. QED
    BY <2>1, LiveUnchanged DEF UnexportPut
<1>9. QED
  BY <1>3, <1>4, <1>7, <1>8 DEF IInv

LEMMA AdmitIInv ==
    ASSUME TypeOK, HoldingCur, RefsAccounted, FsalPinnedPerExport,
           NEW t \in Threads, NEW x \in Exports, Admit(t, x)
    PROVE  IInv'
<1>1. /\ req' = [req EXCEPT ![t].exp = x]
      /\ req[t] = Idle
  BY DEF Admit
<1>2. TypeOK'
  BY <1>1 DEF Admit, TypeOK, Idle
<1>3. HoldingCur'
  BY DEF Admit, HoldingCur
<1>4. RefsAccounted'
  <2>1. \A u \in Threads : req'[u].ent = req[u].ent
    BY <1>1 DEF TypeOK, Idle
  <2>2. QED
    BY <2>1, HoldersUnchanged DEF Admit
<1>5. FsalPinnedPerExport'
  BY LiveUnchanged DEF Admit
<1>6. QED
  BY <1>2, <1>3, <1>4, <1>5 DEF IInv

\* A lookup either answers STALE and ends the request, or takes one
\* reference on the entry, creating it if it was not cached.
LEMMA LookupIInv ==
    ASSUME TypeOK, HoldingCur, RefsAccounted, FsalPinnedPerExport,
           NEW t \in Threads, NEW e \in Entries, Lookup(t, e)
    PROVE  IInv'
<1>0. req[t].exp \in Exports /\ req[t].ent = NoEntry
  BY DEF Lookup, TypeOK
<1>1. CASE cached[e] /\ unreachable[e]
  <2>1. req' = [req EXCEPT ![t] = Idle]
        /\ UNCHANGED <<cached, refcnt, export_list, first_export>>
    BY <1>1 DEF Lookup
  <2>2. TypeOK'
    BY <2>1 DEF Lookup, TypeOK, Idle
  <2>3. HoldingCur'
    BY DEF Lookup, HoldingCur
  <2>4. \A u \in Threads : req'[u].ent = req[u].ent
    BY <1>0, <2>1 DEF Idle, TypeOK
  <2>5. RefsAccounted'
    BY <2>1, <2>4, HoldersUnchanged DEF Lookup
  <2>6. FsalPinnedPerExport'
    BY LiveUnchanged DEF Lookup
  <2>7. QED
    BY <2>2, <2>3, <2>5, <2>6 DEF IInv
<1>2. CASE ~(cached[e] /\ unreachable[e])
  <2>1. /\ cached' = [cached EXCEPT ![e] = TRUE]
        /\ refcnt' = [refcnt EXCEPT ![e] = @ + 1]
        /\ export_list' = [export_list EXCEPT ![e] = @ \cup {req[t].exp}]
        /\ first_export' = [first_export EXCEPT ![e] =
                               IF @ = NoExport THEN req[t].exp ELSE @]
        /\ req' = [req EXCEPT ![t].ent = e]
    BY <1>2 DEF Lookup
  <2>2. TypeOK'
    BY <1>0, <2>1 DEF Lookup, TypeOK
  <2>3. HoldingCur'
    BY DEF Lookup, HoldingCur
  <2>9. /\ req'[t].ent = e
        /\ \A u \in Threads \ {t} : req'[u] = req[u]
    BY <2>1 DEF TypeOK
  <2>4. \A g \in Entries \ {e} :
          ReqHolders(g)' = ReqHolders(g) /\ UnexportHolders(g)' = UnexportHolders(g)
    BY <1>0, <2>9, ConstantsAssumption DEF Lookup, ReqHolders, UnexportHolders
  <2>5. /\ ReqHolders(e)' = ReqHolders(e) \cup {t}
        /\ t \notin ReqHolders(e)
        /\ UnexportHolders(e)' = UnexportHolders(e)
    BY <1>0, <2>9, ConstantsAssumption DEF Lookup, ReqHolders, UnexportHolders
  <2>6. RefsAccounted'
    BY <2>1, <2>4, <2>5, AddHolder DEF TypeOK
  <2>7. FsalPinnedPerExport'
    BY LiveUnchanged DEF Lookup
  <2>8. QED
    BY <2>2, <2>3, <2>6, <2>7 DEF IInv
<1>3. QED
  BY <1>1, <1>2

\* The request's mdcache_put.
LEMMA DoneIInv ==
    ASSUME TypeOK, HoldingCur, RefsAccounted, FsalPinnedPerExport,
           NEW t \in Threads, Done(t)
    PROVE  IInv'
<1>0. PICK f \in Entries : f = req[t].ent
  BY DEF Done, TypeOK
<1>1. t \in ReqHolders(f)
  BY <1>0 DEF ReqHolders
<1>2. refcnt[f] >= 1
  BY <1>0, <1>1, HeldMeansPositive
<1>3. TypeOK'
  BY <1>0, <1>2 DEF Done, TypeOK, Idle
<1>4. HoldingCur'
  BY DEF Done, HoldingCur
<1>10. /\ req'[t].ent = NoEntry
       /\ \A u \in Threads \ {t} : req'[u] = req[u]
  BY DEF Done, TypeOK, Idle
<1>5. \A g \in Entries \ {f} :
        ReqHolders(g)' = ReqHolders(g) /\ UnexportHolders(g)' = UnexportHolders(g)
  BY <1>0, <1>10, ConstantsAssumption DEF Done, ReqHolders, UnexportHolders
<1>6. /\ ReqHolders(f)' = ReqHolders(f) \ {t}
      /\ UnexportHolders(f)' = UnexportHolders(f)
  BY <1>0, <1>10, ConstantsAssumption DEF Done, ReqHolders, UnexportHolders
<1>7. RefsAccounted'
  BY <1>0, <1>1, <1>5, <1>6, RemoveHolder DEF Done, TypeOK
<1>8. FsalPinnedPerExport'
  BY LiveUnchanged DEF Done
<1>9. QED
  BY <1>3, <1>4, <1>7, <1>8 DEF IInv

\* mdcache_kill_entry only marks the entry unreachable.
LEMMA KillIInv ==
    ASSUME TypeOK, HoldingCur, RefsAccounted, FsalPinnedPerExport,
           NEW e \in Entries, Kill(e)
    PROVE  IInv'
<1>1. TypeOK'
  BY DEF Kill, TypeOK
<1>2. HoldingCur'
  BY DEF Kill, HoldingCur
<1>3. RefsAccounted'
  BY HoldersUnchanged DEF Kill
<1>4. FsalPinnedPerExport'
  BY LiveUnchanged DEF Kill
<1>5. QED
  BY <1>1, <1>2, <1>3, <1>4 DEF IInv

\* The reaper frees only an entry that nobody holds.
LEMMA ReapIInv ==
    ASSUME TypeOK, HoldingCur, RefsAccounted, FsalPinnedPerExport,
           NEW e \in Entries, Reap(e)
    PROVE  IInv'
<1>1. ReqHolders(e) = {} /\ UnexportHolders(e) = {}
  BY HeldMeansPositive DEF Reap
<1>2. TypeOK'
  BY DEF Reap, TypeOK
<1>3. HoldingCur'
  BY DEF Reap, HoldingCur
<1>4. \A g \in Entries :
        ReqHolders(g) \cup UnexportHolders(g) # {} => (cached[g] => cached'[g])
  BY <1>1 DEF Reap, TypeOK
<1>5. RefsAccounted'
  BY <1>4, HoldersUnchanged DEF Reap
<1>6. FsalPinnedPerExport'
  BY LiveUnchanged DEF Reap
<1>7. QED
  BY <1>2, <1>3, <1>5, <1>6 DEF IInv

\* A step that changes no variable keeps the invariant.
LEMMA StutterIInv ==
    ASSUME IInv, UNCHANGED vars
    PROVE  IInv'
<1>1. TypeOK' /\ HoldingCur'
  BY DEF IInv, vars, TypeOK, HoldingCur
<1>2. RefsAccounted'
  BY HoldersUnchanged DEF IInv, vars
<1>3. FsalPinnedPerExport'
  BY LiveUnchanged DEF IInv, vars
<1>4. QED
  BY <1>1, <1>2, <1>3 DEF IInv

\* Every step of the cache, the unexport thread, the requests and the
\* reaper keeps the strengthened invariant.
LEMMA NextIInv == IInv /\ [Next]_vars => IInv'
<1> SUFFICES ASSUME IInv, [Next]_vars PROVE IInv'
  OBVIOUS
<1>0. TypeOK /\ HoldingCur /\ RefsAccounted /\ FsalPinnedPerExport
  BY DEF IInv
<1>1. CASE \E x \in Exports :
             \/ CreateExport(x) \/ UnexportSub(x) \/ UnexportLoop(x)
             \/ UnexportRemove(x) \/ UnexportPush(x) \/ UnexportPut(x)
             \/ ExpRelease(x)
  BY <1>0, <1>1, CreateExportIInv, UnexportSubIInv, UnexportLoopIInv,
     UnexportRemoveIInv, UnexportPushIInv, UnexportPutIInv, ExpReleaseIInv
<1>2. CASE \E t \in Threads :
             \/ \E x \in Exports : Admit(t, x)
             \/ \E e \in Entries : Lookup(t, e)
             \/ Done(t)
  BY <1>0, <1>2, AdmitIInv, LookupIInv, DoneIInv
<1>3. CASE \E e \in Entries : Kill(e) \/ ReapCleanup(e) \/ ReclaimLRU(e)
  BY <1>0, <1>3, KillIInv, ReapIInv DEF ReapCleanup, ReclaimLRU
<1>4. CASE UNCHANGED vars
  BY <1>4, StutterIInv
<1>5. QED
  BY <1>1, <1>2, <1>3, <1>4 DEF Next

\* The strengthened invariant holds in every reachable state.
THEOREM IInvHolds == Spec => []IInv
BY InitIInv, NextIInv, PTL DEF Spec

\* Every variable of the cache, the export map and the request table
\* keeps its type along every behaviour.
THEOREM TypeCorrect == Spec => []TypeOK
BY IInvHolds, PTL DEF IInv

\* mdcache_get/mdcache_put are balanced: an entry's refcnt is exactly the
\* number of requests and unexport iterations holding it, and the reaper
\* never frees a held entry, for any number of entries, exports, threads.
THEOREM RefsAccountedHolds == Spec => []RefsAccounted
BY IInvHolds, PTL DEF IInv

\* mdcache_fsal_create_export and mdcache_exp_release leave one fsal
\* reference per export that exists, also when the create fails.
THEOREM FsalPinnedHolds == Spec => []FsalPinnedPerExport
BY IInvHolds, PTL DEF IInv

=============================================================================
