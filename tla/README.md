# TLA+ models of the MDCACHE export layer and the admin/shutdown thread

This directory holds TLA+ models of the parts of this repository that can
be checked: the MDCACHE export (its entry map, unexport loop, life cycle,
operation pass-throughs and lock order), the dirent index, and the admin
thread's shutdown. It also holds the TLC configurations that model-check
them and the TLAPS proofs about them.

## The system

The sources under `src/` are a slice of NFS-Ganesha:

* `src/src/FSAL/Stackable_FSALs/FSAL_MDCACHE/mdcache_export.c`: the MDCACHE
  stacking layer's export object.
  * `mdcache_fsal_create_export` looks up the sub-FSAL and asks it to create
    its export. `mdc_init_export` then wraps that export in an MDCACHE export.
  * `mdcache_unexport` first unexports the sub-export. It then walks the
    export's entry list and unlinks every cached entry from the export.
  * `mdcache_exp_release` frees the export and drops its sub-FSAL pin.
  * About thirty export operations pass straight through to the sub-export.
* `src/src/FSAL/Stackable_FSALs/FSAL_MDCACHE/mdcache_avl.h`: the comparator
  of the directory-entry AVL tree (by 64-bit name hash).
* `src/unnamed/part_001` (`nfs_admin_thread.c`): the admin thread.
  * `admin_halt` sets `admin_shutdown` under `admin_control_mtx` and
    broadcasts `admin_control_cv`. The DBus `shutdown` method calls it.
  * `admin_thread` waits for the flag and runs `do_shutdown`.
  * `do_shutdown` stops the delayed executor, the async state thread, the
    listeners, the request decoders (120 s, cancel on timeout), the workers,
    the general fridge and the reaper. Then it removes all exports and
    destroys the FSALs: orderly, or by emergency cleanup when a stage failed.
  * It also holds the other DBus admin methods (grace, get_grace, purges).
* `src/unnamed/part_000` (README), a git hook and a CMake file: not code of
  the system.

The two parts meet in `do_shutdown`. `remove_all_exports` calls
`mdcache_unexport` for every export, and the stages before it switch off
the actors the unexport loop races with.

The entry store is not under `src/`. That covers `mdcache_get`/`mdcache_put`,
lookup creating entries and linking them to exports, `mdcache_kill_entry`,
the LRU reaper and its cleanup queue, and `mdcache_lru_cleanup_try_push`.
These are modelled from `spec.md` (§4.3-4.5) and marked `spec_modelled` in
`PROJECT.json`.

## Modules

| Module | Models | Kind |
|---|---|---|
| `MDCache` | export map, unexport loop, create/release, with requests, kill and reaper | component |
| `MDCacheProofs` | TLAPS proofs about `MDCache` | proofs |
| `Shutdown` | `admin_halt`, DBus `shutdown`, `admin_thread`, `do_shutdown` | component |
| `MDCacheShutdown` | `do_shutdown`'s stages gating the cache's actors | composition (`INSTANCE MDCache`, `INSTANCE Shutdown`) |
| `SubExport` | what a sub-FSAL export promises: each export operation is one atomic call on the right sub-export | abstract specification |
| `ExportOps` | the pass-through operations (lines 196-790) as call and return through `subcall_raw` | component, refines `SubExport` (`INSTANCE ... WITH`) |
| `ExportOpsProofs` | TLAPS proofs about `ExportOps`, the refinement included | proofs |
| `ExportName` | `mdcache_get_name` beside the other operations | component |
| `LockOrder` | the locks of the unexport loop, a lookup linking an entry, and the reaper | component |
| `LockOrderProofs` | TLAPS proofs about `LockOrder` | proofs |
| `DirentAVL` | `avl_dirent_hk_cmpf` and the quadratic-probing dirent index | component |
| `DirentAVLProofs` | TLAPS proofs about `DirentAVL` | proofs |
| `MCMDCache`, `MCShutdown`, `MCMDCacheShutdown`, `MCExportOps`, `MCLockOrder`, `MCDirentAVL` | TLC instances (symmetry sets, definitions of constants) | model-checking |

### MDCache

State:

* `cached[e]`, `refcnt[e]`, `unreachable[e]`: the entry store.
* `export_list[e]`: the set of exports entry `e` is linked to. It stands for
  both intrusive lists of `struct entry_export_map`: the entry's
  `export_list` and the export's `entry_list`, which is `EntryList(x)`.
* `first_export[e]`: the entry's `first_export` pointer.
* `exp_state[x]` and `exp_cur[x]`: where export `x`'s unexport thread is in
  `mdcache_unexport`, and the entry it holds a reference on.
* `fsal_refcount`: the sub-FSAL's reference count.
* `req[t]`: a request thread's export and the entry it holds.

Actions, each the whole of a code step between two lock releases:

* `CreateExport`: `mdcache_fsal_create_export`, with `MdcInitExportPin` for
  `mdc_init_export`'s `fsal_get`. The sub-FSAL's `create_export` may fail.
* `UnexportSub`: lines 86-97.
* `UnexportLoop`: lines 99-119. Under `mdc_exp_lock`, either the list is
  empty (the loop ends) or the head entry is taken with `mdcache_get`. The
  list order is not kept, so the head is any linked entry. A stale head
  (failed get) is a `continue` that changes nothing: a stutter, not a step.
* `UnexportRemove`: lines 121-149 under both locks. It unlinks the map and
  either clears `first_export` (last export gone) or re-points it.
* `UnexportPush`: lines 136-141, after both locks are dropped.
* `UnexportPut`: lines 151-153.
* `ExpRelease`: lines 161-182. It runs once the export has no users.
* `Admit`, `Lookup`, `Done`, `Kill`, `Reap` (`ReapCleanup`, `ReclaimLRU`):
  the request path and the reaper, from the spec.

`UnexportQuiesced` says whether the caller stops the export's requests
before unexporting. Shutdown does (the workers are stopped first). The spec's
scenario S2, unexport while lookups run, does not.

Operators named `...NoRef`, `...Leak`, `...Skipped`, `...Twice` etc. are
faulty variants of a code step. They are not part of `Next`. They are the
mutants listed in `PROJECT.json`.

### Shutdown

State:

* `admin_shutdown`.
* `admin_pc`: `check`, `wait`, a stage of `do_shutdown`, or `exited`.
* `disorderly`.
* `failed`: a history variable, the stages that reported an error.
* `fsal_fate`: `loaded`, `destroyed` or `emergency`.

`AdminCheck` is the locked test of the `while` loop. It enters
`pthread_cond_wait` in the same atomic step, because the wait releases the
mutex atomically. `SpuriousWake` is a return of the wait without a
broadcast. `StageStep(s, rc)` is one call of `do_shutdown`, with `rc` among
the return codes the code tests (`Outcomes`).

### MDCacheShutdown

This module gates the cache's actors by the admin thread's position:

* requests are admitted until the decoders stop (`Decoding`);
* requests run until the workers stop (`Working`).

The cache's reaper (`ReapCleanup`) and LRU reclaim run throughout.
`reaper_shutdown` (line 423) stops a server-side reaper thread, which
`src/` does not tie to the MDCACHE LRU's own background thread, so nothing
in the code stops the cache's reaper before `remove_all_exports`.

The exports are created before the shutdown. They are unexported only in
the `exports` stage, which completes when every unexport loop has ended
(`ExportsRemoved`). `worker_shutdown` returns 0 only once the requests have
drained. When it fails, the requests it abandons keep their references.

### ExportOps, SubExport and ExportName

`SubExport` is the abstract specification. Its state:

* `exp_live[x]`: whether export `x` and its sub-export are allocated;
* `req[t]`: the export of thread `t`'s request (its `op_ctx`);
* `sub_quota`: the sub-FSAL's quotas;
* `state_exp[s]`: the export that NFS state `s` belongs to;
* `result[t]`: the operation `t` asked for and the reply it got.

Every query, quota call and `alloc_state`/`free_state` is one atomic step
on the sub-export of the right export. A query's reply names the export and
the operation that produced it, so a wrong forward is visible.

`ExportOps` adds `call[t]`, the operation `t` is inside of, and
`state_hdl[s]`, the export handle stored in `state->state_exp`. There are
two kinds of handle: `MdcHdl(x)`, the MDCACHE export `x`, and `SubHdl(x)`,
its sub-export. `mdcache_alloc_state` (line 731) stores the handle the
sub-FSAL was called with, the sub-export's. `mdcache_free_state` (745)
applies `mdc_export` (container_of) to the stored handle (`MdcExportOf`).
On an MDCACHE handle that gives the export back. On a sub-export handle
the behaviour is undefined, so the call lands on any export or on none
(`Wild`). Each MDCACHE
operation is two steps:

* `MdcQuery`, `MdcCheckQuota`, `MdcGetQuota`, `MdcSetQuota`,
  `MdcAllocState`, `MdcFreeState`: the sub-FSAL runs the operation inside
  `subcall_raw` and the answer is fixed;
* `SubcallReturn`: the call returns to the caller.

The operation a query reaches is `SubOpOf(o)`. It is the entry of
`mdcache_export_ops_init` (`MdcExportOps`); an operation missing there
reaches the default method, which answers nothing. `MdcFreeState` follows
`state->state_exp`, not the caller's `op_ctx`, as the code does.
`SubExport` does not say which sub-export serves a `free_state`, and
nothing in the export layer makes a state hold its export (`Pinned` counts
only requests).

The refinement mapping:

* takes a pending call's answer as already returned (`AbsResult`);
* takes a state being freed as already gone (`AbsStateExp`).

`ExportName` adds `MdcGetName`. Alone among the operations, it reads
`mdc_cur_export()` (the `op_ctx` export) rather than `mdc_export(exp_hdl)`.

### LockOrder

The locks are `owner[l]`, over:

* `attr_lock` per entry;
* `mdc_exp_lock` per export;
* the LRU lane lock.

A lock held across a step is taken for writing. `pc[a]` is where each
actor is. There are three kinds of actor:

* Unexport thread `x`, lines 99-153:
  * `UxLoop` (the read-locked peek at the head);
  * `UxFirstLock` and `UxSecondLock` (`attr_lock`, then `mdc_exp_lock`, in
    the order of `UnexportLocks`; the map is removed and both locks
    dropped);
  * `UxPushLane` and `UxPushAttr` (`mdcache_lru_cleanup_try_push`: the lane
    lock, then `attr_lock`);
  * `UxPut`.
* A lookup linking an entry (spec §5): `attr_lock`, then `mdc_exp_lock`.
* The reaper (spec §4.4). It only try-locks and drops everything when a lock
  is taken, so it holds locks but never waits.

`WaitsFor` relates an actor to the holder of the lock it is blocked on.
`NoCircularWait` says its transitive closure has no cycle. `NoLockLeak`
says each actor holds exactly the locks its place names (`Holds`).
`LockOrdered` is the lock discipline behind `NoCircularWait`. `LockRank` ranks the
lane lock 0, `attr_lock` 1 and `mdc_exp_lock` 2, and an actor blocks only
on a lock ranked above every lock it holds.

### DirentAVL

`tree` maps the keys in use to dirents (`name`, `deleted`), and `reindex`
is the reindex mark.

* `HkCmpf` is `avl_dirent_hk_cmpf` (lines 59-74). `AvlLookup(k)` is the
  tree's lookup of key `k` under it: a node the comparator calls equal.
* `Insert` walks the probe keys `k + j + j^2 mod KeySpace`, for
  `j = 0..MaxJ`, to the first key that is free, tombstoned or already holds
  the name. Past `MaxJ` it sets `reindex` (TOO_MANY_COLLISIONS).
* `LookupByName` walks the same sequence past tombstones and other names,
  up to the first free key, looking each probe key up with `AvlLookup`.
* `SetDeleted` tombstones a dirent.
* `CleanTree` sweeps the tree.

Everything but the comparator is in `mdcache_avl.c`, which is not in
`src/`, so it is modelled from spec §4.1. `KeySpace` stands for 2^64.

## Runs

| Run | Config | Expect | Checks |
|---|---|---|---|
| mdcache_safety | `MCMDCache.cfg` (3 entries, 2 exports, 2 threads, quiesced) | pass | `TypeOK`, `UnexportMapStillLinked`, `FirstExportValid`, `RefsAccounted`, `OrphanBeingPushed`, `UnexportComplete`, `FsalPinnedPerExport` |
| mdcache_unexport_terminates | `MCMDCacheLive.cfg` (2/2/2, fair) | pass | `UnexportTerminates` |
| mdcache_inflight_unexport | `MCMDCacheInflight.cfg` (not quiesced) | violation | `UnexportComplete` |
| mdcache_orphan_window | `MCMDCacheOrphan.cfg` | violation | `ReachableHasExport` (spec invariant 1) |
| admin_shutdown | `MCShutdown.cfg` | pass | `ShutdownTypeOK`, `ShutdownOnlyWhenRequested`, `FsalTeardownMatchesFailures`, `HaltLeadsToExit` |
| shutdown_with_cache | `MCMDCacheShutdown.cfg` (2 entries, 2 exports, 2 threads) | pass | `NoExportMapAtTeardown` |
| shutdown_completes | `MCMDCacheShutdownLive.cfg` (2 entries, 2 exports, 1 thread, fair) | pass | `OrderlyShutdownCompletes` |
| export_ops_refinement | `MCExportOps.cfg` (2 exports, 1 thread, quotas {0,1}) | pass | `TypeOK`, `ImplementsSubExport` |
| export_ops_free_state_target | `MCExportOpsFreeState.cfg` (quota 0) | violation | `FreeStateReachesOwner` |
| export_get_name | `ExportName.cfg` (2 exports, 1 thread) | violation | `GetNameOfHandle` |
| lock_order | `MCLockOrder.cfg` (2 entries, 2 unexports, 1 lookup, reaper) | pass | `NoCircularWait`, `NoLockLeak`, `LockOrdered` |
| dirent_index | `MCDirentAVL.cfg` (3 names, 16 keys, `MaxJ` 2) | pass | `LookupExact` |

Why these bounds are enough:

* Three entries and two exports cover the cases that matter: an entry
  linked to both exports (so the first-export pointer must move), an entry
  linked to one, and an unlinked entry.
* Two threads let a request hold an entry while the unexport and the reaper
  act on it.
* The shutdown runs enumerate every return code of every stage.
* ExportOps: one thread and two exports let a call, a release of the other
  export and a state of either interleave. The thread's own request can end
  while a `free_state` through its state is in flight, which is what a
  second thread would add. Two threads on two exports are out of TLC's
  reach in the time a run has.
* LockOrder: two unexports and a lookup can close every two- and
  three-actor cycle over two entries. The reaper can hold the lane lock and
  an `attr_lock` at once.
* DirentAVL: names "a" and "b" share hash 0, and "c" hashes to 2, the first
  probe key of 0. So collisions, crossing probe sequences, tombstones on
  the path and an exhausted probe bound all occur. Sixteen keys with a
  mutant int of four values (half the key bits) keep the
  comparator's truncation reachable.

`CHECK_DEADLOCK FALSE` appears in the shutdown runs, whose last state is
the exited process, and in the ExportOps runs, where every export may have
been released and nothing is left to call.

### What the runs show

* With requests quiesced, the unexport loop never touches an unlinked or
  freed entry. References balance, and `first_export` always names a linked
  export. An entry that lost its last export is in the cleanup window or
  has been pushed. When the loop ends, no entry is linked to the export.
  The sub-FSAL holds exactly one pin per existing export, including after a
  failed `create_export`.
* **Finding (spec gap), `UnexportComplete` with requests in flight.** A
  request admitted on the export before `mdcache_unexport` can link an entry
  to the export after the loop has ended. The code relies on its caller to
  quiesce the export; the spec (scenario S2) does not say so.
* **Finding (spec/code divergence), `ReachableHasExport`.** Between dropping
  the locks (136-137) and `mdcache_lru_cleanup_try_push` (141), an entry is
  reachable with no export. Spec invariant 1 says otherwise. The code's
  comment explains the lock order that forces the gap.
* The admin thread never starts `do_shutdown` on a spurious wakeup. It
  always finishes once halted, and it uses the emergency cleanup exactly
  when a stage failed.
* Stopping the workers before `remove_all_exports` leaves no entry linked to
  an export when the FSALs are torn down.
* An orderly shutdown that reaches `remove_all_exports` ends. An entry
  killed before it is reaped makes the unexport loop retry its stale head,
  but the cache's reaper still runs and unlinks it. A mutant of
  `UnexportPut` that leaks the loop's reference keeps the entry from being
  reaped, and the shutdown then never ends.

* ExportOps implements SubExport: every MDCACHE export operation answers as
  the same operation of the right sub-export. A mutant that forwards
  `fs_maxwrite` to `fs_maxread`, or leaves an operation out of
  `mdcache_export_ops_init`, breaks the refinement.
* **Finding (code bug), `FreeStateReachesOwner`.** `mdcache_alloc_state`
  (line 731) stores the sub-export handle in `state->state_exp`, and
  `mdcache_free_state` (745) applies `mdc_export` to it as if it were an
  MDCACHE handle. The container_of lands outside any MDCACHE export, so the
  free reaches a sub-export that did not allocate the state. TLC's trace:
  alloc through `x2`, return, free landing on `x1`.
* **Finding (spec/code divergence), `GetNameOfHandle`.** `mdcache_get_name`
  (line 74) ignores `exp_hdl` and returns the name of the `op_ctx` export.
  Outside a request, or with another export's handle, it does not return
  the handle's name.
* Lock order: no set of unexports, lookups and the reaper ever waits in a
  cycle, and every path drops the locks it took. Taking `mdc_exp_lock`
  before `attr_lock` in the unexport loop yields a cycle with a lookup.
* The dirent index answers lookups by name exactly: a live name is found and
  a tombstoned or absent one is not. A comparator by subtraction into a
  narrower int calls distinct keys equal, and the lookup then returns
  another key's dirent.
* Spec §6.2 (at most one live dirent per name) is not checked. The spec's
  own insert rule in §4.1 (the first free or tombstoned probe key) breaks
  it. Consider names a and b on one hash: insert b, insert a, tombstone b,
  insert a again. Then a is live twice. This is recorded as a hazard of
  `mdcache_avl_qp_insert`.

## Fairness

Weak fairness is assumed where an OS thread is running and not blocked:

* each export's unexport loop;
* each request thread's lookup and completion;
* the reaper's service of its cleanup queue;
* the admin thread's test and each `do_shutdown` stage.

Nothing is owed by clients, the backend (`Kill`), LRU memory pressure,
`admin_halt` callers or spurious wakeups.

## Proofs (`MDCacheProofs`, checked by `tlapm`)

For every finite set of entries, exports and threads (`ConstantsAssumption`,
which asserts `CacheConstants`):

* `IInvHolds`: `Spec => []IInv`;
* `TypeCorrect`: `Spec => []TypeOK`;
* `RefsAccountedHolds`: `Spec => []RefsAccounted`;
* `FsalPinnedHolds`: `Spec => []FsalPinnedPerExport`.

`TypeOK` is not inductive. `Done` and `UnexportPut` decrement `refcnt`, and
`ExpRelease` decrements `fsal_refcount`. Only the counting invariants show
those counters are positive there. So the inductive invariant is

`IInv == TypeOK /\ HoldingCur /\ RefsAccounted /\ FsalPinnedPerExport`

where `HoldingCur` says an unexport that holds a reference names an entry.

Layout of the proof:

* Lemmas on holder sets (finite; add or remove one holder, then the count
  changes by one) and on steps that leave the holders or the live exports
  unchanged.
* One lemma per action, one step per conjunct the action can disturb.
* `NextIInv`, by cases on `Next`.
* The theorems, by `PTL`.

## Proofs (`MDCacheMapProofs`)

These build on `IInvHolds`. For every finite set of entries, exports and
threads:

* `MapInvHolds`: `Spec => [](IInv /\ MapInv)`;
* `UnexportMapStillLinkedHolds`: `Spec => []UnexportMapStillLinked`;
* `FirstExportValidHolds`: `Spec => []FirstExportValid`;
* `OrphanBeingPushedHolds`: `Spec => []OrphanBeingPushed`;
* `UnexportCompleteHolds`: if `UnexportQuiesced`, then
  `Spec => []UnexportComplete`. Without quiescing the property is false, as
  the `mdcache_inflight_unexport` run shows.

The inductive invariant is

`MapInv == FirstExportAll /\ UnexportMapStillLinked /\ OrphanBeingPushed
/\ (UnexportQuiesced => ReqOnLive /\ UnexportComplete)`

Each added conjunct is needed for a reason:

* `FirstExportAll` is `FirstExportValid` for every entry, cached or not.
  A lookup can re-create a reaped entry. The proof needs the reaper to have
  left it with no links and a NULL `first_export`, and `FirstExportValid`
  alone says nothing about uncached entries.
* `UnexportMapStillLinked` needs `IInv`. An unexport in `remove` holds a
  reference, so by `RefsAccounted` the entry's `refcnt` is at least 1. The
  reaper needs `refcnt = 0`, so it cannot free that entry
  (lemma `HeldMeansPositive`).
* `UnexportComplete` needs `ReqOnLive`: every request's export is live.
  A lookup adds only its request's export to an entry. That export is live,
  so it is never one whose unexport is done.

There is one lemma per action, then `NextMapInv` and the theorems by
`PTL`. TLC checked `IInv /\ MapInv` as an invariant before the proof, with
the `MCMDCache` constants, both with and without quiescing.

## Proofs (`ExportOpsProofs`)

For every set of exports, threads, users, quotas and states
(`SubExportAssumption`):

* `ExportOpsTypeCorrect`: `Spec => []TypeOK`;
* `ExportOpsRefinesSubExport`: `Spec => ImplementsSubExport`. The initial states map to `SubInit`, and
  every step maps to a `SubNext` step or a stutter. Starting a call is the
  abstract operation, and its return is a stutter.

The inductive invariant `IInv` conjoins `TypeOK` with four more facts:

* `ReqLive`: a request's export is live;
* `CallOnReq`: a call other than `free_state` is on its thread's request
  export;
* `FreeingOwnState`: a `free_state` call is on a state still allocated,
  and only one thread frees a state.

The refinement needs them because the mapping takes a pending call as done:
a pending query's request must still be live, and a pending free must find
its state still in `state_exp` for `SubFreeState` to apply. Which export a
free lands on is not observed by the refinement; `FreeStateReachesOwner`
is, and it fails.

## Proofs (`DirentAVLProofs`)

For every key space, probe bound, name set and hash
(`DirentAVLAssumption`):

* `DirentTypeCorrect`: `DirSpec => []DirTypeOK`. An insert adds one probe
  key, and `ProbeKeyType` shows that key is in the key space.
* `LookupExactHolds`: `DirSpec => []LookupExact`. `LookupExact` alone is
  not inductive, because it says nothing of where a live dirent sits.
  The inductive invariant adds `ProbeChain`: every live dirent sits at
  the j-th probe key of its name's hash, for some j up to `MaxJ`, and
  every earlier probe key is in the tree. Insert keeps it because the walk
  stops only after passing keys in use. Set_deleted and the sweep never
  free a key that a live dirent's chain passes. So the probe index of a
  live dirent is one of the lookup's hits. `AvlLookupExact` shows that
  `AvlLookup` of a key finds that key's node: `HkCmpf` is 0 only on equal
  keys (`HkCmpfZero`). `MinOfLeast` shows that `MinOf`
  of the hits is a hit, so the lookup lands on a live dirent of the name.
  `MinOfLeast` needs no induction: it is `WFMin` of `WellFoundedInduction`
  applied to `NatLessThanWellFounded`, both of which take sets rather
  than operators as parameters.

## Proofs (`ShutdownProofs`)

These hold with no assumption, since `Shutdown` has no constants:

* `SIInvHolds`: `ShutdownSpec => []SIInv`;
* `ShutdownTypeCorrect`: `ShutdownSpec => []ShutdownTypeOK`;
* `ShutdownOnlyWhenRequestedHolds`:
  `ShutdownSpec => []ShutdownOnlyWhenRequested`;
* `FsalTeardownHolds`: `ShutdownSpec => []FsalTeardownMatchesFailures`.

`FsalTeardownMatchesFailures` is not inductive. The "fsals" stage picks the
teardown by the local flag `disorderly`, not by the history `failed`. A
later failing stage would break the property. So the inductive invariant
`SIInv` adds two facts:

* `DisorderlyIffFailed`: `disorderly` is set exactly when a call failed;
* `FsalsTornDownLate`: the FSALs are still loaded until the thread is past
  "fsals". Only "pidfile" comes after it, and that stage ignores its result.

The stage table has lemmas of its own:

* the twelve stage names are distinct;
* `NextStage` of the i-th stage is the (i+1)-th stage, or "exited" after
  the last;
* `PcIndex` of the i-th stage is i;
* `NextStageIndex`: each call moves `PcIndex` on by exactly one.

## Proofs (`MDCacheShutdownProofs`)

For every finite set of entries, exports and threads
(`MDCacheShutdownAssumption`, which is the cache's `CacheConstants`):

* `ImplementsCache`: `Spec => CP!Spec`;
* `ImplementsShutdown`: `Spec => SP!ShutdownSpec`.

Every step of the composition is a cache step with the admin thread
unchanged, or an admin-thread step with the cache unchanged. The
composition only adds guards to those steps. So through the two refinements
every theorem of `MDCacheProofs` and `ShutdownProofs` holds in the
composition. (`CP` and `SP` instantiate the two proof modules.) On top of
them:

* `ShutdownWithCacheTypeCorrect`: `Spec => []TypeOK`;
* `NoExportMapAtTeardownHolds`: `Spec => []NoExportMapAtTeardown`.

The second one rests on `TInv`, which has four conjuncts:

* `ReqExportExists`: a request's export exists;
* `NoUnexportWhileWorking`: while the workers run, every export is absent
  or live;
* `GoneUnlinked`: an export that is absent or done has no entry;
* `RemovedAfterExports`: past `remove_all_exports`, every export is absent
  or done.

The argument has four steps:

1. A lookup runs only while the workers run. Its export exists, so it is
   live, and the lookup never links an entry to an export whose loop has
   ended.
2. Unexport loops start only in the "exports" stage, which is after the
   workers stopped.
3. That stage returns only once every export is removed.
4. The FSALs are torn down after it (`FsalsTornDownLate`).

The phase guards (`Working`, `BeforeShutdown`, `Past`) are compared
through `PcIndex`, with lemmas showing that each stage moves it on by one.

To reuse the cache lemmas through `INSTANCE`, `MDCache`'s assumption is
written as a definition, `CacheConstants`, asserted by
`ASSUME ConstantsAssumption == CacheConstants`. This lets `tlapm` discharge
the instantiated assumption from `MDCacheShutdownAssumption`.

## Proofs (`LockOrderProofs`)

For every set of entries, exports and lookups (only
`LockOrderAssumption`, the distinctness of the actor kinds and of the
"none" values):

* `NoLockLeakHolds`: `LockSpec => []NoLockLeak`;
* `LockOrderedHolds`: `LockSpec => []LockOrdered`.

`NoLockLeak` is not inductive on its own. The locks an actor holds are
named by its entry (`AttrLock(cur[a])`), so a step is safe only if the
entry is set wherever such a lock is held or about to be taken. The
inductive invariant `LInv` adds two conjuncts:

* `CurSet`: the entry is set in those places;
* `PcDomain`: `pc` is a function on the actors.

There is one lemma per step of each actor. The proof of each has three
parts:

* the acting actor's own lock set before and after, via `HoldsExport`,
  `HoldsLinker` and `HoldsReaper`, with their primed forms;
* every other actor keeps its set (`OthersKeep`), because a step takes
  only free locks and drops only its own;
* the types.

`LockOrdered` then follows from `LInv` in each state. A holder is one of
three: an unexport at "second" (holds `attr_lock`, wants `mdc_exp_lock`),
an unexport at "push_attr" (holds the lane lock, wants `attr_lock`), or a
lookup at "second" (holds `attr_lock`, wants `mdc_exp_lock`). The reaper
wants nothing.

`WaitEdgesAscendHolds` proves `[]WaitEdgesAscend`: if `a` waits for `b`,
the lock `b` is blocked on is ranked above the one `a` is blocked on.
Every actor is blocked on at most one lock (`WantsOne`), so this follows
from `LockOrdered` applied to `b`. A cycle of such edges would need a lock
ranked above itself.

## What only TLC checks

Only TLC checks:

* the properties of the violation runs (`ReachableHasExport`,
  `UnexportComplete` without quiescing,
  `FreeStateReachesOwner`, `GetNameOfHandle`). They are false, and the
  runs show how;
* `NoCircularWait`. `WaitEdgesAscendHolds` proves the step that matters:
  along every `WaitsFor` edge, the rank of the lock waited for strictly
  increases. But `TransitiveClosure` is the recursive function `trcl[n]`.
  The least-number principle (`WFMin`) would carry the rank bound through
  `n`, but the provers cannot even unfold `trcl[n]`. Unfolding it needs
  the fact that the recursive function exists, and `RecursiveFcnOfNat`
  states that with an operator parameter;
* all liveness properties (`UnexportTerminates`, `HaltLeadsToExit`,
  `OrderlyShutdownCompletes`). TLAPS does not handle fairness or ENABLED
  reasoning here.

Induction was tried directly: citing `NatInduction` with a concrete
predicate leaves the step unproved, because no installed backend
instantiates the theorem's operator parameter.

## Not modelled

* The config tables (792-817). They are static and read by the config
  parser. A configuration error is the early return that `CreateExport`
  models as no step.
* The DBus grace and purge methods. They check arguments and call out.
* `lookup_by_key` and its flags in the dirent index. It is a query that no
  property needs.
* Readers-writer sharing: `LockOrder` takes every lock it holds across a
  step for writing. The unexport's read lock is dropped within its step.

## Plan for later work

* An abstract export-map specification that `MDCache` refines.
* The spec's rename path (both parents' `content_lock` in address order),
  added to `LockOrder`.
