----------------------------- MODULE SubExport -----------------------------
(***************************************************************************)
(* What a sub-FSAL export promises to its callers, seen directly: every    *)
(* export operation is one atomic call on the sub-export of the export the *)
(* caller works on.  This is the abstract specification the MDCACHE        *)
(* export (module ExportOps) implements: by the backend contract of the    *)
(* spec, the cache forwards the export-level operations to the sub-backend *)
(* unchanged.                                                              *)
(*                                                                         *)
(* A result is the operation asked for and its reply; a query's reply is   *)
(* the export and the operation that produced it, so an answer from the    *)
(* wrong export or the wrong operation is told apart from the right one.   *)
(* Quotas and NFS state objects are the sub-FSAL state the operations      *)
(* change.                                                                 *)
(***************************************************************************)
EXTENDS Naturals, FiniteSets

CONSTANTS
    Exports,          \* the exports, each with one sub-export
    Threads,          \* protocol and state-cleanup threads
    Users,            \* quota owners
    Quotas,           \* the quota limits a user can be given
    StateIds,         \* the state_t objects the sub-FSAL can hand out
    NoExport          \* no export / no state owner

ASSUME SubExportAssumption ==
    /\ NoExport \notin Exports
    /\ Quotas \subseteq Nat

VARIABLES
    exp_live,   \* exp_live[x]: the export and its sub-export are allocated
    req,        \* req[t]: the export thread t's request works on
    sub_quota,  \* sub_quota[x][u]: the sub-FSAL's quota of user u on x
    state_exp,  \* state_exp[s]: the export whose sub-FSAL allocated state s
    result      \* result[t]: what t's last export operation returned

sub_vars == <<exp_live, req, sub_quota, state_exp, result>>

\* The export-level queries of the export_ops vector that take no state
\* of the cache and change none: file system usage, features and limits,
LimitOps == {"get_fs_dynamic_info", "fs_supports", "fs_maxfilesize",
             "fs_maxread", "fs_maxwrite", "fs_maxlink", "fs_maxnamelen",
             "fs_maxpathlen"}

\* the lease time and the attribute, ACL, umask and xattr capabilities,
CapOps == {"fs_lease_time", "fs_acl_support", "fs_supported_attrs",
           "fs_umask", "fs_xattr_access_rights"}

\* and pNFS layouts, the write verifier and wire-handle decoding.
PnfsOps == {"getdevicelist", "fs_layouttypes", "fs_layout_blocksize",
            "fs_maximum_segments", "fs_loc_body_size", "get_write_verifier",
            "extract_handle"}

QueryOps == LimitOps \cup CapOps \cup PnfsOps

\* What an operation returns, tagged by its kind: the sub-export of x
\* answered query o; a quota; whether a user is within quota; a new state.
Answer(x, o) == <<"answer", x, o>>
QuotaIs(q) == <<"quota", q>>
WithinQuota(b) == <<"within", b>>
StateIs(s) == <<"state", s>>
NoResult == <<"none">>
Freed == <<"freed">>

Replies == {NoResult, Freed} \cup {Answer(x, o) : x \in Exports, o \in QueryOps}
           \cup {QuotaIs(q) : q \in Quotas} \cup {WithinQuota(b) : b \in BOOLEAN}
           \cup {StateIs(s) : s \in StateIds}

\* The operations a caller can ask of the export.
OpNames == QueryOps \cup {"check_quota", "get_quota", "set_quota",
                          "alloc_state", "free_state"}

\* A result is the operation the caller asked for and its reply.
Results == (OpNames \cup {"none"}) \X Replies

\* t's operation o returned r.
Returns(t, o, r) == result' = [result EXCEPT ![t] = <<o, r>>]

SubTypeOK ==
    /\ exp_live \in [Exports -> BOOLEAN]
    /\ req \in [Threads -> Exports \cup {NoExport}]
    /\ sub_quota \in [Exports -> [Users -> Quotas]]
    /\ state_exp \in [StateIds -> Exports \cup {NoExport}]
    /\ result \in [Threads -> Results]

SubInit ==
    /\ exp_live = [x \in Exports |-> TRUE]
    /\ req = [t \in Threads |-> NoExport]
    /\ sub_quota \in [Exports -> [Users -> Quotas]]
    /\ state_exp = [s \in StateIds |-> NoExport]
    /\ result = [t \in Threads |-> <<"none", NoResult>>]

\* The export cannot be released while a request works on it.  Nothing in
\* the export layer makes a state_t hold its export.
Pinned(x) == \E t \in Threads : req[t] = x

-----------------------------------------------------------------------------

SubBegin(t, x) ==
    /\ req[t] = NoExport
    /\ exp_live[x]
    /\ req' = [req EXCEPT ![t] = x]
    /\ UNCHANGED <<exp_live, sub_quota, state_exp, result>>

SubEnd(t) ==
    /\ req[t] # NoExport
    /\ req' = [req EXCEPT ![t] = NoExport]
    /\ UNCHANGED <<exp_live, sub_quota, state_exp, result>>

SubRelease(x) ==
    /\ exp_live[x]
    /\ ~Pinned(x)
    /\ exp_live' = [exp_live EXCEPT ![x] = FALSE]
    /\ UNCHANGED <<req, sub_quota, state_exp, result>>

SubQuery(t, o) ==
    /\ req[t] # NoExport
    /\ Returns(t, o, Answer(req[t], o))
    /\ UNCHANGED <<exp_live, req, sub_quota, state_exp>>

\* check_quota: is user u within quota; get_quota: u's quota;
\* set_quota: set u's quota to q and return the new quota.
SubCheckQuota(t, u) ==
    /\ req[t] # NoExport
    /\ Returns(t, "check_quota", WithinQuota(sub_quota[req[t]][u] > 0))
    /\ UNCHANGED <<exp_live, req, sub_quota, state_exp>>

SubGetQuota(t, u) ==
    /\ req[t] # NoExport
    /\ Returns(t, "get_quota", QuotaIs(sub_quota[req[t]][u]))
    /\ UNCHANGED <<exp_live, req, sub_quota, state_exp>>

SubSetQuota(t, u, q) ==
    /\ req[t] # NoExport
    /\ sub_quota' = [sub_quota EXCEPT ![req[t]][u] = q]
    /\ Returns(t, "set_quota", QuotaIs(q))
    /\ UNCHANGED <<exp_live, req, state_exp>>

SubAllocState(t, s) ==
    /\ req[t] # NoExport
    /\ state_exp[s] = NoExport
    /\ state_exp' = [state_exp EXCEPT ![s] = req[t]]
    /\ Returns(t, "alloc_state", StateIs(s))
    /\ UNCHANGED <<exp_live, req, sub_quota>>

\* A state is freed by any thread (client expiry frees states outside any
\* request).  Which sub-export serves the call is not part of this view.
SubFreeState(t, s) ==
    /\ state_exp[s] # NoExport
    /\ state_exp' = [state_exp EXCEPT ![s] = NoExport]
    /\ Returns(t, "free_state", Freed)
    /\ UNCHANGED <<exp_live, req, sub_quota>>

SubNext ==
    \/ \E t \in Threads, x \in Exports : SubBegin(t, x)
    \/ \E t \in Threads : SubEnd(t)
    \/ \E x \in Exports : SubRelease(x)
    \/ \E t \in Threads, o \in QueryOps : SubQuery(t, o)
    \/ \E t \in Threads, u \in Users :
          SubCheckQuota(t, u) \/ SubGetQuota(t, u)
    \/ \E t \in Threads, u \in Users, q \in Quotas : SubSetQuota(t, u, q)
    \/ \E t \in Threads, s \in StateIds : SubAllocState(t, s) \/ SubFreeState(t, s)

SubSpec == SubInit /\ [][SubNext]_sub_vars

=============================================================================
