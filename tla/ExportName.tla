----------------------------- MODULE ExportName -----------------------------
(***************************************************************************)
(* mdcache_get_name (mdcache_export.c, lines 72-77) beside the other       *)
(* export operations of ExportOps.  Every other operation finds its        *)
(* export from the exp_hdl it is given (mdc_export(exp_hdl)); get_name     *)
(* reads mdc_cur_export(), the export of the calling thread's op_ctx, and  *)
(* never looks at exp_hdl.  The name is the export's own field, so the     *)
(* call is one step with no subcall.                                       *)
(***************************************************************************)
EXTENDS ExportOps

\* mdcache_get_name(exp_hdl), called by thread t with the handle of export
\* x: the name of op_ctx's export; with no export in op_ctx the read is of
\* no export at all.
MdcGetName(t, x) ==
    /\ call[t] = NoCall
    /\ exp_live[x]
    /\ Returns(t, "get_name", IF req[t] # NoExport THEN Answer(req[t], "get_name")
                                                  ELSE NoResult)
    /\ UNCHANGED <<exp_live, req, sub_quota, state_exp, call, state_hdl>>

NameNext == Next \/ \E t \in Threads, x \in Exports : MdcGetName(t, x)

NameSpec == Init /\ [][NameNext]_vars

\* get_name returns the name of the export whose handle it was given (its
\* documentation: "@param exp_hdl Our export handle, @return Name of
\* sub-FSAL"), whatever export the calling thread's op_ctx is on.
GetNameOfHandle ==
    [][\A t \in Threads, x \in Exports :
          MdcGetName(t, x) => result'[t] = <<"get_name", Answer(x, "get_name")>>]_vars

=============================================================================
