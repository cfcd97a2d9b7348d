----------------------------- MODULE MCShutdown -----------------------------
(* The admin thread alone: one halt request at any time, every outcome of *)
(* every stage of do_shutdown.                                             *)
EXTENDS Shutdown, TLC

=============================================================================
