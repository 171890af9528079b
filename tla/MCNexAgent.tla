----------------------------- MODULE MCNexAgent -----------------------------
(***************************************************************************)
(* NexAgent for TLC.                                                       *)
(***************************************************************************)
EXTENDS NexAgent, TLC

=============================================================================
