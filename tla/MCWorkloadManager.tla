------------------------- MODULE MCWorkloadManager -------------------------
(* Instances of WorkloadManager for TLC. *)
EXTENDS WorkloadManager, TLC

\* Processes are told apart by nothing, requests by having triggers or not.
Symmetry == Permutations(Procs) \cup Permutations(Reqs \ TriggerReqs)
=============================================================================
