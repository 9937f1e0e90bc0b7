--------------------------- MODULE MCOfflineQueue ---------------------------
(* Model values for the runs of OfflineQueue. *)
EXTENDS OfflineQueue, TLC

QueueSymmetry == Permutations(Msgs) \cup Permutations(Procs)
=============================================================================
