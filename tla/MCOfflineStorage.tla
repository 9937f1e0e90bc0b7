-------------------------- MODULE MCOfflineStorage --------------------------
(* OfflineStorage with interchangeable threads and ids. *)
EXTENDS OfflineStorage, TLC

StorageSymmetry == Permutations(Procs) \cup Permutations(Ids)
=============================================================================
