--------------------------- MODULE MCGroupService ---------------------------
(* Model values for the runs of GroupService. *)
EXTENDS GroupService, TLC

CONSTANTS a1, b1, alice, bob

MCTokens == {a1, b1}
MCUsers  == {alice, bob}
MCUserOf == a1 :> alice @@ b1 :> bob

ProcSymmetry == Permutations(Procs)
=============================================================================
