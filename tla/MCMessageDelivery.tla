------------------------- MODULE MCMessageDelivery -------------------------
(* Model values for the runs of MessageDelivery. *)
EXTENDS MessageDelivery, TLC

MsgSymmetry == Permutations(Msgs)
=============================================================================
