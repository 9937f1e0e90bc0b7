------------------------------ MODULE MCFriends ------------------------------
(* Model values for the runs of Friends. *)
EXTENDS Friends, TLC

FriendsSymmetry == Permutations(Procs) \cup Permutations(Users)
=============================================================================
