----------------------------- MODULE MCSecureRpc -----------------------------
(* Instances of SecureRpc for TLC. *)
EXTENDS SecureRpc, TLC

(* No definition names a token, and of the run that uses the symmetry no    *)
(* property needs fairness.                                                 *)
TokenSymmetry == Permutations(Tokens)
=============================================================================
