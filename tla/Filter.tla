------------------------------- MODULE Filter -------------------------------
(***************************************************************************)
(* What is left of a sequence when only some of its elements are kept: the *)
(* mailbox keeps what has not expired, the list of conversations what is   *)
(* no placeholder.                                                         *)
(***************************************************************************)
EXTENDS Naturals, Sequences

(* The elements of s that are in S, in their order: the loop that copies   *)
(* them one by one.                                                        *)
Kept(s, S) ==
    LET f[i \in 0..Len(s)] ==
          IF i = 0 THEN << >>
          ELSE IF s[i] \in S THEN Append(f[i - 1], s[i]) ELSE f[i - 1]
    IN  f[Len(s)]
=============================================================================
