----------------------------- MODULE RpcAbstract -----------------------------
(***************************************************************************)
(* What encrypted calls promise, with no frames, keys or numbers: the      *)
(* calls of a session run in the order they were issued and at most once;  *)
(* the answers a client accepts are the first ones the server gave, with   *)
(* no gap, so after one lost answer none is accepted any more; and no call *)
(* of a session runs once the session has ended.                           *)
(***************************************************************************)
EXTENDS Naturals

CONSTANT Tokens

VARIABLES
    issued,     \* per session, how many calls the client made
    executed,   \* how many of them, from the first on, the server ran
    answered,   \* how many of those got an answer
    confirmed,  \* how many answers, from the first on, the client accepted
    ended       \* sessions whose calls can no longer run

vars == <<issued, executed, answered, confirmed, ended>>

TypeOK ==
    /\ issued \in [Tokens -> Nat]
    /\ executed \in [Tokens -> Nat]
    /\ answered \in [Tokens -> Nat]
    /\ confirmed \in [Tokens -> Nat]
    /\ ended \subseteq Tokens

Init ==
    /\ issued = [t \in Tokens |-> 0]
    /\ executed = [t \in Tokens |-> 0]
    /\ answered = [t \in Tokens |-> 0]
    /\ confirmed = [t \in Tokens |-> 0]
    /\ ended = {}

Issue(t) ==
    /\ issued' = [issued EXCEPT ![t] = @ + 1]
    /\ UNCHANGED <<executed, answered, confirmed, ended>>

(* A logout ends its session in the step that runs it. *)
Execute(t) ==
    /\ t \notin ended
    /\ executed[t] < issued[t]
    /\ executed' = [executed EXCEPT ![t] = @ + 1]
    /\ answered' \in {answered, [answered EXCEPT ![t] = @ + 1]}
    /\ ended' \in {ended, ended \cup {t}}
    /\ UNCHANGED <<issued, confirmed>>

Confirm(t) ==
    /\ answered[t] = confirmed[t] + 1
    /\ confirmed' = [confirmed EXCEPT ![t] = @ + 1]
    /\ UNCHANGED <<issued, executed, answered, ended>>

End ==
    /\ ended \subseteq ended'
    /\ ended' \subseteq Tokens
    /\ UNCHANGED <<issued, executed, answered, confirmed>>

Next == (\E t \in Tokens : Issue(t) \/ Execute(t) \/ Confirm(t)) \/ End

Spec == Init /\ [][Next]_vars
=============================================================================
