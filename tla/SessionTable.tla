---------------------------- MODULE SessionTable ----------------------------
(***************************************************************************)
(* The table SessionManager keeps: which tokens have a session, and when   *)
(* each was created.  Every access of SessionManager holds one mutex, so   *)
(* an access is one atomic change of the table.  The table is passed in,   *)
(* so the modules that share it (SecureRpc, GroupService) keep it in their *)
(* own variables.                                                          *)
(***************************************************************************)
EXTENDS Naturals

CONSTANT Ttl    \* SessionManager::ttl_, in ticks of the model's clock

ASSUME TtlAssumption == Ttl \in Nat

(* The age test of GetSession and Cleanup; ages are absolute, never renewed. *)
Expired(createdAt, now) == now - createdAt > Ttl

(* The tokens GetSession would answer for. *)
Live(sessions, createdAt, now) ==
    {t \in sessions : ~Expired(createdAt[t], now)}

(* The table after GetSession(t): an expired entry is erased by the lookup. *)
AfterGet(sessions, createdAt, now, t) ==
    IF t \in sessions /\ Expired(createdAt[t], now)
    THEN sessions \ {t}
    ELSE sessions

(* The table after Cleanup(). *)
AfterCleanup(sessions, createdAt, now) == Live(sessions, createdAt, now)
=============================================================================
