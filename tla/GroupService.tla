---------------------------- MODULE GroupService ----------------------------
(***************************************************************************)
(* Group membership and group keys: the group calls of ApiService over     *)
(* SessionManager, GroupManager and GroupDirectory.                        *)
(*                                                                         *)
(* Each of the three keeps its own mutex, so an access is atomic and a     *)
(* call is not: between two accesses of one call other threads (the        *)
(* worker, the host's threads of c_api.cpp) run theirs, sessions end and   *)
(* the clock moves.                                                        *)
(***************************************************************************)
EXTENDS Naturals, Sequences, FiniteSets, SessionTable

CONSTANTS
    Procs,          \* threads inside ApiService
    Tokens, Users,
    UserOf,         \* the user each token's login is for
    Groups,
    Thresholds,     \* threshold arguments of OnGroupMessage; 0 is the default
    GroupThreshold, \* group_threshold_
    VersionMod,     \* 2^32, the values of a key's version
    None,
    MaxNow,         \* bound: ticks of the clock
    MaxKeys         \* bound: keys made for a group, with those in the making

ASSUME GroupAssumption ==
    /\ UserOf \in [Tokens -> Users]
    /\ Thresholds \subseteq Nat
    /\ GroupThreshold \in Nat \ {0}     \* the constructor replaces 0 by 10000
    /\ VersionMod \in Nat \ {0, 1}
    /\ MaxNow \in Nat
    /\ MaxKeys \in Nat
    /\ None \notin Nat

VARIABLES
    withDirectory,  \* whether directory_ was given; it may be null
    sessions, createdAt, drawn, now,    \* SessionManager, steady_clock
    members,    \* GroupDirectory: users of each group
    version,    \* GroupManager: version of each group's key, None if unknown
    count,      \* GroupManager: message_count
    call,       \* the call each thread is inside of
    made,       \* history: versions of the keys made for each group, in order
    used,       \* history: messages counted since the group's last new key
    wasMember,  \* history: threads whose caller was a member during the call
    stray       \* history: messages counted for callers that were not

vars == <<withDirectory, sessions, createdAt, drawn, now, members, version, count, call,
          made, used, wasMember, stray>>

Kinds == {"join", "leave", "kick", "message"}
Steps == {"lookup", "rotate", "again", "addGroup", "addMember", "remove",
          "hasMember", "count", "done"}

Calls == [kind : Kinds, step : Steps, tok : Tokens, grp : Groups,
          threshold : Nat, ok : BOOLEAN]

TypeOK ==
    /\ withDirectory \in BOOLEAN
    /\ sessions \subseteq drawn
    /\ drawn \subseteq Tokens
    /\ createdAt \in [Tokens -> Nat]
    /\ now \in Nat
    /\ members \in [Groups -> SUBSET Users]
    /\ version \in [Groups -> (0..(VersionMod - 1)) \cup {None}]
    /\ count \in [Groups -> Nat]
    /\ call \in [Procs -> Calls \cup {None}]
    /\ made \in [Groups -> Seq(0..(VersionMod - 1))]
    /\ used \in [Groups -> Nat]
    /\ wasMember \subseteq Procs
    /\ stray \subseteq Groups

Init ==
    /\ withDirectory \in BOOLEAN
    /\ sessions = {}
    /\ createdAt = [t \in Tokens |-> 0]
    /\ drawn = {}
    /\ now = 0
    /\ members = [g \in Groups |-> {}]
    /\ version = [g \in Groups |-> None]
    /\ count = [g \in Groups |-> 0]
    /\ call = [p \in Procs |-> None]
    /\ made = [g \in Groups |-> << >>]
    /\ used = [g \in Groups |-> 0]
    /\ wasMember = {}
    /\ stray = {}
-----------------------------------------------------------------------------
(* Sessions *)

groupVars == <<members, version, count, call, made, used, wasMember, stray>>

Login(t) ==
    /\ t \notin drawn
    /\ drawn' = drawn \cup {t}
    /\ sessions' = sessions \cup {t}
    /\ createdAt' = [createdAt EXCEPT ![t] = now]
    /\ UNCHANGED <<now, groupVars>>

Logout(t) ==
    /\ t \in sessions
    /\ sessions' = sessions \ {t}
    /\ UNCHANGED <<createdAt, drawn, now, groupVars>>

Tick ==
    /\ now < MaxNow
    /\ now' = now + 1
    /\ UNCHANGED <<sessions, createdAt, drawn, groupVars>>

LiveSessions == Live(sessions, createdAt, now)
-----------------------------------------------------------------------------
(* Steps of a call *)

User(p)  == UserOf[call[p].tok]
Group(p) == call[p].grp
At(p, kinds, step) ==
    call[p] # None /\ call[p].kind \in kinds /\ call[p].step = step

Goto(p, step) == call' = [call EXCEPT ![p].step = step]
Answer(p, ok) == call' = [call EXCEPT ![p].step = "done", ![p].ok = ok]

(* The bound: a call that may make a key is only begun while there is room. *)
Room(g) ==
    Len(made[g]) + Cardinality({q \in Procs : call[q] # None /\ Group(q) = g})
      < MaxKeys

Begin(p, kind, t, g, threshold) ==
    /\ call[p] = None
    /\ t \in drawn
    /\ t \in LiveSessions => Room(g)
    /\ call' = [call EXCEPT ![p] =
                  [kind |-> kind, step |-> "lookup", tok |-> t, grp |-> g,
                   threshold |-> threshold, ok |-> FALSE]]
    /\ wasMember' = IF UserOf[t] \in members[g]
                    THEN wasMember \cup {p} ELSE wasMember \ {p}
    /\ UNCHANGED <<sessions, createdAt, drawn, now, members, version, count,
                   made, used, stray>>

End(p) ==
    /\ call[p] # None /\ call[p].step = "done"
    /\ call' = [call EXCEPT ![p] = None]
    /\ UNCHANGED <<sessions, createdAt, drawn, now, members, version, count,
                   made, used, wasMember, stray>>

Lookup_NoRotate(p) ==               \* mutant: a join adds without rotating
    /\ At(p, Kinds, "lookup")
    /\ sessions' = AfterGet(sessions, createdAt, now, call[p].tok)
    /\ IF call[p].tok \notin LiveSessions THEN Answer(p, FALSE)
       ELSE Goto(p, IF call[p].kind # "message" THEN "again" ELSE "hasMember")
    /\ UNCHANGED <<createdAt, drawn, now, members, version, count, made, used,
                   wasMember, stray>>

(* The first GetSession of every group call. *)
Lookup(p) ==
    /\ At(p, Kinds, "lookup")
    /\ sessions' = AfterGet(sessions, createdAt, now, call[p].tok)
    /\ IF call[p].tok \notin LiveSessions THEN Answer(p, FALSE)
       ELSE Goto(p, IF call[p].kind # "message" THEN "rotate"
                    ELSE IF withDirectory THEN "hasMember" ELSE "count")
    /\ UNCHANGED <<createdAt, drawn, now, members, version, count, made, used,
                   wasMember, stray>>

NextVersion_Saturating(g) ==        \* mutant: stuck at the largest version
    IF version[g] = None THEN 1
    ELSE IF version[g] = VersionMod - 1 THEN version[g] ELSE version[g] + 1

(* A group never seen starts from version 0, so its first key is 1. *)
NextVersion(g) == IF version[g] = None THEN 1 ELSE (version[g] + 1) % VersionMod

NewKey(g) ==
    /\ version' = [version EXCEPT ![g] = NextVersion(g)]
    /\ made' = [made EXCEPT ![g] = Append(@, NextVersion(g))]
    /\ used' = [used EXCEPT ![g] = 0]
    /\ count' = [count EXCEPT ![g] = 0]

(* GroupManager::Rotate, for a join, a leave or a kick. *)
Rotate(p) ==
    /\ At(p, {"join", "leave", "kick"}, "rotate")
    /\ NewKey(Group(p))
    /\ IF withDirectory THEN Goto(p, "again") ELSE Answer(p, TRUE)
    /\ UNCHANGED <<sessions, createdAt, drawn, now, members, wasMember, stray>>

(* The second GetSession: the call goes on, and succeeds, without it. *)
LookupAgain(p) ==
    /\ At(p, {"join", "leave", "kick"}, "again")
    /\ sessions' = AfterGet(sessions, createdAt, now, call[p].tok)
    /\ IF call[p].tok \notin LiveSessions THEN Answer(p, TRUE)
       ELSE Goto(p, IF call[p].kind = "join" THEN "addGroup" ELSE "remove")
    /\ UNCHANGED <<createdAt, drawn, now, members, version, count, made, used,
                   wasMember, stray>>

(* Which threads' callers are, after a change of group g, members of the   *)
(* group they called about.                                                *)
Witness(g, after) ==
    wasMember' = wasMember \cup
        {q \in Procs : call[q] # None /\ Group(q) = g /\ User(q) \in after}

Add(p, next) ==
    LET g == Group(p) IN
    /\ members' = [members EXCEPT ![g] = @ \cup {User(p)}]
    /\ Witness(g, members'[g])
    /\ next
    /\ UNCHANGED <<sessions, createdAt, drawn, now, version, count, made, used,
                   stray>>

(* AddGroup inserts the caller as owner, AddMember the caller once more. *)
AddGroup(p)  == At(p, {"join"}, "addGroup") /\ Add(p, Goto(p, "addMember"))
AddMember(p) == At(p, {"join"}, "addMember") /\ Add(p, Answer(p, TRUE))

(* Leave and kick both remove the caller. *)
RemoveMember(p) ==
    /\ At(p, {"leave", "kick"}, "remove")
    /\ members' = [members EXCEPT ![Group(p)] = @ \ {User(p)}]
    /\ Answer(p, TRUE)
    /\ UNCHANGED <<sessions, createdAt, drawn, now, version, count, made, used,
                   wasMember, stray>>

HasMember_GroupExists(p) ==         \* mutant: any group with members passes
    /\ At(p, {"message"}, "hasMember")
    /\ IF members[Group(p)] # {} THEN Goto(p, "count")
       ELSE Answer(p, FALSE)
    /\ UNCHANGED <<sessions, createdAt, drawn, now, members, version, count,
                   made, used, wasMember, stray>>

HasMember(p) ==
    /\ At(p, {"message"}, "hasMember")
    /\ IF User(p) \in members[Group(p)] THEN Goto(p, "count")
       ELSE Answer(p, FALSE)
    /\ UNCHANGED <<sessions, createdAt, drawn, now, members, version, count,
                   made, used, wasMember, stray>>

UseThreshold(p) ==
    IF call[p].threshold = 0 THEN GroupThreshold ELSE call[p].threshold

Reached_Equal(n, threshold) == n = threshold    \* mutant: >= becomes =

Reached(n, threshold) == n >= threshold

(* GroupManager::OnMessage on a group it does not know, on one whose       *)
(* threshold is reached, and otherwise.                                    *)
CountUnknown(g) ==
    /\ version[g] = None
    /\ version' = [version EXCEPT ![g] = 1]
    /\ made' = [made EXCEPT ![g] = Append(@, 1)]
    /\ used' = [used EXCEPT ![g] = 1]
    /\ count' = [count EXCEPT ![g] = 1]

CountKnown(g, threshold) ==
    /\ version[g] # None
    /\ IF Reached(count[g] + 1, threshold) THEN NewKey(g)
       ELSE /\ count' = [count EXCEPT ![g] = @ + 1]
            /\ used' = [used EXCEPT ![g] = @ + 1]
            /\ UNCHANGED <<version, made>>

OnMessage(p) ==
    LET g == Group(p) IN
    /\ At(p, {"message"}, "count")
    /\ CountUnknown(g) \/ CountKnown(g, UseThreshold(p))
    /\ stray' = IF p \in wasMember \/ ~withDirectory THEN stray ELSE stray \cup {g}
    /\ Answer(p, TRUE)
    /\ UNCHANGED <<sessions, createdAt, drawn, now, members, wasMember>>

Step(p) ==
    \/ \E kind \in Kinds \ {"message"}, t \in Tokens, g \in Groups :
          Begin(p, kind, t, g, 0)
    \/ \E t \in Tokens, g \in Groups, n \in Thresholds :
          Begin(p, "message", t, g, n)
    \/ Lookup(p)
    \/ Rotate(p)
    \/ LookupAgain(p)
    \/ AddGroup(p)
    \/ AddMember(p)
    \/ RemoveMember(p)
    \/ HasMember(p)
    \/ OnMessage(p)
    \/ End(p)

Next ==
    /\ \/ \E p \in Procs : Step(p)
       \/ \E t \in Tokens : Login(t) \/ Logout(t)
       \/ Tick
    /\ UNCHANGED withDirectory

Spec == Init /\ [][Next]_vars
-----------------------------------------------------------------------------
(* Properties *)

(* Every key a group gets has a version none of its VersionMod - 1 keys    *)
(* before had: two rotations never hand out the same version, whichever    *)
(* threads run them, until the 32-bit version has gone once around.        *)
VersionsDistinct ==
    \A g \in Groups : \A i, j \in 1..Len(made[g]) :
        i < j /\ j - i < VersionMod => made[g][i] # made[g][j]

(* No key is used for more messages than the largest threshold in use      *)
(* allows, concurrent senders and unequal thresholds included; but where   *)
(* there is no directory to ask, the first message of a group that nobody  *)
(* has joined is counted whatever its threshold.                           *)
KeyUseBounded ==
    \A g \in Groups :
        \/ used[g] = 0
        \/ \E n \in Thresholds : used[g] < IF n = 0 THEN GroupThreshold ELSE n
        \/ ~withDirectory /\ made[g] = <<1>> /\ used[g] = 1

(* A group with members is known to GroupManager: JoinGroup rotates before *)
(* it adds, so OnMessage never meets a group without a key.                *)
MembersHaveKey ==
    \A g \in Groups : members[g] # {} => version[g] # None

(* A message is only counted for a caller that was a member at some moment *)
(* of its call, though the caller may have left since HasMember looked.    *)
CountedWereMembers == stray = {}

(* api_service_test.cpp:55-62 expects it of JoinGroup: when a join has     *)
(* succeeded, the group has members.  Stated for a join that no other      *)
(* call of any thread overlaps.                                            *)
JoinMakesMember ==
    \A p \in Procs :
        (/\ withDirectory
         /\ At(p, {"join"}, "done") /\ call[p].ok
         /\ \A q \in Procs \ {p} : call[q] = None)
            => members[Group(p)] # {}
=============================================================================
