-------------------------- MODULE GroupServiceProofs --------------------------
(***************************************************************************)
(* GroupService for every number of threads, tokens, users and groups,     *)
(* every threshold, clock and width of a version: a group with members has *)
(* a key, who is counted was a member, keys do not share a version, and no *)
(* key is used beyond its threshold.                                       *)
(***************************************************************************)
EXTENDS GroupService, TLAPS

Versions == 0..(VersionMod - 1)

GroupTypeOK ==
    /\ call \in [Procs -> Calls \cup {None}]
    /\ members \in [Groups -> SUBSET Users]
    /\ version \in [Groups -> Versions \cup {None}]

(* A join that is past its rotation has a group with a key to add to; a    *)
(* caller that is a member has been seen as one; and a message about to be *)
(* counted has passed HasMember, unless there is no directory to ask.      *)
CallOK(p) ==
    call[p] # None =>
       /\ call[p].step \in {"again", "addGroup", "addMember"} =>
             version[Group(p)] # None
       /\ User(p) \in members[Group(p)] => p \in wasMember
       /\ call[p].step = "count" /\ withDirectory => p \in wasMember

GroupInv ==
    /\ GroupTypeOK
    /\ MembersHaveKey
    /\ CountedWereMembers
    /\ \A p \in Procs : CallOK(p)

(* At first there are neither groups nor calls. *)
LEMMA GroupInit == Init => GroupInv
BY DEF Init, GroupInv, GroupTypeOK, MembersHaveKey, CountedWereMembers, CallOK,
       Versions

(* The fields of a call in progress. *)
LEMMA CallFields ==
    ASSUME GroupTypeOK, NEW p \in Procs, call[p] # None
    PROVE  /\ call[p] \in Calls
           /\ Group(p) \in Groups /\ User(p) \in Users
           /\ call[p].tok \in Tokens
BY GroupAssumption DEF GroupTypeOK, Calls, Group, User

(* No version is None. *)
LEMMA NextVersionIs ==
    ASSUME GroupTypeOK, NEW g \in Groups
    PROVE  NextVersion(g) \in Versions /\ NextVersion(g) # None
<1>1. VersionMod \in Nat /\ VersionMod > 1 /\ None \notin Nat
  BY GroupAssumption
<1>2. \A n \in Nat : (n + 1) % VersionMod \in Versions
  BY <1>1 DEF Versions
<1>3. 1 \in Versions
  BY <1>1 DEF Versions
<1>4. version[g] # None => version[g] \in Nat
  BY <1>1 DEF GroupTypeOK, Versions
<1>5. NextVersion(g) \in Versions
  BY <1>2, <1>3, <1>4 DEF NextVersion
<1> QED
  BY <1>1, <1>5 DEF Versions

(* What CallOK of the other threads needs of a step: keys stay, members    *)
(* are added only with their callers' threads, and nothing is unseen.      *)
LEMMA OthersKept ==
    ASSUME GroupInv, NEW p \in Procs, NEW c, call' = [call EXCEPT ![p] = c],
           UNCHANGED withDirectory,
           \A g \in Groups : version[g] # None => version'[g] # None,
           \A q \in Procs \ {p} : q \in wasMember => q \in wasMember',
           \A q \in Procs \ {p} :
              call[q] # None /\ User(q) \in members'[Group(q)] =>
                 User(q) \in members[Group(q)] \/ q \in wasMember',
           CallOK(p)'
    PROVE  \A q \in Procs : CallOK(q)'
<1> SUFFICES ASSUME NEW q \in Procs, q # p, call[q] # None
             PROVE  CallOK(q)'
  BY DEF CallOK, GroupInv, GroupTypeOK
<1>1. call'[q] = call[q] /\ CallOK(q) /\ Group(q) \in Groups
  BY CallFields DEF GroupInv, GroupTypeOK
<1>2. Group(q)' = Group(q) /\ User(q)' = User(q)
  BY <1>1 DEF Group, User
<1> QED
  BY <1>1, <1>2 DEF CallOK

(* A step of a call that only moves it on. *)
LEMMA MoveKeeps ==
    ASSUME GroupInv, NEW p \in Procs, call[p] # None,
           NEW s \in Steps, NEW ok \in BOOLEAN,
           call' = [call EXCEPT ![p].step = s, ![p].ok = ok],
           UNCHANGED <<withDirectory, members, version, wasMember, stray>>,
           s \in {"again", "addGroup", "addMember"} => version[Group(p)] # None,
           s = "count" /\ withDirectory => p \in wasMember
    PROVE  GroupInv'
<1> DEFINE c == [call[p] EXCEPT !.step = s, !.ok = ok]
<1>1. c \in Calls /\ c.tok = call[p].tok /\ c.grp = call[p].grp /\ c.step = s
  BY CallFields DEF GroupInv, Calls
<1>2. call' = [call EXCEPT ![p] = c]
  BY CallFields DEF GroupInv, GroupTypeOK, Calls
<1>3. call'[p] = c
  BY <1>2 DEF GroupInv, GroupTypeOK
<1>4. CallOK(p)'
  <2>1. Group(p)' = Group(p) /\ User(p)' = User(p)
    BY <1>1, <1>3 DEF Group, User
  <2> HIDE DEF c
  <2> QED
    BY <1>1, <1>3, <2>1 DEF CallOK, GroupInv
<1>5. \A q \in Procs : CallOK(q)'
  BY <1>2, <1>4, OthersKept
<1> QED
  BY <1>1, <1>2, <1>5
  DEF GroupInv, GroupTypeOK, MembersHaveKey, CountedWereMembers

(* The same for Goto, which leaves the result alone. *)
LEMMA GotoKeeps ==
    ASSUME GroupInv, NEW p \in Procs, call[p] # None,
           NEW s \in Steps, Goto(p, s),
           UNCHANGED <<withDirectory, members, version, wasMember, stray>>,
           s \in {"again", "addGroup", "addMember"} => version[Group(p)] # None,
           s = "count" /\ withDirectory => p \in wasMember
    PROVE  GroupInv'
<1>1. call[p] \in Calls
  BY CallFields DEF GroupInv
<1>2. /\ call[p].ok \in BOOLEAN
      /\ call' = [call EXCEPT ![p].step = s, ![p].ok = call[p].ok]
  BY <1>1 DEF Goto, Calls
<1> QED
  BY <1>2, MoveKeeps

(* The same for Answer, which ends the call. *)
LEMMA AnswerKeeps ==
    ASSUME GroupInv, NEW p \in Procs, call[p] # None,
           NEW ok \in BOOLEAN, Answer(p, ok),
           UNCHANGED <<withDirectory, members, version, wasMember, stray>>
    PROVE  GroupInv'
<1>1. /\ "done" \in Steps
      /\ "done" \notin {"again", "addGroup", "addMember", "count"}
  BY DEF Steps
<1> QED
  BY <1>1, MoveKeeps DEF Answer

(* The steps that look and go on. *)
LEMMA QuietSteps ==
    ASSUME GroupInv, NEW p \in Procs, UNCHANGED withDirectory,
           Lookup(p) \/ LookupAgain(p) \/ HasMember(p)
    PROVE  GroupInv'
<1> DEFINE live == call[p].tok \in LiveSessions
<1>1. ASSUME NEW ok \in BOOLEAN, Answer(p, ok), call[p] # None,
             UNCHANGED <<members, version, wasMember, stray>>
      PROVE  GroupInv'
  BY <1>1, AnswerKeeps
<1>2. CASE Lookup(p)
  <2>1. call[p] # None /\ UNCHANGED <<members, version, wasMember, stray>>
    BY <1>2 DEF Lookup, At
  <2>2. CASE ~live
    BY <1>1, <1>2, <2>1, <2>2 DEF Lookup
  <2>3. CASE live
    <3>1. PICK s \in {"rotate", "hasMember", "count"} :
             Goto(p, s) /\ (s = "count" => ~withDirectory)
      BY <1>2, <2>3 DEF Lookup
    <3> QED
      BY <2>1, <3>1, GotoKeeps DEF Steps
  <2> QED
    BY <2>2, <2>3
<1>3. CASE LookupAgain(p)
  <2>1. call[p] # None /\ UNCHANGED <<members, version, wasMember, stray>>
    BY <1>3 DEF LookupAgain, At
  <2>2. version[Group(p)] # None
    BY <1>3, <2>1 DEF LookupAgain, At, GroupInv, CallOK
  <2>3. CASE ~live
    BY <1>1, <1>3, <2>1, <2>3 DEF LookupAgain
  <2>4. CASE live
    <3>1. PICK s \in {"addGroup", "remove"} : Goto(p, s)
      BY <1>3, <2>4 DEF LookupAgain
    <3> QED
      BY <2>1, <2>2, <3>1, GotoKeeps DEF Steps
  <2> QED
    BY <2>3, <2>4
<1>4. CASE HasMember(p)
  <2>1. call[p] # None /\ UNCHANGED <<members, version, wasMember, stray>>
    BY <1>4 DEF HasMember, At
  <2>2. CASE User(p) \notin members[Group(p)]
    BY <1>1, <1>4, <2>1, <2>2 DEF HasMember
  <2>3. CASE User(p) \in members[Group(p)]
    <3>1. Goto(p, "count") /\ p \in wasMember
      BY <1>4, <2>1, <2>3 DEF HasMember, GroupInv, CallOK
    <3> QED
      BY <2>1, <3>1, GotoKeeps DEF Steps
  <2> QED
    BY <2>2, <2>3
<1> QED
  BY <1>2, <1>3, <1>4

(* What a new key does to the versions. *)
LEMMA VersionSet ==
    ASSUME GroupTypeOK, NEW g \in Groups, NEW v \in Versions, v # None,
           version' = [version EXCEPT ![g] = v]
    PROVE  /\ version' \in [Groups -> Versions \cup {None}]
           /\ version'[g] # None
           /\ \A h \in Groups : version[h] # None => version'[h] # None
BY DEF GroupTypeOK

(* A step that changes the key of its call's group and moves the call on. *)
LEMMA KeyKeeps ==
    ASSUME GroupInv, NEW p \in Procs, call[p] # None,
           NEW v \in Versions, v # None,
           version' = [version EXCEPT ![Group(p)] = v],
           NEW s \in {"again", "done"}, NEW ok \in BOOLEAN,
           call' = [call EXCEPT ![p].step = s, ![p].ok = ok],
           UNCHANGED <<withDirectory, members, wasMember, stray>>
    PROVE  GroupInv'
<1> DEFINE c == [call[p] EXCEPT !.step = s, !.ok = ok]
<1>1. /\ c \in Calls /\ c.tok = call[p].tok /\ c.grp = call[p].grp /\ c.step = s
      /\ Group(p) \in Groups
  BY CallFields DEF GroupInv, Calls, Steps
<1>2. call' = [call EXCEPT ![p] = c] /\ call'[p] = c
  BY CallFields DEF GroupInv, GroupTypeOK, Calls
<1>3. /\ version' \in [Groups -> Versions \cup {None}]
      /\ version'[Group(p)] # None
      /\ \A h \in Groups : version[h] # None => version'[h] # None
  BY <1>1, VersionSet DEF GroupInv
<1>4. CallOK(p)'
  <2>1. Group(p)' = Group(p) /\ User(p)' = User(p)
    BY <1>1, <1>2 DEF Group, User
  <2> HIDE DEF c
  <2> QED
    BY <1>1, <1>2, <1>3, <2>1 DEF CallOK, GroupInv
<1>5. \A q \in Procs : CallOK(q)'
  BY <1>2, <1>3, <1>4, OthersKept
<1> QED
  BY <1>1, <1>2, <1>3, <1>5
  DEF GroupInv, GroupTypeOK, MembersHaveKey, CountedWereMembers

(* GroupManager::Rotate. *)
LEMMA RotateKeeps ==
    ASSUME GroupInv, NEW p \in Procs, UNCHANGED withDirectory, Rotate(p)
    PROVE  GroupInv'
<1> DEFINE v == NextVersion(Group(p))
<1>1. call[p] # None /\ call[p] \in Calls /\ Group(p) \in Groups
  BY CallFields DEF Rotate, At, GroupInv
<1>2. v \in Versions /\ v # None
  BY <1>1, NextVersionIs DEF GroupInv
<1>3. version' = [version EXCEPT ![Group(p)] = v]
  BY DEF Rotate, NewKey
<1>4. UNCHANGED <<members, wasMember, stray>>
  BY DEF Rotate
<1>5. \E s \in {"again", "done"}, ok \in BOOLEAN :
         call' = [call EXCEPT ![p].step = s, ![p].ok = ok]
  <2>1. CASE withDirectory
    <3>1. call' = [call EXCEPT ![p].step = "again", ![p].ok = call[p].ok]
      BY <1>1, <2>1 DEF Rotate, Goto, Calls
    <3>2. call[p].ok \in BOOLEAN
      BY <1>1 DEF Calls
    <3> QED
      BY <3>1, <3>2
  <2>2. CASE ~withDirectory
    BY <2>2 DEF Rotate, Answer
  <2> QED
    BY <2>1, <2>2
<1> HIDE DEF v
<1> QED
  BY <1>1, <1>2, <1>3, <1>4, <1>5, KeyKeeps

(* GroupManager::OnMessage: it only counts for somebody seen as a member. *)
LEMMA OnMessageKeeps ==
    ASSUME GroupInv, NEW p \in Procs, UNCHANGED withDirectory, OnMessage(p)
    PROVE  GroupInv'
<1> DEFINE g == Group(p)
<1>1. call[p] # None /\ g \in Groups /\ call[p].step = "count"
  BY CallFields DEF OnMessage, At, GroupInv
<1>2. UNCHANGED <<members, wasMember>> /\ Answer(p, TRUE)
  BY DEF OnMessage
<1>3. stray' = stray
  BY <1>1 DEF OnMessage, GroupInv, CallOK
<1>4. CASE UNCHANGED version
  BY <1>1, <1>2, <1>3, <1>4, AnswerKeeps
<1>5. ASSUME NEW v \in Versions, v # None, version' = [version EXCEPT ![g] = v]
      PROVE  GroupInv'
  BY <1>1, <1>2, <1>3, <1>5, KeyKeeps DEF Answer
<1>6. CASE CountUnknown(g)
  <2>1. 1 \in Versions /\ 1 # None
    BY GroupAssumption DEF Versions
  <2> QED
    BY <1>5, <1>6, <2>1 DEF CountUnknown
<1>7. CASE CountKnown(g, UseThreshold(p))
  <2>1. NextVersion(g) \in Versions /\ NextVersion(g) # None
    BY <1>1, NextVersionIs DEF GroupInv
  <2> QED
    BY <1>4, <1>5, <1>7, <2>1 DEF CountKnown, NewKey
<1> QED
  BY <1>6, <1>7 DEF OnMessage

(* Members are only added to a group with a key, and every thread whose    *)
(* caller becomes a member is seen to.                                     *)
LEMMA AddKeeps ==
    ASSUME GroupInv, NEW p \in Procs, UNCHANGED withDirectory,
           AddGroup(p) \/ AddMember(p)
    PROVE  GroupInv'
<1> DEFINE g == Group(p)
<1>1. /\ call[p] # None /\ g \in Groups /\ User(p) \in Users
      /\ call[p] \in Calls /\ version[g] # None
  BY CallFields DEF AddGroup, AddMember, At, GroupInv, CallOK
<1>2. /\ members' = [members EXCEPT ![g] = @ \cup {User(p)}]
      /\ wasMember' = wasMember \cup
            {q \in Procs : /\ call[q] # None /\ Group(q) = g
                           /\ User(q) \in members'[g]}
      /\ UNCHANGED <<version, stray>>
  BY DEF AddGroup, AddMember, Add, Witness
<1>3. PICK s \in {"addMember", "done"}, ok \in BOOLEAN :
         call' = [call EXCEPT ![p].step = s, ![p].ok = ok]
  <2>1. CASE AddGroup(p)
    <3>1. Goto(p, "addMember") /\ call[p].ok \in BOOLEAN
      BY <1>1, <2>1 DEF AddGroup, Add, Calls
    <3>2. call' = [call EXCEPT ![p].step = "addMember", ![p].ok = call[p].ok]
      BY <1>1, <3>1 DEF Goto, Calls
    <3> QED
      BY <3>1, <3>2
  <2>2. CASE AddMember(p)
    BY <2>2 DEF AddMember, Add, Answer
  <2> QED
    BY <2>1, <2>2
<1> DEFINE c == [call[p] EXCEPT !.step = s, !.ok = ok]
<1>4. c \in Calls /\ c.tok = call[p].tok /\ c.grp = call[p].grp /\ c.step = s
  BY <1>1 DEF Calls, Steps
<1>5. call' = [call EXCEPT ![p] = c] /\ call'[p] = c
  BY <1>1, <1>3 DEF GroupInv, GroupTypeOK, Calls
<1>6. /\ members' \in [Groups -> SUBSET Users]
      /\ \A h \in Groups : h # g => members'[h] = members[h]
  BY <1>1, <1>2 DEF GroupInv, GroupTypeOK
<1>7. \A q \in Procs : call[q] # None /\ User(q) \in members'[Group(q)] =>
         User(q) \in members[Group(q)] \/ q \in wasMember'
  <2> SUFFICES ASSUME NEW q \in Procs, call[q] # None,
                      User(q) \in members'[Group(q)]
               PROVE  User(q) \in members[Group(q)] \/ q \in wasMember'
    OBVIOUS
  <2>1. Group(q) \in Groups
    BY CallFields DEF GroupInv
  <2>2. CASE Group(q) = g
    BY <1>2, <2>2
  <2>3. CASE Group(q) # g
    BY <1>6, <2>1, <2>3
  <2> QED
    BY <2>2, <2>3
<1>8. CallOK(p)'
  <2>1. Group(p)' = g /\ User(p)' = User(p)
    BY <1>4, <1>5 DEF Group, User
  <2>2. User(p) \in members'[g] => p \in wasMember'
    BY <1>1, <1>2
  <2> HIDE DEF c, g
  <2> QED
    BY <1>1, <1>2, <1>4, <1>5, <2>1, <2>2 DEF CallOK
<1>9. wasMember \subseteq wasMember'
  BY <1>2
<1>10. \A q \in Procs : CallOK(q)'
  BY <1>2, <1>5, <1>7, <1>8, <1>9, OthersKept
<1>11. GroupTypeOK'
  BY <1>2, <1>4, <1>5, <1>6 DEF GroupInv, GroupTypeOK
<1>12. MembersHaveKey'
  BY <1>1, <1>2, <1>6 DEF GroupInv, MembersHaveKey
<1> QED
  BY <1>2, <1>10, <1>11, <1>12 DEF GroupInv, CountedWereMembers

(* A thread's caller may cease to be a member: it has been seen as one. *)
LEMMA RemoveKeeps ==
    ASSUME GroupInv, NEW p \in Procs, UNCHANGED withDirectory, RemoveMember(p)
    PROVE  GroupInv'
<1> DEFINE g == Group(p)
           c == [call[p] EXCEPT !.step = "done", !.ok = TRUE]
<1>1. call[p] # None /\ g \in Groups /\ call[p] \in Calls
  BY CallFields DEF RemoveMember, At, GroupInv
<1>2. /\ members' = [members EXCEPT ![g] = @ \ {User(p)}]
      /\ call' = [call EXCEPT ![p].step = "done", ![p].ok = TRUE]
      /\ UNCHANGED <<version, wasMember, stray>>
  BY DEF RemoveMember, Answer
<1>3. /\ members' \in [Groups -> SUBSET Users]
      /\ \A h \in Groups : members'[h] \subseteq members[h]
  BY <1>1, <1>2 DEF GroupInv, GroupTypeOK
<1>4. c \in Calls /\ c.tok = call[p].tok /\ c.grp = call[p].grp /\ c.step = "done"
  BY <1>1 DEF Calls, Steps
<1>5. call' = [call EXCEPT ![p] = c] /\ call'[p] = c
  BY <1>1, <1>2 DEF GroupInv, GroupTypeOK, Calls
<1>6. \A q \in Procs : call[q] # None => Group(q) \in Groups
  BY CallFields DEF GroupInv
<1>7. CallOK(p)'
  <2>1. Group(p)' = g /\ User(p)' = User(p)
    BY <1>4, <1>5 DEF Group, User
  <2>2. User(p) \in members'[g] => p \in wasMember'
    BY <1>1, <1>2, <1>3 DEF GroupInv, CallOK
  <2> HIDE DEF c, g
  <2> QED
    BY <1>4, <1>5, <2>1, <2>2 DEF CallOK
<1>8. \A q \in Procs : CallOK(q)'
  BY <1>2, <1>3, <1>5, <1>6, <1>7, OthersKept
<1> QED
  BY <1>2, <1>3, <1>4, <1>5, <1>8
  DEF GroupInv, GroupTypeOK, MembersHaveKey, CountedWereMembers

(* A call begins for a caller that is a member or is not. *)
LEMMA BeginKeeps ==
    ASSUME GroupInv, NEW p \in Procs, UNCHANGED withDirectory,
           NEW kind \in Kinds, NEW t \in Tokens, NEW g \in Groups,
           NEW n \in Nat, Begin(p, kind, t, g, n)
    PROVE  GroupInv'
<1> DEFINE c == [kind |-> kind, step |-> "lookup", tok |-> t, grp |-> g,
                 threshold |-> n, ok |-> FALSE]
<1>1. c \in Calls /\ c.tok = t /\ c.grp = g /\ c.step = "lookup"
  BY DEF Calls, Steps
<1>2. /\ call' = [call EXCEPT ![p] = c]
      /\ UNCHANGED <<members, version, stray>>
      /\ wasMember' = IF UserOf[t] \in members[g]
                      THEN wasMember \cup {p} ELSE wasMember \ {p}
  BY DEF Begin
<1>3. call'[p] = c
  BY <1>2 DEF GroupInv, GroupTypeOK
<1>4. CallOK(p)'
  <2>1. Group(p)' = g /\ User(p)' = UserOf[t]
    BY <1>1, <1>3 DEF Group, User
  <2> HIDE DEF c
  <2> QED
    BY <1>1, <1>2, <1>3, <2>1 DEF CallOK
<1>5. \A q \in Procs : CallOK(q)'
  BY <1>2, <1>4, OthersKept
<1> QED
  BY <1>1, <1>2, <1>5
  DEF GroupInv, GroupTypeOK, MembersHaveKey, CountedWereMembers

(* A call returns. *)
LEMMA EndKeeps ==
    ASSUME GroupInv, NEW p \in Procs, UNCHANGED withDirectory, End(p)
    PROVE  GroupInv'
<1>1. /\ call' = [call EXCEPT ![p] = None]
      /\ UNCHANGED <<members, version, wasMember, stray>>
  BY DEF End
<1>2. CallOK(p)'
  BY <1>1 DEF CallOK, GroupInv, GroupTypeOK
<1>3. \A q \in Procs : CallOK(q)'
  BY <1>1, <1>2, OthersKept
<1> QED
  BY <1>1, <1>3
  DEF GroupInv, GroupTypeOK, MembersHaveKey, CountedWereMembers

(* One step of a group call. *)
LEMMA StepKeeps ==
    ASSUME GroupInv, NEW p \in Procs, UNCHANGED withDirectory, Step(p)
    PROVE  GroupInv'
<1>1. ASSUME NEW kind \in Kinds, NEW t \in Tokens, NEW g \in Groups, NEW n \in Nat,
             Begin(p, kind, t, g, n)
      PROVE  GroupInv'
  BY <1>1, BeginKeeps
<1>2. CASE \E kind \in Kinds \ {"message"}, t \in Tokens, g \in Groups :
              Begin(p, kind, t, g, 0)
  BY <1>1, <1>2
<1>3. CASE \E t \in Tokens, g \in Groups, n \in Thresholds :
              Begin(p, "message", t, g, n)
  BY <1>1, <1>3, GroupAssumption DEF Kinds
<1> QED
  BY <1>2, <1>3, QuietSteps, RotateKeeps, AddKeeps, RemoveKeeps, OnMessageKeeps,
     EndKeeps DEF Step

(* The invariant, for every interleaving of calls, logins and the clock. *)
THEOREM GroupsSafe == Spec => []GroupInv
<1>1. ASSUME GroupInv, UNCHANGED <<withDirectory, groupVars>>
      PROVE  GroupInv'
  BY <1>1 DEF groupVars, GroupInv, GroupTypeOK, MembersHaveKey,
              CountedWereMembers, CallOK, Group, User
<1>2. GroupInv /\ [Next]_vars => GroupInv'
  <2> SUFFICES ASSUME GroupInv, [Next]_vars PROVE GroupInv'
    OBVIOUS
  <2>1. ASSUME NEW p \in Procs, Step(p), UNCHANGED withDirectory
        PROVE  GroupInv'
    BY <2>1, StepKeeps
  <2>2. ASSUME NEW t \in Tokens, Login(t) \/ Logout(t), UNCHANGED withDirectory
        PROVE  GroupInv'
    BY <1>1, <2>2 DEF Login, Logout
  <2>3. CASE Tick /\ UNCHANGED withDirectory
    BY <1>1, <2>3 DEF Tick
  <2>4. CASE UNCHANGED vars
    BY <1>1, <2>4 DEF vars, groupVars
  <2> QED
    BY <2>1, <2>2, <2>3, <2>4 DEF Next
<1> QED
  BY GroupInit, <1>2, PTL DEF Spec

(* JoinGroup rotates before it adds: whatever the threads and however      *)
(* sessions end meanwhile, a group with members has a key.                 *)
THEOREM MembersKeyed == Spec => []MembersHaveKey
<1>1. GroupInv => MembersHaveKey
  BY DEF GroupInv
<1> QED
  BY <1>1, GroupsSafe, PTL

(* OnGroupMessage counts for callers that were members during the call. *)
THEOREM CountedMembers == Spec => []CountedWereMembers
<1>1. GroupInv => CountedWereMembers
  BY DEF GroupInv
<1> QED
  BY <1>1, GroupsSafe, PTL

-----------------------------------------------------------------------------
(* Versions.  Remainders by a modulus that is a parameter: *)

(* A remainder is found by giving the quotient. *)
LEMMA ModUnique ==
    ASSUME NEW V \in Nat, V > 1, NEW n \in Nat, NEW q \in Nat,
           NEW r \in 0..(V - 1), n = V * q + r
    PROVE  n % V = r
BY Z3

(* Every number has a quotient and a remainder. *)
LEMMA ModSplit ==
    ASSUME NEW V \in Nat, V > 1, NEW n \in Nat
    PROVE  n % V \in 0..(V - 1) /\ \E q \in Nat : n = V * q + (n % V)
<1>1. n % V \in 0..(V - 1)
  BY Z3
<1>2. n \div V \in Nat /\ n = V * (n \div V) + (n % V)
  BY Z3
<1> QED
  BY <1>1, <1>2

(* The remainder of the next number. *)
LEMMA ModNext ==
    ASSUME NEW V \in Nat, V > 1, NEW n \in Nat
    PROVE  ((n % V) + 1) % V = (n + 1) % V
<1> DEFINE r == n % V
<1>1. PICK q \in Nat : n = V * q + r
  BY ModSplit
<1>2. r \in 0..(V - 1)
  BY ModSplit
<1> HIDE DEF r
<1>3. CASE r + 1 < V
  <2>1. /\ n + 1 = V * q + (r + 1) /\ r + 1 = V * 0 + (r + 1)
        /\ r + 1 \in 0..(V - 1)
    BY <1>1, <1>2, <1>3
  <2> DEFINE s == r + 1
  <2>2. \A m, k \in Nat : m = V * k + s => m % V = s
    BY <2>1, ModUnique
  <2>3. n + 1 \in Nat /\ s \in Nat /\ 0 \in Nat
    BY <1>2
  <2>4. (n + 1) % V = s /\ s % V = s
    BY <2>1, <2>2, <2>3
  <2> QED
    BY <2>4 DEF r
<1>4. CASE r + 1 = V
  <2>1. V * (q + 1) = V * q + V /\ V = V * 1
    OBVIOUS
  <2>2. n + 1 = V * (q + 1) + 0 /\ V = V * 1 + 0
    BY <1>1, <1>2, <1>4, <2>1
  <2>3. 0 \in 0..(V - 1)
    OBVIOUS
  <2>4. \A m, k \in Nat : m = V * k + 0 => m % V = 0
    BY <2>3, ModUnique
  <2>5. n + 1 \in Nat /\ q + 1 \in Nat /\ 1 \in Nat
    OBVIOUS
  <2>6. (n + 1) % V = 0 /\ V % V = 0
    BY <2>2, <2>4, <2>5
  <2> QED
    BY <2>6, <1>4 DEF r
<1> QED
  BY <1>2, <1>3, <1>4

(* Numbers less than V apart have different remainders. *)
LEMMA ModDistinct ==
    ASSUME NEW V \in Nat, V > 1, NEW i \in Nat, NEW j \in Nat, i < j, j - i < V
    PROVE  i % V # j % V
<1> SUFFICES ASSUME i % V = j % V PROVE FALSE
  OBVIOUS
<1> DEFINE r == i % V
<1>1. PICK a \in Nat : i = V * a + r
  BY ModSplit
<1>2. PICK b \in Nat : j = V * b + r
  BY ModSplit
<1>3. r \in 0..(V - 1)
  BY ModSplit
<1> HIDE DEF r
<1>4. j - i = V * (b - a)
  BY <1>1, <1>2, <1>3
<1>5. CASE b <= a
  <2>1. V * (a - b) >= 0
    BY <1>5
  <2> QED
    BY <1>4, <2>1, <1>5
<1>6. CASE b > a
  <2>1. V * (b - a - 1) >= 0
    BY <1>6
  <2>2. V * (b - a) = V * (b - a - 1) + V
    OBVIOUS
  <2> QED
    BY <1>4, <2>1, <2>2
<1> QED
  BY <1>5, <1>6

(* The keys of a group are counted by their versions, modulo VersionMod. *)
VersionInv ==
    /\ GroupTypeOK
    /\ made \in [Groups -> Seq(Nat)]
    /\ \A g \in Groups :
          /\ version[g] = None => made[g] = << >>
          /\ version[g] # None => version[g] = Len(made[g]) % VersionMod
          /\ \A i \in 1..Len(made[g]) : made[g][i] = i % VersionMod

(* The next version is that of the next key. *)
LEMMA VersionFollows ==
    ASSUME VersionInv, NEW g \in Groups
    PROVE  /\ NextVersion(g) = (Len(made[g]) + 1) % VersionMod
           /\ NextVersion(g) \in Nat /\ NextVersion(g) # None
<1>1. VersionMod \in Nat /\ VersionMod > 1
  BY GroupAssumption
<1>2. NextVersion(g) \in Versions /\ NextVersion(g) # None
  BY NextVersionIs DEF VersionInv
<1>3. CASE version[g] = None
  <2>1. Len(made[g]) = 0 /\ NextVersion(g) = 1
    BY <1>3 DEF VersionInv, NextVersion
  <2>2. 1 = VersionMod * 0 + 1 /\ 1 \in 0..(VersionMod - 1)
    BY <1>1
  <2>3. 1 % VersionMod = 1
    BY <1>1, <2>2, ModUnique
  <2> QED
    BY <1>1, <1>2, <2>1, <2>3 DEF Versions
<1>4. CASE version[g] # None
  <2>1. Len(made[g]) \in Nat
    BY DEF VersionInv
  <2>2. NextVersion(g) = ((Len(made[g]) % VersionMod) + 1) % VersionMod
    BY <1>4 DEF VersionInv, NextVersion
  <2>3. ((Len(made[g]) % VersionMod) + 1) % VersionMod
          = (Len(made[g]) + 1) % VersionMod
    BY <1>1, <2>1, ModNext
  <2>4. NextVersion(g) \in Nat
    BY <1>1, <1>2 DEF Versions
  <2> QED
    BY <1>2, <2>2, <2>3, <2>4
<1> QED
  BY <1>3, <1>4

(* A new key keeps the count. *)
LEMMA NewKeyFollows ==
    ASSUME VersionInv, NEW g \in Groups, NEW v \in Nat, GroupTypeOK',
           v = NextVersion(g),
           version' = [version EXCEPT ![g] = v],
           made' = [made EXCEPT ![g] = Append(@, v)]
    PROVE  VersionInv'
<1> DEFINE n == Len(made[g]) + 1
<1>1. v = n % VersionMod /\ v # None
  BY VersionFollows
<1>2. made[g] \in Seq(Nat) /\ n \in Nat
  BY DEF VersionInv
<1>3. Append(made[g], v) \in Seq(Nat) /\ Len(Append(made[g], v)) = n
  BY <1>2
<1>4. \A i \in 1..n : Append(made[g], v)[i] = i % VersionMod
  BY <1>1, <1>2 DEF VersionInv
<1>5. made' \in [Groups -> Seq(Nat)] /\ made'[g] = Append(made[g], v)
  BY <1>3 DEF VersionInv
<1>6. ASSUME NEW h \in Groups, h # g
      PROVE  made'[h] = made[h] /\ version'[h] = version[h]
  BY <1>6 DEF VersionInv, GroupTypeOK
<1>7. version'[g] = v
  BY DEF VersionInv, GroupTypeOK
<1> HIDE DEF n
<1>8. ASSUME NEW h \in Groups
      PROVE  /\ version'[h] = None => made'[h] = << >>
             /\ version'[h] # None => version'[h] = Len(made'[h]) % VersionMod
             /\ \A i \in 1..Len(made'[h]) : made'[h][i] = i % VersionMod
  <2>1. CASE h = g
    BY <1>1, <1>3, <1>4, <1>5, <1>7, <2>1
  <2>2. CASE h # g
    BY <1>6, <2>2 DEF VersionInv
  <2> QED
    BY <2>1, <2>2
<1> QED
  BY <1>5, <1>8 DEF VersionInv

(* The invariant, whichever threads make the keys. *)
LEMMA VersionInvAlways == Spec => []VersionInv
<1>1. Init => VersionInv
  BY GroupInit DEF Init, GroupInv, VersionInv
<1>2. ASSUME VersionInv, GroupTypeOK', UNCHANGED <<version, made>>
      PROVE  VersionInv'
  BY <1>2 DEF VersionInv
<1>3. VersionInv /\ GroupTypeOK' /\ [Next]_vars => VersionInv'
  <2> SUFFICES ASSUME VersionInv, GroupTypeOK', [Next]_vars PROVE VersionInv'
    OBVIOUS
  <2>1. ASSUME NEW g \in Groups, NewKey(g)
        PROVE  VersionInv'
    BY <2>1, VersionFollows, NewKeyFollows DEF NewKey
  <2>2. ASSUME NEW p \in Procs, Step(p)
        PROVE  VersionInv'
    <3>1. call[p] # None => Group(p) \in Groups
      BY CallFields DEF VersionInv
    <3>2. CASE Rotate(p)
      BY <2>1, <3>1, <3>2 DEF Rotate, At
    <3>3. CASE OnMessage(p)
      <4> DEFINE g == Group(p)
      <4>1. g \in Groups
        BY <3>1, <3>3 DEF OnMessage, At
      <4>2. CASE CountUnknown(g)
        <5>1. NextVersion(g) = 1
          BY <4>2 DEF CountUnknown, NextVersion
        <5> QED
          BY <4>1, <4>2, <5>1, NewKeyFollows DEF CountUnknown
      <4>3. CASE CountKnown(g, UseThreshold(p))
        BY <1>2, <2>1, <4>1, <4>3 DEF CountKnown
      <4> QED
        BY <3>3, <4>2, <4>3 DEF OnMessage
    <3>4. CASE ~Rotate(p) /\ ~OnMessage(p)
      <4>1. UNCHANGED <<version, made>>
        BY <2>2, <3>4 DEF Step, Begin, Lookup, LookupAgain, AddGroup, AddMember,
                          Add, RemoveMember, HasMember, End
      <4> QED
        BY <1>2, <4>1
    <3> QED
      BY <3>2, <3>3, <3>4
  <2>3. ASSUME NEW t \in Tokens, Login(t) \/ Logout(t)
        PROVE  VersionInv'
    BY <1>2, <2>3 DEF Login, Logout, groupVars
  <2>4. CASE Tick
    BY <1>2, <2>4 DEF Tick, groupVars
  <2>5. CASE UNCHANGED vars
    BY <1>2, <2>5 DEF vars
  <2> QED
    BY <2>2, <2>3, <2>4, <2>5 DEF Next
<1>4. GroupInv => GroupTypeOK
  BY DEF GroupInv
<1> QED
  BY <1>1, <1>3, <1>4, GroupsSafe, PTL DEF Spec

(* Two keys of a group less than VersionMod keys apart never share their   *)
(* version, whichever threads make them.                                   *)
THEOREM VersionsSafe == Spec => []VersionsDistinct
<1>1. VersionInv => VersionsDistinct
  <2> SUFFICES ASSUME VersionInv, NEW g \in Groups,
                      NEW i \in 1..Len(made[g]), NEW j \in 1..Len(made[g]),
                      i < j, j - i < VersionMod
               PROVE  made[g][i] # made[g][j]
    BY DEF VersionsDistinct
  <2>1. made[g][i] = i % VersionMod /\ made[g][j] = j % VersionMod
    BY DEF VersionInv
  <2>2. Len(made[g]) \in Nat /\ VersionMod \in Nat /\ VersionMod > 1
    BY GroupAssumption DEF VersionInv
  <2>3. i \in Nat /\ j \in Nat
    BY <2>2
  <2> QED
    BY <2>1, <2>2, <2>3, ModDistinct
<1> QED
  BY <1>1, VersionInvAlways, PTL
-----------------------------------------------------------------------------
(* How often a key is used.  A call's threshold is one of those in use,    *)
(* and a message that passed HasMember is for a group with a key.          *)
UseCallOK(p) ==
    call[p] # None =>
       /\ call[p].kind = "message" => call[p].threshold \in Thresholds
       /\ call[p].step = "count" /\ withDirectory => version[Group(p)] # None

(* message_count is the number of messages since the last new key. *)
UseInv ==
    /\ count \in [Groups -> Nat]
    /\ used = count
    /\ KeyUseBounded
    /\ \A p \in Procs : UseCallOK(p)

(* The part of UseInv that steps without a new key and a message leave. *)
LEMMA UseStays ==
    ASSUME UseInv, UNCHANGED <<withDirectory, count, used, made>>,
           \A p \in Procs : UseCallOK(p)'
    PROVE  UseInv'
BY DEF UseInv, KeyUseBounded

(* A step of one thread leaves the other threads' calls alone. *)
LEMMA UseOthers ==
    ASSUME GroupInv, UseInv, NEW p \in Procs, NEW c, call' = [call EXCEPT ![p] = c],
           UNCHANGED withDirectory,
           \A g \in Groups : version[g] # None => version'[g] # None,
           c # None =>
              /\ c.kind = "message" => c.threshold \in Thresholds
              /\ c.step = "count" /\ withDirectory => version'[c.grp] # None
    PROVE  \A q \in Procs : UseCallOK(q)'
<1> SUFFICES ASSUME NEW q \in Procs, call'[q] # None
             PROVE  UseCallOK(q)'
  BY DEF UseCallOK
<1>1. CASE q = p
  <2>1. call'[q] = c
    BY <1>1 DEF GroupInv, GroupTypeOK
  <2> QED
    BY <2>1 DEF UseCallOK, Group
<1>2. CASE q # p
  <2>1. call'[q] = call[q]
    BY <1>2 DEF GroupInv, GroupTypeOK
  <2>2. UseCallOK(q) /\ Group(q) \in Groups
    BY <2>1, CallFields DEF UseInv, GroupInv
  <2> QED
    BY <2>1, <2>2 DEF UseCallOK, Group
<1> QED
  BY <1>1, <1>2

(* A thread moves on in its call. *)
MovesTo(p, s) == \E ok : call' = [call EXCEPT ![p].step = s, ![p].ok = ok]

LEMMA UseGoto ==
    ASSUME GroupInv, NEW p \in Procs, call[p] # None, NEW s, Goto(p, s)
    PROVE  MovesTo(p, s)
<1>1. call' = [call EXCEPT ![p].step = s, ![p].ok = call[p].ok]
  BY CallFields DEF Goto, GroupInv, Calls
<1> QED
  BY <1>1 DEF MovesTo

LEMMA UseAnswer ==
    ASSUME NEW p, NEW ok, Answer(p, ok)
    PROVE  MovesTo(p, "done")
BY Zenon DEF Answer, MovesTo

(* Only a message with a key to count for goes to "count". *)
LEMMA UseMoves ==
    ASSUME GroupInv, UseInv, NEW p \in Procs, call[p] # None, NEW s,
           MovesTo(p, s),
           UNCHANGED withDirectory,
           \A g \in Groups : version[g] # None => version'[g] # None,
           s = "count" /\ withDirectory => version'[Group(p)] # None
    PROVE  \A q \in Procs : UseCallOK(q)'
<1> PICK ok : call' = [call EXCEPT ![p].step = s, ![p].ok = ok]
  BY Zenon DEF MovesTo
<1>1. PICK c : c = [call[p] EXCEPT !.step = s, !.ok = ok]
  OBVIOUS
<1>2. /\ c.kind = call[p].kind /\ c.threshold = call[p].threshold
      /\ c.step = s /\ c.grp = Group(p)
  BY <1>1, CallFields DEF GroupInv, Calls, Group
<1>3. call' = [call EXCEPT ![p] = c]
  BY <1>1, CallFields DEF GroupInv, GroupTypeOK, Calls
<1>4. call[p].kind = "message" => call[p].threshold \in Thresholds
  BY DEF UseInv, UseCallOK
<1>5. /\ c.kind = "message" => c.threshold \in Thresholds
      /\ c.step = "count" /\ withDirectory => version'[c.grp] # None
  BY <1>2, <1>4
<1> QED
  BY <1>3, <1>5, UseOthers

(* A new key is used for nothing yet. *)
LEMMA UseOfNewKey ==
    ASSUME UseInv, NEW g \in Groups, made \in [Groups -> Seq(Nat)], NewKey(g),
           UNCHANGED withDirectory
    PROVE  count' \in [Groups -> Nat] /\ used' = count' /\ KeyUseBounded'
<1>1. count' \in [Groups -> Nat] /\ used' = count'
  BY DEF NewKey, UseInv
<1>2. ASSUME NEW h \in Groups
      PROVE  \/ used'[h] = 0
             \/ made'[h] = made[h] /\ used'[h] = used[h]
  BY DEF NewKey, UseInv
<1> QED
  BY <1>1, <1>2 DEF KeyUseBounded, UseInv

(* OnMessage on an unknown group, and on a known one. *)
LEMMA UseOfMessage ==
    ASSUME GroupInv, VersionInv, UseInv, NEW p \in Procs, OnMessage(p),
           UNCHANGED withDirectory
    PROVE  count' \in [Groups -> Nat] /\ used' = count' /\ KeyUseBounded'
<1> DEFINE n == UseThreshold(p)
<1>1. PICK g \in Groups : g = Group(p)
  BY CallFields DEF OnMessage, At, GroupInv
<1>2. /\ call[p] # None /\ call[p].kind = "message" /\ call[p].step = "count"
      /\ CountUnknown(g) \/ CountKnown(g, n)
  BY <1>1 DEF OnMessage, At
<1>3. /\ made \in [Groups -> Seq(Nat)] /\ used \in [Groups -> Nat] /\ used = count
  BY DEF VersionInv, UseInv
<1>4. CASE CountUnknown(g)
  <2>1. ~withDirectory /\ made[g] = << >>
    BY <1>1, <1>2, <1>4 DEF CountUnknown, UseInv, UseCallOK, VersionInv
  <2>2. /\ used' = [used EXCEPT ![g] = 1] /\ count' = [count EXCEPT ![g] = 1]
        /\ made' = [made EXCEPT ![g] = Append(@, 1)]
    BY <1>4 DEF CountUnknown
  <2>3. /\ used'[g] = 1 /\ made'[g] = <<1>>
        /\ \A h \in Groups \ {g} : used'[h] = used[h] /\ made'[h] = made[h]
    BY <1>3, <2>1, <2>2
  <2>4. KeyUseBounded'
    BY <2>1, <2>3 DEF KeyUseBounded, UseInv
  <2> QED
    BY <1>3, <2>2, <2>4
<1>5. CASE CountKnown(g, n)
  <2>1. CASE NewKey(g)
    BY <1>3, <2>1, UseOfNewKey
  <2>2. CASE ~NewKey(g)
    <3>1. /\ count[g] + 1 < n
          /\ count' = [count EXCEPT ![g] = @ + 1] /\ used' = [used EXCEPT ![g] = @ + 1]
          /\ UNCHANGED made
      <4>1. n \in Nat
        BY <1>2, GroupAssumption DEF UseInv, UseCallOK, UseThreshold
      <4> QED
        BY <1>3, <1>5, <2>2, <4>1 DEF CountKnown, Reached
    <3>2. /\ used'[g] = count[g] + 1
          /\ \A h \in Groups \ {g} : used'[h] = used[h] /\ made'[h] = made[h]
      BY <1>3, <3>1
    <3>3. call[p].threshold \in Thresholds
      BY <1>2 DEF UseInv, UseCallOK
    <3>4. \E t \in Thresholds : used'[g] < IF t = 0 THEN GroupThreshold ELSE t
      BY <3>1, <3>2, <3>3 DEF UseThreshold
    <3>5. KeyUseBounded'
      BY <3>2, <3>4 DEF KeyUseBounded, UseInv
    <3> QED
      BY <1>3, <3>1, <3>5
  <2> QED
    BY <2>1, <2>2
<1> QED
  BY <1>2, <1>4, <1>5

LEMMA UseStep ==
    ASSUME GroupInv, VersionInv, UseInv, NEW p \in Procs, Step(p),
           UNCHANGED withDirectory
    PROVE  UseInv'
<1>1. /\ made \in [Groups -> Seq(Nat)] /\ count \in [Groups -> Nat] /\ used = count
      /\ GroupTypeOK
  BY DEF VersionInv, UseInv, GroupInv
<1>2. ASSUME UNCHANGED version PROVE \A g \in Groups : version[g] # None => version'[g] # None
  BY <1>2
<1>3. ASSUME NEW g \in Groups, NewKey(g)
      PROVE  \A h \in Groups : version[h] # None => version'[h] # None
  BY <1>1, <1>3, NextVersionIs DEF NewKey, GroupTypeOK
<1>4. ASSUME NEW kind \in Kinds, NEW t \in Tokens, NEW g \in Groups, NEW n,
             Begin(p, kind, t, g, n), kind = "message" => n \in Thresholds
      PROVE  UseInv'
  <2>1. /\ call' = [call EXCEPT ![p] =
                       [kind |-> kind, step |-> "lookup", tok |-> t, grp |-> g,
                        threshold |-> n, ok |-> FALSE]]
        /\ UNCHANGED <<version, count, used, made>>
    BY <1>4 DEF Begin
  <2>2. \A q \in Procs : UseCallOK(q)'
    BY <1>2, <1>4, <2>1, UseOthers
  <2> QED
    BY <2>1, <2>2, UseStays
<1>5. CASE End(p)
  <2>1. call' = [call EXCEPT ![p] = None] /\ UNCHANGED <<version, count, used, made>>
    BY <1>5 DEF End
  <2>2. \A q \in Procs : UseCallOK(q)'
    BY <1>2, <2>1, UseOthers
  <2> QED
    BY <2>1, <2>2, UseStays
<1>6. CASE Rotate(p)
  <2>1. call[p] # None /\ Group(p) \in Groups /\ NewKey(Group(p))
    BY <1>1, <1>6, CallFields DEF Rotate, At
  <2>2. MovesTo(p, "again") \/ MovesTo(p, "done")
    BY <1>6, <2>1, UseGoto, UseAnswer DEF Rotate
  <2>3. \A q \in Procs : UseCallOK(q)'
    BY <1>3, <2>1, <2>2, UseMoves
  <2> QED
    BY <1>1, <2>1, <2>3, UseOfNewKey DEF UseInv
<1>7. CASE OnMessage(p)
  <2>1. call[p] # None /\ Group(p) \in Groups /\ Answer(p, TRUE)
    BY <1>1, <1>7, CallFields DEF OnMessage, At
  <2>2. \A h \in Groups : version[h] # None => version'[h] # None
    <3>1. CASE CountUnknown(Group(p))
      <4>1. 1 # None
        BY GroupAssumption
      <4> QED
        BY <1>1, <2>1, <3>1, <4>1 DEF CountUnknown, GroupTypeOK
    <3>2. CASE CountKnown(Group(p), UseThreshold(p))
      BY <1>2, <1>3, <2>1, <3>2 DEF CountKnown
    <3> QED
      BY <1>7, <3>1, <3>2 DEF OnMessage
  <2>3. \A q \in Procs : UseCallOK(q)'
    BY <2>1, <2>2, UseAnswer, UseMoves
  <2> QED
    BY <1>7, <2>3, UseOfMessage DEF UseInv
<1>8. CASE Lookup(p) \/ LookupAgain(p) \/ HasMember(p) \/ AddGroup(p) \/ AddMember(p)
             \/ RemoveMember(p)
  <2>1. call[p] # None /\ UNCHANGED <<version, count, used, made>>
    BY <1>8 DEF Lookup, LookupAgain, HasMember, AddGroup, AddMember, Add,
                RemoveMember, At
  <2>2. \E s : MovesTo(p, s) /\ (s = "count" /\ withDirectory => version'[Group(p)] # None)
    <3>1. ASSUME NEW ok, Answer(p, ok)
          PROVE  \E s : MovesTo(p, s) /\ (s = "count" /\ withDirectory => version'[Group(p)] # None)
      BY <3>1, UseAnswer
    <3>2. ASSUME NEW s, Goto(p, s), s = "count" /\ withDirectory => version[Group(p)] # None
          PROVE  \E t : MovesTo(p, t) /\ (t = "count" /\ withDirectory => version'[Group(p)] # None)
      BY <2>1, <3>2, UseGoto
    <3>3. CASE HasMember(p)
      <4>1. User(p) \in members[Group(p)] => version[Group(p)] # None
        BY <1>1, <2>1, CallFields DEF GroupInv, MembersHaveKey
      <4> QED
        BY <3>1, <3>2, <3>3, <4>1 DEF HasMember
    <3>4. CASE Lookup(p)
      BY <3>1, <3>2, <3>4 DEF Lookup
    <3>5. CASE LookupAgain(p)
      BY <3>1, <3>2, <3>5 DEF LookupAgain
    <3>6. CASE AddGroup(p) \/ AddMember(p) \/ RemoveMember(p)
      BY <3>1, <3>2, <3>6 DEF AddGroup, AddMember, Add, RemoveMember
    <3> QED
      BY <1>8, <3>3, <3>4, <3>5, <3>6
  <2>3. \A q \in Procs : UseCallOK(q)'
    BY <1>2, <2>1, <2>2, UseMoves
  <2> QED
    BY <2>1, <2>3, UseStays
<1> QED
  BY <1>4, <1>5, <1>6, <1>7, <1>8 DEF Step, Kinds

(* OnGroupMessage and GroupManager::OnMessage: no key is used more often   *)
(* than the largest threshold allows, whichever threads count with which   *)
(* thresholds; without a directory, save for the message that makes the    *)
(* first key of its group.                                                 *)
THEOREM KeysNotOverused == Spec => []KeyUseBounded
<1>1. Init => UseInv
  BY DEF Init, UseInv, KeyUseBounded, UseCallOK
<1>2. ASSUME UseInv, UNCHANGED <<withDirectory, groupVars>>
      PROVE  UseInv'
  <2>1. \A p \in Procs : UseCallOK(p)'
    BY <1>2 DEF groupVars, UseInv, UseCallOK, Group
  <2> QED
    BY <1>2, <2>1, UseStays DEF groupVars
<1>3. GroupInv /\ VersionInv /\ UseInv /\ [Next]_vars => UseInv'
  <2> SUFFICES ASSUME GroupInv, VersionInv, UseInv, [Next]_vars PROVE UseInv'
    OBVIOUS
  <2>1. ASSUME NEW p \in Procs, Step(p), UNCHANGED withDirectory
        PROVE  UseInv'
    BY <2>1, UseStep
  <2>2. ASSUME NEW t \in Tokens, Login(t) \/ Logout(t), UNCHANGED withDirectory
        PROVE  UseInv'
    BY <1>2, <2>2 DEF Login, Logout
  <2>3. CASE Tick /\ UNCHANGED withDirectory
    BY <1>2, <2>3 DEF Tick
  <2>4. CASE UNCHANGED vars
    BY <1>2, <2>4 DEF vars, groupVars
  <2> QED
    BY <2>1, <2>2, <2>3, <2>4 DEF Next
<1>4. UseInv => KeyUseBounded
  BY DEF UseInv
<1> QED
  BY <1>1, <1>3, <1>4, GroupsSafe, VersionInvAlways, PTL DEF Spec
=============================================================================
