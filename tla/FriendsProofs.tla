---------------------------- MODULE FriendsProofs ----------------------------
(***************************************************************************)
(* Friends for every number of threads, users, names and remarks: what a   *)
(* successful AddFriend promises holds from then on, no remark is kept for *)
(* a stranger, and nobody else's call changes it.                          *)
(***************************************************************************)
EXTENDS Friends, TLAPS

(* Where a thread is decides what its call may do next: a relation is only *)
(* stored for another user that exists, and a call whose first INSERT      *)
(* succeeded finds its row for as long as it runs.                         *)
CallOK(p) ==
    call[p] # None =>
       /\ call[p].step \in {"store", "reverse"} =>
             call[p].kind = "add" /\ call[p].friend \in Users
       /\ call[p].step = "reverse" =>
             store = "mysql" /\ (call[p].ok => Mine(p) \in friends)

FriendsInv ==
    /\ TypeOK
    /\ RemarksOfFriends
    /\ SuccessIsMutual
    /\ \A p \in Procs : CallOK(p)

(* At first nobody has friends. *)
LEMMA FriendsInit == Init => FriendsInv
BY FriendsAssumption
DEF Init, FriendsInv, TypeOK, RemarksOfFriends, SuccessIsMutual, CallOK

(* What a step of one thread leaves of CallOK for the others: relations    *)
(* only grow, and the thread itself has returned or gone one step on.      *)
LEMMA CallsKept ==
    ASSUME FriendsInv, NEW p \in Procs, UNCHANGED store,
           friends \subseteq friends',
           NEW c, call' = [call EXCEPT ![p] = c],
           CallOK(p)'
    PROVE  \A q \in Procs : CallOK(q)'
<1> SUFFICES ASSUME NEW q \in Procs, q # p
             PROVE  CallOK(q)'
  OBVIOUS
<1>1. call'[q] = call[q] /\ CallOK(q)
  BY DEF FriendsInv, TypeOK
<1> QED
  BY <1>1 DEF CallOK, Mine

(* The steps that change neither relations nor remarks. *)
LEMMA QuietStep ==
    ASSUME FriendsInv, NEW p \in Procs, UNCHANGED <<store, friends, remark, added>>,
           NEW c \in Calls \cup {None}, call' = [call EXCEPT ![p] = c],
           CallOK(p)'
    PROVE  FriendsInv'
<1>1. \A q \in Procs : CallOK(q)'
  BY CallsKept
<1> QED
  BY <1>1 DEF FriendsInv, TypeOK, RemarksOfFriends, SuccessIsMutual

(* One step of AddFriend or SetFriendRemark. *)
LEMMA StepKeeps ==
    ASSUME FriendsInv, NEW p \in Procs, Step(p), UNCHANGED store
    PROVE  FriendsInv'
<1> DEFINE u == call[p].user
           f == call[p].friend
           m == <<u, f>>
           t == <<f, u>>
<1> USE FriendsAssumption
<1>1. ASSUME NEW kind \in {"add", "rename"}, NEW v \in Users, NEW g \in Names,
             NEW text \in Remarks \cup {NoRemark}, Begin(p, kind, v, g, text)
      PROVE  FriendsInv'
  <2> DEFINE c == [kind |-> kind, step |-> "check", user |-> v, friend |-> g,
                   text |-> text, ok |-> TRUE]
  <2>1. c \in Calls /\ call' = [call EXCEPT ![p] = c]
    BY <1>1 DEF Begin, Calls
  <2>2. CallOK(p)'
    BY <2>1 DEF CallOK, FriendsInv, TypeOK
  <2> QED
    BY <1>1, <2>1, <2>2, QuietStep DEF Begin
<1>2. ASSUME Return(p), UNCHANGED <<friends, remark, added>>
      PROVE  FriendsInv'
  <2>1. call' = [call EXCEPT ![p] = None]
    BY <1>2 DEF Return
  <2>2. CallOK(p)'
    BY <2>1 DEF CallOK, FriendsInv, TypeOK
  <2> QED
    BY <1>2, <2>1, <2>2, QuietStep
<1>3. CASE Fail(p)
  BY <1>2, <1>3 DEF Fail
<1>4. ASSUME call[p] # None
      PROVE  /\ call[p] \in Calls /\ u \in Users /\ f \in Names
             /\ call[p].text \in Remarks \cup {NoRemark}
             /\ m \in Pairs /\ t \in Pairs
             /\ Mine(p) = m /\ Theirs(p) = t
  BY <1>4 DEF FriendsInv, TypeOK, Calls, Pairs, Mine, Theirs
<1>5. CASE CheckAdd(p)
  <2> DEFINE c == [call[p] EXCEPT !.step = "store"]
  <2>1. call[p] # None /\ f \in Users /\ call[p].kind = "add"
    BY <1>5 DEF CheckAdd, At, Acceptable
  <2>2. c \in Calls
    BY <1>4, <2>1 DEF Calls
  <2>3. call' = [call EXCEPT ![p] = c]
    BY <1>5 DEF CheckAdd
  <2>4. CallOK(p)'
    BY <1>4, <2>1, <2>3 DEF CallOK, FriendsInv, TypeOK, Calls
  <2> QED
    BY <1>5, <2>2, <2>3, <2>4, QuietStep DEF CheckAdd
<1>6. CASE SelectRow(p)
  <2>1. CASE Mine(p) \in friends
    <3> DEFINE c == [call[p] EXCEPT !.step = "update"]
    <3>1. call[p] # None
      BY <1>6 DEF SelectRow, At
    <3>2. c \in Calls
      BY <1>4, <3>1 DEF Calls
    <3>3. call' = [call EXCEPT ![p] = c]
      BY <1>6, <2>1 DEF SelectRow
    <3>4. CallOK(p)'
      BY <1>4, <3>1, <3>3 DEF CallOK, FriendsInv, TypeOK, Calls
    <3> QED
      BY <1>6, <3>2, <3>3, <3>4, QuietStep DEF SelectRow
  <2>2. CASE Mine(p) \notin friends
    BY <1>2, <1>6, <2>2 DEF SelectRow
  <2> QED
    BY <2>1, <2>2
<1>7. ASSUME call[p] # None, Return(p), UNCHANGED <<friends, added>>,
             remark' = IF m \in friends
                       THEN [remark EXCEPT ![m] = call[p].text] ELSE remark
      PROVE  FriendsInv'
  <2>1. CallOK(p)'
    BY <1>7 DEF Return, CallOK, FriendsInv, TypeOK
  <2>2. \A q \in Procs : CallOK(q)'
    BY <1>7, <2>1, CallsKept DEF Return
  <2>3. TypeOK'
    BY <1>4, <1>7 DEF Return, FriendsInv, TypeOK
  <2>4. RemarksOfFriends'
    BY <1>4, <1>7 DEF FriendsInv, TypeOK, RemarksOfFriends
  <2> QED
    BY <1>7, <2>2, <2>3, <2>4 DEF FriendsInv, SuccessIsMutual
<1>8. CASE RenameInMemory(p)
  BY <1>4, <1>7, <1>8 DEF RenameInMemory, At
<1>9. CASE UpdateRow(p)
  BY <1>4, <1>7, <1>9 DEF UpdateRow, At
<1>10. CASE AddInMemory(p)
  <2>1. call[p] # None /\ f \in Users /\ m \in friends' /\ t \in friends'
    BY <1>4, <1>10 DEF AddInMemory, At, FriendsInv, CallOK
  <2>2. friends \subseteq friends' /\ friends' = friends \cup {m, t}
    BY <1>4, <1>10, <2>1 DEF AddInMemory
  <2>3. CallOK(p)'
    BY <1>10 DEF AddInMemory, Return, CallOK, FriendsInv, TypeOK
  <2>4. \A q \in Procs : CallOK(q)'
    BY <1>10, <2>2, <2>3, CallsKept DEF AddInMemory, Return
  <2>5. TypeOK'
    <3>1. {m, t} \subseteq Users \X Users
      BY <1>4, <2>1
    <3>2. friends' \subseteq Users \X Users /\ added' \subseteq Users \X Users
      BY <1>4, <1>10, <2>2, <3>1 DEF AddInMemory, FriendsInv, TypeOK
    <3>3. remark' \in [Pairs -> Remarks \cup {NoRemark}]
      BY <1>4, <1>10, <2>1 DEF AddInMemory, FriendsInv, TypeOK
    <3> QED
      BY <1>10, <3>2, <3>3 DEF AddInMemory, Return, FriendsInv, TypeOK
  <2>6. RemarksOfFriends'
    BY <1>4, <1>10, <2>1, <2>2
    DEF AddInMemory, FriendsInv, TypeOK, RemarksOfFriends
  <2>7. SuccessIsMutual'
    <3>1. added' = added \cup {m} /\ <<m[2], m[1]>> = t
      BY <1>4, <1>10, <2>1 DEF AddInMemory
    <3> HIDE DEF m, t
    <3> QED
      BY <2>1, <2>2, <3>1 DEF FriendsInv, SuccessIsMutual
  <2> QED
    BY <2>4, <2>5, <2>6, <2>7 DEF FriendsInv
<1>11. CASE InsertMine(p)
  <2>1. PICK ok \in BOOLEAN :
           /\ IF ok THEN Insert(m, call[p].text) ELSE NotInserted
           /\ call' = [call EXCEPT ![p].step = "reverse", ![p].ok = ok]
    BY <1>4, <1>11 DEF InsertMine, At
  <2> DEFINE c == [call[p] EXCEPT !.step = "reverse", !.ok = ok]
  <2>2. call[p] # None /\ f \in Users /\ call[p].kind = "add" /\ store = "mysql"
    BY <1>11 DEF InsertMine, At, FriendsInv, CallOK
  <2>3. c \in Calls /\ call' = [call EXCEPT ![p] = c]
    BY <1>4, <2>1, <2>2 DEF Calls, FriendsInv, TypeOK
  <2>4. /\ friends' = friends \/ friends' = friends \cup {m}
        /\ ok => m \in friends'
    BY <2>1 DEF Insert, NotInserted
  <2>5. CallOK(p)'
    BY <1>4, <2>2, <2>3, <2>4
    DEF CallOK, Mine, FriendsInv, TypeOK, Calls
  <2>6. \A q \in Procs : CallOK(q)'
    BY <2>3, <2>4, <2>5, CallsKept
  <2>7. TypeOK'
    <3>1. friends' \subseteq Users \X Users
      BY <1>4, <2>2, <2>4 DEF FriendsInv, TypeOK
    <3>2. remark' \in [Pairs -> Remarks \cup {NoRemark}]
      BY <1>4, <2>1, <2>2 DEF Insert, NotInserted, FriendsInv, TypeOK
    <3> QED
      BY <1>11, <2>3, <3>1, <3>2 DEF InsertMine, FriendsInv, TypeOK
  <2>8. RemarksOfFriends'
    BY <1>4, <2>1, <2>2
    DEF Insert, NotInserted, FriendsInv, TypeOK, RemarksOfFriends
  <2>9. SuccessIsMutual'
    BY <1>11, <2>4 DEF InsertMine, FriendsInv, SuccessIsMutual
  <2> QED
    BY <2>6, <2>7, <2>8, <2>9 DEF FriendsInv
<1>12. CASE InsertTheirs(p)
  \* With both INSERTs done, both directions are there.
  <2>1. PICK ok \in BOOLEAN :
           /\ IF ok THEN Insert(t, NoRemark) ELSE NotInserted
           /\ added' = IF ok /\ call[p].ok THEN added \cup {m} ELSE added
    BY <1>4, <1>12 DEF InsertTheirs, At
  <2>2. /\ call[p] # None /\ f \in Users
        /\ call[p].ok => m \in friends
    BY <1>4, <1>12 DEF InsertTheirs, At, FriendsInv, CallOK
  <2>3. /\ friends' = friends \/ friends' = friends \cup {t}
        /\ ok => t \in friends'
    BY <2>1 DEF Insert, NotInserted
  <2>4. CallOK(p)'
    BY <1>12 DEF InsertTheirs, Return, CallOK, FriendsInv, TypeOK
  <2>5. \A q \in Procs : CallOK(q)'
    BY <1>12, <2>3, <2>4, CallsKept DEF InsertTheirs, Return
  <2>6. TypeOK'
    <3>1. m \in Users \X Users /\ t \in Users \X Users
      BY <1>4, <2>2
    <3>2. friends' \subseteq Users \X Users /\ added' \subseteq Users \X Users
      BY <2>1, <2>3, <3>1 DEF FriendsInv, TypeOK
    <3>3. remark' \in [Pairs -> Remarks \cup {NoRemark}]
      BY <1>4, <2>1, <2>2 DEF Insert, NotInserted, FriendsInv, TypeOK
    <3> QED
      BY <1>12, <3>2, <3>3 DEF InsertTheirs, Return, FriendsInv, TypeOK
  <2>7. RemarksOfFriends'
    BY <1>4, <2>1, <2>2
    DEF Insert, NotInserted, FriendsInv, TypeOK, RemarksOfFriends
  <2>8. SuccessIsMutual'
    <3>1. <<m[2], m[1]>> = t
      OBVIOUS
    <3>2. \A q \in added' :
             q \in added \/ (q = m /\ m \in friends' /\ t \in friends')
      BY <2>1, <2>2, <2>3
    <3> HIDE DEF m, t
    <3> QED
      BY <2>3, <3>1, <3>2 DEF FriendsInv, SuccessIsMutual
  <2> QED
    BY <2>5, <2>6, <2>7, <2>8 DEF FriendsInv
<1> QED
  BY <1>1, <1>3, <1>5, <1>6, <1>8, <1>9, <1>10, <1>11, <1>12 DEF Step

(* The invariant, for every run of the two calls and every restart. *)
THEOREM FriendsSafe == Spec => []FriendsInv
<1>1. FriendsInv /\ [Next]_vars => FriendsInv'
  <2> SUFFICES ASSUME FriendsInv, [Next]_vars PROVE FriendsInv'
    OBVIOUS
  <2>1. ASSUME NEW p \in Procs, Step(p), UNCHANGED store
        PROVE  FriendsInv'
    BY <2>1, StepKeeps
  <2>2. CASE Restart /\ UNCHANGED store
    BY <2>2, FriendsAssumption
    DEF Restart, FriendsInv, TypeOK, RemarksOfFriends, SuccessIsMutual, CallOK
  <2>3. CASE UNCHANGED vars
    BY <2>3 DEF vars, FriendsInv, TypeOK, RemarksOfFriends, SuccessIsMutual,
                CallOK, Mine
  <2> QED
    BY <2>1, <2>2, <2>3 DEF Next
<1> QED
  BY FriendsInit, <1>1, PTL DEF Spec

(* AddFriend: a success it reported means both rows, then and ever after,  *)
(* whichever statements fail in other calls and however often the server   *)
(* restarts.                                                               *)
THEOREM SuccessSafe == Spec => []SuccessIsMutual
<1>1. FriendsInv => SuccessIsMutual
  BY DEF FriendsInv
<1> QED
  BY <1>1, FriendsSafe, PTL

(* SetFriendRemark and AddFriend: a remark is only kept for a friend. *)
THEOREM RemarksSafe == Spec => []RemarksOfFriends
<1>1. FriendsInv => RemarksOfFriends
  BY DEF FriendsInv
<1> QED
  BY <1>1, FriendsSafe, PTL

(* The types of every variable: of a call, that its fields are those of    *)
(* the step it stands at.                                                  *)
THEOREM FriendsTypes == Spec => []TypeOK
<1>1. FriendsInv => TypeOK
  BY DEF FriendsInv
<1> QED
  BY <1>1, FriendsSafe, PTL

(* A remark changes by a call of its owner, or with all the others when    *)
(* the memory store is lost in a restart.                                  *)
OwnRemarks ==
    \A q \in Users \X Users :
        remark'[q] # remark[q]
           => \/ \E p \in Procs : call'[p] # call[p] /\ call[p] # None /\ Mine(p) = q
              \/ friends' = {}

LEMMA StepOwnRemarks ==
    ASSUME FriendsInv, NEW p \in Procs, Step(p)
    PROVE  OwnRemarks
<1> DEFINE m == <<call[p].user, call[p].friend>>
           t == <<call[p].friend, call[p].user>>
<1>1. ASSUME UNCHANGED remark
      PROVE  OwnRemarks
  BY <1>1 DEF OwnRemarks
<1>2. ASSUME call[p] # None, call'[p] # call[p],
             \A q \in Users \X Users : q # m => remark'[q] = remark[q]
      PROVE  OwnRemarks
  BY <1>2 DEF OwnRemarks, Mine
<1>3. ASSUME call[p] # None
      PROVE  /\ call[p] \in Calls /\ m \in Pairs /\ Mine(p) = m /\ Theirs(p) = t
             /\ Return(p) => call'[p] # call[p]
             /\ Users \X Users \subseteq Pairs
  BY <1>3, FriendsAssumption
  DEF FriendsInv, TypeOK, Calls, Pairs, Mine, Theirs, Return, FriendsAssumption
<1>4. ASSUME call[p] # None, Return(p),
             \/ remark' = remark
             \/ remark' = [remark EXCEPT ![m] = call[p].text]
      PROVE  OwnRemarks
  BY <1>2, <1>3, <1>4 DEF FriendsInv, TypeOK
<1>5. CASE AddInMemory(p) \/ RenameInMemory(p) \/ UpdateRow(p)
  <2>1. /\ call[p] # None /\ Return(p)
        /\ remark' = remark \/ remark' = [remark EXCEPT ![Mine(p)] = call[p].text]
    BY <1>5 DEF AddInMemory, RenameInMemory, UpdateRow, At
  <2> QED
    BY <1>3, <1>4, <2>1
<1>6. CASE InsertMine(p)
  <2>1. PICK ok \in BOOLEAN :
           /\ IF ok THEN Insert(Mine(p), call[p].text) ELSE NotInserted
           /\ call' = [call EXCEPT ![p].step = "reverse", ![p].ok = ok]
    BY <1>6 DEF InsertMine
  <2>2. call[p] # None /\ call[p].step = "store" /\ call[p] \in Calls /\ Mine(p) = m
    BY <1>3, <1>6 DEF InsertMine, At
  <2>3. call'[p].step = "reverse"
    BY <2>1, <2>2 DEF FriendsInv, TypeOK, Calls
  <2>4. \A q \in Users \X Users : q # m => remark'[q] = remark[q]
    BY <1>3, <2>1, <2>2 DEF Insert, NotInserted, FriendsInv, TypeOK
  <2> QED
    BY <1>2, <2>2, <2>3, <2>4
<1>7. CASE InsertTheirs(p)
  <2>1. call[p] # None /\ Theirs(p) = t
    BY <1>3, <1>7 DEF InsertTheirs, At
  <2>2. PICK ok \in BOOLEAN : IF ok THEN Insert(t, NoRemark) ELSE NotInserted
    BY <1>7, <2>1 DEF InsertTheirs
  <2>3. \A q \in Users \X Users : remark'[q] = remark[q]
    BY <1>3, <2>1, <2>2 DEF Insert, NotInserted, FriendsInv, TypeOK, RemarksOfFriends
  <2> QED
    BY <2>3 DEF OwnRemarks
<1>8. CASE \/ \E kind \in {"add", "rename"}, u \in Users, f \in Names,
                 text \in Remarks \cup {NoRemark} : Begin(p, kind, u, f, text)
           \/ Fail(p) \/ CheckAdd(p) \/ SelectRow(p)
  BY <1>1, <1>8 DEF Begin, Fail, CheckAdd, SelectRow
<1> QED
  BY <1>5, <1>6, <1>7, <1>8 DEF Step

(* A user's remark for a friend only changes by a call of that user, never *)
(* by being added again, whichever INSERTs fail.                           *)
THEOREM RemarksStayOnesOwn == Spec => OwnRemarksOnly
<1>1. FriendsInv /\ [Next]_vars => [OwnRemarks]_vars
  <2> SUFFICES ASSUME FriendsInv, [Next]_vars PROVE OwnRemarks
    OBVIOUS
  <2>1. CASE \E p \in Procs : Step(p)
    BY <2>1, StepOwnRemarks
  <2>2. CASE Restart
    BY <2>2 DEF Restart, OwnRemarks
  <2>3. CASE UNCHANGED vars
    BY <2>3 DEF vars, OwnRemarks
  <2> QED
    BY <2>1, <2>2, <2>3 DEF Next
<1> QED
  BY <1>1, FriendsSafe, PTL DEF Spec, OwnRemarksOnly, OwnRemarks
=============================================================================
