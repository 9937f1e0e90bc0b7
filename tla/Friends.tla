------------------------------- MODULE Friends -------------------------------
(***************************************************************************)
(* Friend relations and remarks: AddFriend and SetFriendRemark of          *)
(* ApiService over its two stores.  In memory a call changes both          *)
(* directions under one mutex.  In MySQL each statement commits by itself  *)
(* on the call's own connection, any of them may fail, and the server may  *)
(* stop between two.                                                       *)
(***************************************************************************)
EXTENDS Naturals, FiniteSets

CONSTANTS
    Procs,      \* threads inside ApiService
    Users,      \* accounts of the auth provider
    Names,      \* names a client may ask for, other ones included
    Remarks,    \* remarks of at most 128 bytes, not empty
    NoRemark,   \* the empty remark
    None

ASSUME FriendsAssumption ==
    /\ Users \subseteq Names
    /\ NoRemark \notin Remarks

VARIABLES
    store,      \* whether friend_mysql_ is given, from the configuration
    friends,    \* friends_, or the rows of user_friend: <<user, friend>>
    remark,     \* friend_remarks_, or the remark column
    call,       \* the call each thread is inside of
    added       \* history: <<caller, friend>> of the AddFriend calls that succeeded

vars == <<store, friends, remark, call, added>>

Pairs == Names \X Names
Calls == [kind : {"add", "rename"}, step : {"check", "store", "reverse", "update"},
          user : Users, friend : Names, text : Remarks \cup {NoRemark},
          ok : BOOLEAN]

TypeOK ==
    /\ store \in {"memory", "mysql"}
    /\ friends \subseteq Users \X Users
    /\ remark \in [Pairs -> Remarks \cup {NoRemark}]
    /\ call \in [Procs -> Calls \cup {None}]
    /\ added \subseteq Users \X Users

Init ==
    /\ store \in {"memory", "mysql"}
    /\ friends = {}
    /\ remark = [q \in Pairs |-> NoRemark]
    /\ call = [p \in Procs |-> None]
    /\ added = {}
-----------------------------------------------------------------------------
Mine(p)   == <<call[p].user, call[p].friend>>
Theirs(p) == <<call[p].friend, call[p].user>>

At(p, kind, step) ==
    call[p] # None /\ call[p].kind = kind /\ call[p].step = step

Return(p) == call' = [call EXCEPT ![p] = None]

Begin(p, kind, u, f, text) ==
    /\ call[p] = None
    /\ call' = [call EXCEPT ![p] =
                  [kind |-> kind, step |-> "check", user |-> u, friend |-> f,
                   text |-> text, ok |-> TRUE]]
    /\ UNCHANGED <<friends, remark, added>>

(* Any early return: no session, an empty name, a remark too long, or a    *)
(* failing auth provider, connection or statement before the first change. *)
Fail(p) ==
    /\ call[p] # None
    /\ call[p].step = "check" \/ (store = "mysql" /\ call[p].step = "update")
    /\ Return(p)
    /\ UNCHANGED <<friends, remark, added>>

Acceptable_Anyone(p) == call[p].friend # call[p].user   \* mutant: no UserExists

(* AddFriend asks for another user that exists. *)
Acceptable(p) == call[p].friend # call[p].user /\ call[p].friend \in Users

CheckAdd(p) ==
    /\ At(p, "add", "check")
    /\ Acceptable(p)
    /\ call' = [call EXCEPT ![p].step = "store"]
    /\ UNCHANGED <<friends, remark, added>>

AddInMemory(p) ==
    /\ At(p, "add", "store") /\ store = "memory"
    /\ friends' = friends \cup {Mine(p), Theirs(p)}
    /\ remark' = IF call[p].text = NoRemark THEN remark
                 ELSE [remark EXCEPT ![Mine(p)] = call[p].text]
    /\ added' = added \cup {Mine(p)}
    /\ Return(p)

(* mutant: REPLACE INTO instead of INSERT IGNORE *)
Insert_Replace(row, text) ==
    /\ friends' = friends \cup {row}
    /\ remark' = [remark EXCEPT ![row] = text]

(* INSERT IGNORE: an existing row is left as it is. *)
Insert(row, text) ==
    /\ friends' = friends \cup {row}
    /\ remark' = IF row \in friends THEN remark
                 ELSE [remark EXCEPT ![row] = text]

NotInserted == UNCHANGED <<friends, remark>>

(* The first INSERT of AddFriend; the second one follows all the same. *)
InsertMine(p) ==
    /\ At(p, "add", "store") /\ store = "mysql"
    /\ \E ok \in BOOLEAN :
          /\ IF ok THEN Insert(Mine(p), call[p].text) ELSE NotInserted
          /\ call' = [call EXCEPT ![p].step = "reverse", ![p].ok = ok]
    /\ UNCHANGED added

(* mutant: only the second result is looked at *)
InsertTheirs_LastResult(p) ==
    /\ At(p, "add", "reverse")
    /\ \E ok \in BOOLEAN :
          /\ IF ok THEN Insert(Theirs(p), NoRemark) ELSE NotInserted
          /\ added' = IF ok THEN added \cup {Mine(p)} ELSE added
    /\ Return(p)

InsertTheirs(p) ==
    /\ At(p, "add", "reverse")
    /\ \E ok \in BOOLEAN :
          /\ IF ok THEN Insert(Theirs(p), NoRemark) ELSE NotInserted
          /\ added' = IF ok /\ call[p].ok THEN added \cup {Mine(p)} ELSE added
    /\ Return(p)

RenameInMemory_Unchecked(p) ==  \* mutant: strangers can be given a remark
    /\ At(p, "rename", "check") /\ store = "memory"
    /\ remark' = [remark EXCEPT ![Mine(p)] = call[p].text]
    /\ Return(p)
    /\ UNCHANGED <<friends, added>>

(* SetFriendRemark; an empty remark erases the entry. *)
RenameInMemory(p) ==
    /\ At(p, "rename", "check") /\ store = "memory"
    /\ remark' = IF Mine(p) \in friends
                 THEN [remark EXCEPT ![Mine(p)] = call[p].text]
                 ELSE remark
    /\ Return(p)
    /\ UNCHANGED <<friends, added>>

(* SetFriendRemark's SELECT and UPDATE. *)
SelectRow(p) ==
    /\ At(p, "rename", "check") /\ store = "mysql"
    /\ IF Mine(p) \in friends
       THEN call' = [call EXCEPT ![p].step = "update"]
       ELSE Return(p)
    /\ UNCHANGED <<friends, remark, added>>

UpdateRow(p) ==
    /\ At(p, "rename", "update")
    /\ remark' = IF Mine(p) \in friends
                 THEN [remark EXCEPT ![Mine(p)] = call[p].text]
                 ELSE remark
    /\ Return(p)
    /\ UNCHANGED <<friends, added>>

(* The server stops and starts: MySQL keeps the rows, memory nothing. *)
Restart ==
    /\ call' = [p \in Procs |-> None]
    /\ IF store = "mysql" THEN UNCHANGED <<friends, remark, added>>
       ELSE /\ friends' = {}
            /\ remark' = [q \in Pairs |-> NoRemark]
            /\ added' = {}

Step(p) ==
    \/ \E kind \in {"add", "rename"}, u \in Users, f \in Names,
          text \in Remarks \cup {NoRemark} : Begin(p, kind, u, f, text)
    \/ Fail(p)
    \/ CheckAdd(p)
    \/ AddInMemory(p)
    \/ InsertMine(p)
    \/ InsertTheirs(p)
    \/ RenameInMemory(p)
    \/ SelectRow(p)
    \/ UpdateRow(p)

Next ==
    /\ (\E p \in Procs : Step(p)) \/ Restart
    /\ UNCHANGED store

Spec == Init /\ [][Next]_vars
-----------------------------------------------------------------------------
(* Properties *)

(* Once AddFriend has reported success, each of the two users has the      *)
(* other, whatever statements failed in other calls and however often the  *)
(* server restarted since (api_service.cpp:573-582).                       *)
SuccessIsMutual ==
    \A q \in added : q \in friends /\ <<q[2], q[1]>> \in friends

(* A user's remark for a friend only changes by a call of that user: being *)
(* added by that friend again never overwrites it.                         *)
OwnRemarksOnly ==
    [][\A q \in Users \X Users :
         remark'[q] # remark[q]
            => \/ \E p \in Procs : call'[p] # call[p] /\ call[p] # None /\ Mine(p) = q
               \/ friends' = {}]_vars

(* Remarks are kept for friends only: friend_remarks_ never holds a name   *)
(* that friends_ does not.                                                 *)
RemarksOfFriends ==
    \A q \in Pairs : remark[q] # NoRemark => q \in friends

AllMutual == \A q \in friends : <<q[2], q[1]>> \in friends

(* README.md:59 says of the MySQL table that it has one row for each       *)
(* direction.  The rows are looked at between calls.                       *)
RowsAreMutual ==
    (store = "mysql" /\ \A p \in Procs : call[p] = None) => AllMutual
=============================================================================
