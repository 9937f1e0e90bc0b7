--------------------------- MODULE BackendAdapter ---------------------------
(***************************************************************************)
(* The adapter between the windows of qq_main_list and ClientCore: whether *)
(* the core is initialised and the user logged in, the polling timer, and  *)
(* the messages that wait at the server.  A call of ClientCore blocks the  *)
(* one GUI thread; what the server answers, and whether the session and    *)
(* its channel still hold, is a choice (SecureRpc, MessageDelivery and     *)
(* Friends say what is behind it).                                         *)
(***************************************************************************)
EXTENDS Naturals, Sequences, SequencesExt, FiniteSets, Filter

CONSTANTS
    Names,      \* accounts
    System,     \* the conversation of messages without a CONV line
    NoName,     \* no CONV line, or no account
    MaxArrived  \* bound: messages that reach the server while the program runs

Conversations == Names \cup {System}

ASSUME NamesAssumption ==
    /\ Names # {} /\ IsFiniteSet(Names)
    /\ System # NoName
    /\ Names \cap {System, NoName} = {}
    /\ MaxArrived \in Nat

VARIABLES
    stage,      \* where main() stands: "login", "accepted", "main" or "ended"
    inited,     \* inited_: ClientCore::Init has succeeded
    loggedIn,   \* loggedIn_
    polling,    \* pollTimer_ has been started
    lost,       \* the session has ended or its channel is out of step: no
                \* call of it succeeds any more, and no window logs in again
    inbox,      \* payloads that wait at the server for this user
    batch,      \* parsed messages pollOffline has still to emit
    pulled,     \* history: the messages pulled by this run of the program
    arrived     \* history: how many messages have reached the server

coreVars == <<inited, loggedIn, polling, lost>>
mailVars == <<inbox, batch, pulled, arrived>>
backendVars == <<stage, coreVars, mailVars>>

Payloads == [conv : Names \cup {NoName}, n : 1..MaxArrived]
Parsed == [conv : Conversations, n : 1..MaxArrived]

BackendTypeOK ==
    /\ stage \in {"login", "accepted", "main", "ended"}
    /\ coreVars \in [1..4 -> BOOLEAN]
    /\ inbox \in Seq(Payloads)
    /\ batch \in Seq(Parsed)
    /\ pulled \in Seq(Parsed)
    /\ arrived \in 0..MaxArrived

(* main() tries to initialise the adapter and goes on if that fails. *)
BackendInit ==
    /\ stage = "login"
    /\ inited \in BOOLEAN
    /\ loggedIn = FALSE
    /\ polling = FALSE
    /\ lost = FALSE
    /\ inbox = << >>
    /\ batch = << >>
    /\ pulled = << >>
    /\ arrived = 0

(* The thread is in an event loop (a modal dialog runs one too) and not in *)
(* a handler.                                                              *)
Idle == batch = << >> /\ stage \in {"login", "main"}

(* ensureInited: every call tries again until Init succeeds once. *)
EnsureInited == inited' \in {inited, TRUE}

Login_NoTimer(acc, pwd, ok) ==      \* mutant: the timer is not started
    IF acc /\ pwd
    THEN /\ EnsureInited
         /\ ok => inited'
         /\ loggedIn' = (IF inited' THEN ok ELSE loggedIn)
         /\ UNCHANGED <<polling, lost>>
    ELSE ~ok /\ UNCHANGED coreVars

(* login(account, password): ok is the server's answer. *)
Login(acc, pwd, ok) ==
    IF acc /\ pwd
    THEN /\ EnsureInited
         /\ ok => inited'
         /\ loggedIn' = (IF inited' THEN ok ELSE loggedIn)
         /\ polling' = (polling \/ ok)
         /\ UNCHANGED lost
    ELSE ~ok /\ UNCHANGED coreVars

(* listFriends, addFriend, setFriendRemark, sendText, sendFile and the     *)
(* poll: ok is what the call reports.  One that fails may do so for good.  *)
CallCore(ok) ==
    /\ IF loggedIn THEN EnsureInited /\ lost' \in {lost, TRUE}
       ELSE UNCHANGED <<inited, lost>>
    /\ ok => loggedIn /\ inited' /\ ~lost'
    /\ UNCHANGED <<loggedIn, polling>>

(* parsePayload: the sender's account from the CONV line, or "system".     *)
(* The rest, a text or the notice of a file, is the message n.             *)
ParsePayload(p) == [p EXCEPT !.conv = IF p.conv = NoName THEN System ELSE p.conv]

(* Somebody's message reaches the server. *)
Arrive(c) ==
    /\ arrived < MaxArrived
    /\ arrived' = arrived + 1
    /\ inbox' = Append(inbox, [conv |-> c, n |-> arrived'])
    /\ UNCHANGED <<stage, coreVars, batch, pulled>>

(* pollOffline, by the timer, up to its loop.  One that finds nothing      *)
(* changes nothing, nor does one that fails and may yet succeed later.     *)
Poll ==
    LET messages == [i \in DOMAIN inbox |-> ParsePayload(inbox[i])] IN
    /\ Idle /\ polling /\ inbox # << >>
    /\ CallCore(TRUE)
    /\ batch' = messages
    /\ pulled' = pulled \o messages
    /\ inbox' = << >>
    /\ UNCHANGED <<stage, arrived>>

(* A poll that fails for good, perhaps after the server has taken the      *)
(* messages out of its queue.                                              *)
PollFails ==
    /\ Idle /\ polling /\ ~lost
    /\ CallCore(FALSE)
    /\ lost'
    /\ inbox' \in {inbox, << >>}
    /\ UNCHANGED <<stage, batch, pulled, arrived>>
=============================================================================
