------------------------------ MODULE SecureRpc ------------------------------
(***************************************************************************)
(* Encrypted calls of ClientCore answered by ConnectionHandler.            *)
(*                                                                         *)
(* A client opens one TCP connection per call.  The server's single worker *)
(* takes one connection at a time, finds the channel of the frame's token, *)
(* checks the sequence number, runs the request and closes the connection. *)
(* Each end counts what it sent and received per session; a frame is only  *)
(* decrypted when its number is the next one expected.                     *)
(*                                                                         *)
(* OnData is two steps, because host threads (c_api.cpp) and the clock can *)
(* change the session table between its key lookup and its handler.        *)
(***************************************************************************)
EXTENDS Naturals, Sequences, FiniteSets, SessionTable

CONSTANTS
    Clients,    \* ClientCore objects
    Tokens,     \* 64-character random tokens; a token is never drawn twice
    Users,      \* accounts; a user's channel keys depend on nothing else
    Ops,        \* kinds of call the clients make, a subset of AllOps
    None,       \* the empty string, optional or connection
    MaxCalls,   \* bound: calls a client makes in one session
    MaxNow      \* bound: ticks of the clock

(* logout, heartbeat: those frames. api: every call that looks the session *)
(* up. bad: a frame the router refuses (unknown type, unreadable payload). *)
AllOps == {"logout", "heartbeat", "api", "bad"}

Frames  == [seq : Nat, op : Ops, key : Users \cup {None}]
Jobs    == [tok : Tokens, seq : Nat, op : Ops, conn : Clients \cup {None}]
Entries == [seq : Nat, op : Ops, ok : BOOLEAN]
Replies == [tok : Tokens, seq : Nat, key : Users \cup {None}]

ASSUME ConstantsAssumption ==
    /\ Ops \subseteq AllOps
    /\ MaxCalls \in Nat
    /\ MaxNow \in Nat
    /\ None \notin Tokens
    /\ None \notin Clients
    /\ None \notin Replies
    /\ None \notin Jobs

VARIABLES
    \* ClientCore
    token,      \* token_, None when empty
    chanUser,   \* the user whose keys channel_ holds
    sendSeq,    \* send_seq_
    recvSeq,    \* recv_seq_
    pc,         \* where the client's round trip stands
    reply,      \* the frame waiting in the client's socket
    \* SessionManager
    sessions,   \* tokens with a session
    owner,      \* username of the session a token was made for
    createdAt,  \* created_at of that session
    \* ConnectionHandler
    chans,      \* keys of channel_states_
    cKey,       \* the user whose keys the channel holds
    cSend,      \* send_seq
    cRecv,      \* recv_seq
    srv,        \* the frame OnData has decrypted and not yet answered
    \* environment
    now,        \* steady_clock
    drawn,      \* tokens drawn so far
    sent,       \* per token, the frames put on the network, in order
    \* history
    log,        \* per token, the calls the server ran, in order
    answered,   \* per token, how many of them got a reply
    confirmed,  \* per token, how many replies the client accepted
    broken      \* tokens that lost a frame, a round trip or their server

clientVars == <<token, chanUser, sendSeq, recvSeq, pc, reply>>
tableVars  == <<sessions, owner, createdAt>>
chanVars   == <<chans, cKey, cSend, cRecv>>
histVars   == <<log, answered, confirmed, broken>>
vars == <<clientVars, tableVars, chanVars, srv, now, drawn, sent, histVars>>

(* idle: no call. login, call: request on the wire. served: OnData holds   *)
(* it. loggedIn, replied: response in the socket. closed: the server shut  *)
(* the connection without a response.                                      *)
PcValues ==
    {"idle", "login", "call", "served", "loggedIn", "replied", "closed"}

(* What the place of a round trip says of the client's fields. *)
RoundTripOK(c) ==
    /\ reply[c] # None <=> pc[c] \in {"loggedIn", "replied"}
    /\ pc[c] \in {"call", "served", "replied"}
          => token[c] # None /\ sent[token[c]] # << >>

TypeOK ==
    /\ token \in [Clients -> Tokens \cup {None}]
    /\ chanUser \in [Clients -> Users \cup {None}]
    /\ sendSeq \in [Clients -> Nat]
    /\ recvSeq \in [Clients -> Nat]
    /\ pc \in [Clients -> PcValues]
    /\ reply \in [Clients -> Replies \cup {None}]
    /\ \A c \in Clients : RoundTripOK(c)
    /\ sessions \subseteq Tokens
    /\ owner \in [Tokens -> Users \cup {None}]
    /\ createdAt \in [Tokens -> Nat]
    /\ chans \subseteq Tokens
    /\ cKey \in [Tokens -> Users \cup {None}]
    /\ cSend \in [Tokens -> Nat]
    /\ cRecv \in [Tokens -> Nat]
    /\ srv \in Jobs \cup {None}
    /\ now \in Nat
    /\ drawn \subseteq Tokens
    /\ sent \in [Tokens -> Seq(Frames)]
    /\ log \in [Tokens -> Seq(Entries)]
    /\ answered \in [Tokens -> Nat]
    /\ confirmed \in [Tokens -> Nat]
    /\ broken \subseteq Tokens

Init ==
    /\ token = [c \in Clients |-> None]
    /\ chanUser = [c \in Clients |-> None]
    /\ sendSeq = [c \in Clients |-> 0]
    /\ recvSeq = [c \in Clients |-> 0]
    /\ pc = [c \in Clients |-> "idle"]
    /\ reply = [c \in Clients |-> None]
    /\ sessions = {}
    /\ owner = [t \in Tokens |-> None]
    /\ createdAt = [t \in Tokens |-> 0]
    /\ chans = {}
    /\ cKey = [t \in Tokens |-> None]
    /\ cSend = [t \in Tokens |-> 0]
    /\ cRecv = [t \in Tokens |-> 0]
    /\ srv = None
    /\ now = 0
    /\ drawn = {}
    /\ sent = [t \in Tokens |-> << >>]
    /\ log = [t \in Tokens |-> << >>]
    /\ answered = [t \in Tokens |-> 0]
    /\ confirmed = [t \in Tokens |-> 0]
    /\ broken = {}
-----------------------------------------------------------------------------
(* SessionManager *)

LiveSessions == Live(sessions, createdAt, now)

AfterLogout_Kept(t) == sessions     \* mutant: the session survives

(* SessionManager::Logout. *)
AfterLogout(t) == sessions \ {t}

CreateSession_Resumed(t, u) ==      \* mutant: a user gets the old token again
    /\ t \notin drawn \/ owner[t] = u
    /\ drawn' = drawn \cup {t}
    /\ sessions' = sessions \cup {t}
    /\ owner' = [owner EXCEPT ![t] = u]
    /\ createdAt' = [createdAt EXCEPT ![t] = now]

(* SessionManager::Login once the password is accepted. *)
CreateSession(t, u) ==
    /\ t \notin drawn
    /\ drawn' = drawn \cup {t}
    /\ sessions' = sessions \cup {t}
    /\ owner' = [owner EXCEPT ![t] = u]
    /\ createdAt' = [createdAt EXCEPT ![t] = now]

(* mi_server_login: a host thread opens a session no ClientCore knows. *)
HostLogin(t, u) ==
    /\ CreateSession(t, u)
    /\ UNCHANGED <<clientVars, chanVars, srv, now, sent, histVars>>

(* mi_server_logout: the channel of the token stays behind. *)
HostLogout(t) ==
    /\ t \in sessions
    /\ sessions' = AfterLogout(t)
    /\ UNCHANGED <<clientVars, owner, createdAt, chanVars, srv, now, drawn,
                   sent, histVars>>

(* SessionManager::Cleanup, from ServerApp::RunOnce. *)
Cleanup ==
    /\ sessions' = AfterCleanup(sessions, createdAt, now)
    /\ sessions' # sessions
    /\ UNCHANGED <<clientVars, owner, createdAt, chanVars, srv, now, drawn,
                   sent, histVars>>

Tick ==
    /\ now < MaxNow
    /\ now' = now + 1
    /\ UNCHANGED <<clientVars, tableVars, chanVars, srv, drawn, sent, histVars>>
-----------------------------------------------------------------------------
(* ClientCore *)

(* Login: the request; token_ and channel_ are kept until it succeeds. *)
SendLogin(c) ==
    /\ pc[c] = "idle"
    /\ pc' = [pc EXCEPT ![c] = "login"]
    /\ UNCHANGED <<token, chanUser, sendSeq, recvSeq, reply, tableVars,
                   chanVars, srv, now, drawn, sent, histVars>>

(* Login: a successful response. *)
LoggedIn(c) ==
    /\ pc[c] = "loggedIn"
    /\ token' = [token EXCEPT ![c] = reply[c].tok]
    /\ chanUser' = [chanUser EXCEPT ![c] = reply[c].key]
    /\ sendSeq' = [sendSeq EXCEPT ![c] = 0]
    /\ recvSeq' = [recvSeq EXCEPT ![c] = 0]
    /\ pc' = [pc EXCEPT ![c] = "idle"]
    /\ reply' = [reply EXCEPT ![c] = None]
    /\ UNCHANGED <<tableVars, chanVars, srv, now, drawn, sent, histVars>>

(* ProcessEncrypted up to the round trip: the number is spent whether or   *)
(* not the frame ever arrives.                                             *)
Call(c, op) ==
    /\ pc[c] = "idle"
    /\ token[c] # None
    /\ sendSeq[c] < MaxCalls
    /\ sent' = [sent EXCEPT ![token[c]] =
                  Append(@, [seq |-> sendSeq[c], op |-> op,
                             key |-> chanUser[c]])]
    /\ sendSeq' = [sendSeq EXCEPT ![c] = @ + 1]
    /\ pc' = [pc EXCEPT ![c] = "call"]
    /\ UNCHANGED <<token, chanUser, recvSeq, reply, tableVars, chanVars, srv,
                   now, drawn, histVars>>

(* Logout clears token_ whatever becomes of its frame.  No client keeps a  *)
(* token whose last frame was a logout, so the test also serves a login.   *)
LoggingOut(c) ==
    /\ token[c] # None
    /\ sent[token[c]] # << >>
    /\ sent[token[c]][Len(sent[token[c]])].op = "logout"

EndRoundTrip(c) ==
    /\ token' = [token EXCEPT ![c] = IF LoggingOut(c) THEN None ELSE @]
    /\ pc' = [pc EXCEPT ![c] = "idle"]
    /\ reply' = [reply EXCEPT ![c] = None]

(* mutant: any later number is taken *)
ReplyAccepted_Later(c) ==
    reply[c].tok = token[c] /\ reply[c].seq >= recvSeq[c]

(* ProcessEncrypted after the round trip: the token, the key and the       *)
(* number of the response must be the ones expected.                       *)
ReplyAccepted(c) ==
    reply[c] = [tok |-> token[c], seq |-> recvSeq[c], key |-> chanUser[c]]

Receive(c) ==
    /\ pc[c] = "replied"
    /\ IF ReplyAccepted(c)
       THEN /\ recvSeq' = [recvSeq EXCEPT ![c] = @ + 1]
            /\ confirmed' = [confirmed EXCEPT ![token[c]] = @ + 1]
       ELSE UNCHANGED <<recvSeq, confirmed>>
    /\ EndRoundTrip(c)
    /\ UNCHANGED <<chanUser, sendSeq, tableVars, chanVars, srv, now, drawn,
                   sent, log, answered, broken>>

(* The server closed the connection: ProcessRaw returns false. *)
Refused(c) ==
    /\ pc[c] = "closed"
    /\ EndRoundTrip(c)
    /\ UNCHANGED <<chanUser, sendSeq, recvSeq, tableVars, chanVars, srv, now,
                   drawn, sent, histVars>>

(* TcpRoundTrip fails in connect, send or recv, wherever the frame is. *)
GiveUp(c) ==
    /\ pc[c] \in {"login", "call", "served", "loggedIn", "replied"}
    /\ EndRoundTrip(c)
    /\ broken' = IF pc[c] \in {"call", "served", "replied"}
                 THEN broken \cup {token[c]} ELSE broken
    /\ UNCHANGED <<chanUser, sendSeq, recvSeq, tableVars, chanVars, srv, now,
                   drawn, sent, log, answered, confirmed>>

(* Init with a server address, or a client process that starts again. *)
ClientInit(c) ==
    /\ pc[c] = "idle"
    /\ token[c] # None
    /\ token' = [token EXCEPT ![c] = None]
    /\ sendSeq' = [sendSeq EXCEPT ![c] = 0]
    /\ recvSeq' = [recvSeq EXCEPT ![c] = 0]
    /\ UNCHANGED <<chanUser, pc, reply, tableVars, chanVars, srv, now, drawn,
                   sent, histVars>>
-----------------------------------------------------------------------------
(* ConnectionHandler, on the worker of NetworkServer *)

(* OnData on a login frame. *)
ServeLogin(c, t, u) ==
    /\ srv = None
    /\ pc[c] = "login"
    /\ CreateSession(t, u)
    /\ pc' = [pc EXCEPT ![c] = "loggedIn"]
    /\ reply' = [reply EXCEPT ![c] = [tok |-> t, seq |-> 0, key |-> u]]
    /\ UNCHANGED <<token, chanUser, sendSeq, recvSeq, chanVars, srv, now,
                   sent, histVars>>

RefuseLogin(c) ==
    /\ srv = None
    /\ pc[c] = "login"
    /\ pc' = [pc EXCEPT ![c] = "closed"]
    /\ UNCHANGED <<token, chanUser, sendSeq, recvSeq, reply, tableVars,
                   chanVars, srv, now, drawn, sent, histVars>>

(* mutant: a refused connection stays open *)
Reaches_Open(conn, p) ==
    pc' = IF conn = None \/ p = "closed" THEN pc ELSE [pc EXCEPT ![conn] = p]

(* What the connection's client sees next; nobody listens on a connection  *)
(* its client has given up.                                                *)
Reaches(conn, p) ==
    pc' = IF conn = None THEN pc ELSE [pc EXCEPT ![conn] = p]

(* An entry channel_states_[t] has just created, or has never advanced. *)
Unused(t) == t \notin chans \/ (cSend[t] = 0 /\ cRecv[t] = 0)

(* mutant: the entry operator[] made is left behind *)
OnDataUnknown_EntryKept(t, conn) ==
    /\ Unused(t)
    /\ t \notin LiveSessions
    /\ sessions' = AfterGet(sessions, createdAt, now, t)
    /\ chans' = chans \cup {t}
    /\ Reaches(conn, "closed")
    /\ UNCHANGED <<owner, createdAt, cKey, cSend, cRecv, srv>>

(* The entry for an unknown token is erased again. *)
OnDataUnknown(t, conn) ==
    /\ Unused(t)
    /\ t \notin LiveSessions
    /\ sessions' = AfterGet(sessions, createdAt, now, t)
    /\ chans' = chans \ {t}
    /\ Reaches(conn, "closed")
    /\ UNCHANGED <<owner, createdAt, cKey, cSend, cRecv, srv>>

(* The entry after line 64: unused ones take the session's keys. *)
KeyFor(t)  == IF Unused(t) THEN owner[t] ELSE cKey[t]
RecvFor(t) == IF t \in chans THEN cRecv[t] ELSE 0

Decrypts_Later(t, f) ==             \* mutant: a gap is stepped over
    f.key = KeyFor(t) /\ f.seq >= RecvFor(t)

Decrypts_AnySeq(t, f) == f.key = KeyFor(t)      \* mutant: no number check

(* SecureChannel::Decrypt: the number is the expected one, the tag holds. *)
Decrypts(t, f) == f.key = KeyFor(t) /\ f.seq = RecvFor(t)

OnDataDecrypt(t, f, conn) ==
    /\ ~Unused(t) \/ t \in LiveSessions
    /\ chans' = chans \cup {t}
    /\ cKey' = [cKey EXCEPT ![t] = KeyFor(t)]
    /\ cSend' = [cSend EXCEPT ![t] = IF t \in chans THEN @ ELSE 0]
    /\ IF Decrypts(t, f)
       THEN /\ cRecv' = [cRecv EXCEPT ![t] = RecvFor(t) + 1]
            /\ srv' = [tok |-> t, seq |-> f.seq, op |-> f.op, conn |-> conn]
            /\ Reaches(conn, "served")
       ELSE /\ cRecv' = [cRecv EXCEPT ![t] = RecvFor(t)]
            /\ srv' = srv
            /\ Reaches(conn, "closed")
    /\ UNCHANGED tableVars

OnData(t, f, conn) ==
    /\ srv = None
    /\ OnDataUnknown(t, conn) \/ OnDataDecrypt(t, f, conn)
    /\ UNCHANGED <<token, chanUser, sendSeq, recvSeq, reply, now, drawn,
                   sent, histVars>>

(* The worker accepts the connection of a waiting client. *)
Deliver(c) ==
    /\ pc[c] = "call"
    /\ OnData(token[c], sent[token[c]][Len(sent[token[c]])], c)

(* One recv of at most 4096 bytes got only part of the frame: DecodeFrame   *)
(* fails and the connection is closed before any counter moves.            *)
DeliverPart(c) ==
    /\ srv = None
    /\ pc[c] = "call"
    /\ pc' = [pc EXCEPT ![c] = "closed"]
    /\ broken' = broken \cup {token[c]}
    /\ UNCHANGED <<token, chanUser, sendSeq, recvSeq, reply, tableVars,
                   chanVars, srv, now, drawn, sent, log, answered, confirmed>>

(* Frame i of session t turns up on a connection nobody waits on: late,    *)
(* or for a second time.                                                   *)
Redeliver(t, i) ==
    /\ ~ \E c \in Clients :
            token[c] = t /\ pc[c] = "call" /\ i = Len(sent[t])
    /\ OnData(t, sent[t][i], None)

(* The second half of OnData: HandleFrameWithToken, Encrypt, send_seq++,   *)
(* and the erase after a logout.                                           *)
Listens(c) == c # None /\ pc[c] = "served"

Finish(ok, p) ==
    LET t == srv.tok  c == srv.conn IN
    /\ log' = [log EXCEPT ![t] =
                 Append(@, [seq |-> srv.seq, op |-> srv.op, ok |-> ok])]
    /\ pc' = IF Listens(c) THEN [pc EXCEPT ![c] = p] ELSE pc
    /\ srv' = None
    /\ UNCHANGED <<token, chanUser, sendSeq, recvSeq, owner, createdAt, cKey,
                   cRecv, now, drawn, sent, confirmed, broken>>

Respond_EarlyCount ==               \* mutant: send_seq++ before Encrypt
    LET t == srv.tok  c == srv.conn IN
    /\ cSend' = [cSend EXCEPT ![t] = @ + 1]
    /\ answered' = [answered EXCEPT ![t] = @ + 1]
    /\ reply' = IF Listens(c)
                THEN [reply EXCEPT ![c] =
                        [tok |-> t, seq |-> cSend'[t], key |-> cKey[t]]]
                ELSE reply

Respond ==
    LET t == srv.tok  c == srv.conn IN
    /\ cSend' = [cSend EXCEPT ![t] = @ + 1]
    /\ answered' = [answered EXCEPT ![t] = @ + 1]
    /\ reply' = IF Listens(c)
                THEN [reply EXCEPT ![c] =
                        [tok |-> t, seq |-> cSend[t], key |-> cKey[t]]]
                ELSE reply

HandleLogout ==
    /\ srv # None /\ srv.op = "logout"
    /\ sessions' = AfterLogout(srv.tok)
    /\ chans' = chans \ {srv.tok}
    /\ Respond
    /\ Finish(TRUE, "replied")

HandleHeartbeat ==
    /\ srv # None /\ srv.op = "heartbeat"
    /\ Respond
    /\ Finish(TRUE, "replied")
    /\ UNCHANGED <<sessions, chans>>

(* Any call of ApiService that starts with GetSession. *)
HandleApi ==
    /\ srv # None /\ srv.op = "api"
    /\ sessions' = AfterGet(sessions, createdAt, now, srv.tok)
    /\ Respond
    /\ Finish(srv.tok \in LiveSessions, "replied")
    /\ UNCHANGED chans

HandleBad_Counted ==                \* mutant: send_seq++ without a response
    /\ srv # None /\ srv.op = "bad"
    /\ cSend' = [cSend EXCEPT ![srv.tok] = @ + 1]
    /\ Finish(FALSE, "closed")
    /\ UNCHANGED <<sessions, chans, answered, reply>>

HandleBad ==
    /\ srv # None /\ srv.op = "bad"
    /\ Finish(FALSE, "closed")
    /\ UNCHANGED <<sessions, chans, cSend, answered, reply>>

Handle == HandleLogout \/ HandleHeartbeat \/ HandleApi \/ HandleBad

(* The server process ends and starts again: nothing of it is on disk. *)
Restart ==
    /\ drawn # {}
    /\ sessions' = {}
    /\ chans' = {}
    /\ srv' = None
    /\ pc' = [c \in Clients |->
                IF pc[c] \in {"login", "call", "served"} THEN "closed"
                ELSE pc[c]]
    /\ broken' = broken \cup drawn
    /\ UNCHANGED <<token, chanUser, sendSeq, recvSeq, reply, owner, createdAt,
                   cKey, cSend, cRecv, now, drawn, sent, log, answered,
                   confirmed>>
-----------------------------------------------------------------------------
ClientStep(c) ==
    \/ SendLogin(c)
    \/ LoggedIn(c)
    \/ \E op \in Ops : Call(c, op)
    \/ Receive(c)
    \/ Refused(c)

ServerStep ==
    \/ \E c \in Clients, t \in Tokens, u \in Users : ServeLogin(c, t, u)
    \/ \E c \in Clients : RefuseLogin(c)
    \/ \E c \in Clients : Deliver(c)
    \/ Handle

HostStep ==
    \/ \E t \in Tokens, u \in Users : HostLogin(t, u)
    \/ \E t \in Tokens : HostLogout(t)
    \/ Cleanup
    \/ Tick

Fault ==
    \/ \E c \in Clients : GiveUp(c)
    \/ \E c \in Clients : DeliverPart(c)
    \/ \E c \in Clients : ClientInit(c)
    \/ \E t \in Tokens : \E i \in 1..Len(sent[t]) : Redeliver(t, i)
    \/ Restart

Next == (\E c \in Clients : ClientStep(c)) \/ ServerStep \/ HostStep \/ Fault

Spec == Init /\ [][Next]_vars
-----------------------------------------------------------------------------
(* Fairness: NetworkServer's worker never stops serving and takes waiting  *)
(* connections from a FIFO backlog, so a connection that keeps waiting is  *)
(* taken; a client thread goes on when its socket has something for it.    *)
Fairness ==
    /\ WF_vars(Handle)
    /\ \A c \in Clients :
        /\ SF_vars(Deliver(c))
        /\ SF_vars(RefuseLogin(c)
                   \/ \E t \in Tokens, u \in Users : ServeLogin(c, t, u))
        /\ WF_vars(LoggedIn(c) \/ Receive(c) \/ Refused(c))

FairSpec == Spec /\ Fairness
-----------------------------------------------------------------------------
(* Properties *)

(* The calls the server ran for a session are the first ones its client    *)
(* made, in that order and once each, whatever the network lost, delayed   *)
(* or delivered again (SecureChannel::Decrypt's number check, with the     *)
(* counters of ConnectionHandler::OnData).                                 *)
ExecutedInOrder ==
    \A t \in Tokens :
        /\ Len(log[t]) <= Len(sent[t])
        /\ \A i \in 1..Len(log[t]) :
              log[t][i].seq = i - 1 /\ log[t][i].op = sent[t][i].op

(* Nothing runs for a session after its logout ran: the channel entry is   *)
(* erased and no old frame can bring it back (connection_handler.cpp:94).  *)
LogoutIsLast ==
    \A t \in Tokens : \A i \in 1..Len(log[t]) :
        log[t][i].op = "logout" => i = Len(log[t])

(* Why they hold: the facts about counters, tokens and the frame being     *)
(* handled that every step preserves.                                      *)
Holds(c, t) == token[c] = t \/ (pc[c] = "loggedIn" /\ reply[c].tok = t)

(* A token belongs to one ClientCore, and nobody has one not yet drawn. *)
TokensUnique ==
    /\ \A c, d \in Clients : \A t \in Tokens :
          Holds(c, t) /\ Holds(d, t) => c = d
    /\ \A t \in Tokens \ drawn :
          /\ \A c \in Clients : ~Holds(c, t)
          /\ t \notin sessions
          /\ sent[t] = << >>
          /\ log[t] = << >>

(* send_seq_ numbers the frames of the session the client holds. *)
SendCounted ==
    /\ \A t \in Tokens : \A i \in 1..Len(sent[t]) : sent[t][i].seq = i - 1
    /\ \A c \in Clients :
          /\ token[c] # None => sendSeq[c] = Len(sent[token[c]])
          /\ pc[c] = "loggedIn" => sent[reply[c].tok] = << >>

Handling(t) == srv # None /\ srv.tok = t

(* recv_seq counts the calls run, plus the one in hand; an entry is only   *)
(* missing when nothing has run or nothing more can.                       *)
RecvCounted ==
    /\ \A t \in chans :
          cRecv[t] = Len(log[t]) + (IF Handling(t) THEN 1 ELSE 0)
    /\ \A t \in sessions \ chans : log[t] = << >>

(* The frame in hand is the next one of its session. *)
JobIsNext ==
    srv # None =>
        /\ srv.tok \in chans
        /\ Len(log[srv.tok]) < Len(sent[srv.tok])
        /\ srv.seq = Len(log[srv.tok])
        /\ srv.op = sent[srv.tok][srv.seq + 1].op

LogoutEnds ==
    \A t \in Tokens : \A i \in 1..Len(log[t]) :
        log[t][i].op = "logout"
            => i = Len(log[t]) /\ t \notin sessions /\ t \notin chans

(* The inductive invariant behind ExecutedInOrder and LogoutIsLast. *)
OrderInv ==
    /\ TypeOK
    /\ TokensUnique
    /\ SendCounted
    /\ RecvCounted
    /\ JobIsNext
    /\ LogoutEnds
    /\ ExecutedInOrder

(* Once a call was refused because the session had expired or ended, no    *)
(* later one on the same channel succeeds: the channel goes on decrypting, *)
(* but no lookup, clean-up, host login or restart brings the session back, *)
(* and its client has to log in again (session_manager.cpp:69-81).         *)
RefusedForGood ==
    \A t \in Tokens : \A i, j \in 1..Len(log[t]) :
        (/\ i < j
         /\ log[t][i].op = "api" /\ ~log[t][i].ok
         /\ log[t][j].op = "api")
            => ~log[t][j].ok

(* Every entry of channel_states_ belongs to a session that was opened and *)
(* carries its keys: a frame with an unknown token leaves no entry behind  *)
(* (connection_handler.cpp:56-64).                                         *)
ChannelsKeyed ==
    \A t \in chans : t \in drawn /\ cKey[t] = owner[t]

(* As long as no round trip of a session broke, both ends agree on both    *)
(* counters between calls, refused frames included: the reason a client    *)
(* never needs to resynchronise.                                           *)
CleanInStep ==
    \A c \in Clients :
        (pc[c] = "idle" /\ token[c] # None /\ token[c] \notin broken)
            => LET t == token[c] IN
               /\ t \in chans => /\ cRecv[t] = sendSeq[c]
                                 /\ cSend[t] = recvSeq[c]
               /\ t \in LiveSessions \ chans => sendSeq[c] = 0

(* The response of an unbroken session is always accepted by its client.   *)
CleanReplyAccepted ==
    \A c \in Clients :
        (pc[c] = "replied" /\ token[c] \notin broken) => ReplyAccepted(c)

(* A client that missed a response: the server's send_seq is ahead of its  *)
(* recv_seq_ by more than the response in its socket.                      *)
Behind(c) ==
    /\ token[c] \in chans
    /\ cSend[token[c]] > recvSeq[c] + (IF pc[c] = "replied" THEN 1 ELSE 0)

(* No gap is ever stepped over: from the first missed response on, the     *)
(* client confirms no further call of that session, and only a new login   *)
(* helps (client_core.cpp:337).                                            *)
NoGapAccepted ==
    [][\A c \in Clients :
         Behind(c) /\ token'[c] = token[c] => recvSeq'[c] = recvSeq[c]]_vars

(* Every login and call returns to its caller: the worker always goes back *)
(* to the backlog, whatever frames it meets.                               *)
CallsReturn == \A c \in Clients : (pc[c] # "idle") ~> (pc[c] = "idle")

(* A session has ended for its calls when OnData would not find keys for   *)
(* it any more and holds none of its frames.                               *)
EndedSessions ==
    {t \in drawn : /\ t \notin LiveSessions
                   /\ Unused(t)
                   /\ ~(srv # None /\ srv.tok = t)}

Rpc == INSTANCE RpcAbstract WITH
            issued   <- [t \in Tokens |-> Len(sent[t])],
            executed <- [t \in Tokens |-> Len(log[t])],
            ended    <- EndedSessions

(* The protocol implements RpcAbstract. *)
RpcRefinement == Rpc!Spec
=============================================================================
