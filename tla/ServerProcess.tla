---------------------------- MODULE ServerProcess ----------------------------
(***************************************************************************)
(* The server program and the clients that call it: ServerApp comes up     *)
(* (ServerStart), NetworkServer is started and stopped by its owner while  *)
(* its worker takes one connection after the other, and each connection    *)
(* carries one frame there and one back, byte for byte (CallFormat).       *)
(*                                                                         *)
(* What the services answer is a choice here, and so is whether a session  *)
(* and its numbers still hold: other modules say which.  Only the login is *)
(* judged in this one.                                                     *)
(***************************************************************************)
EXTENDS ServerStart, CallFormat

CONSTANTS
    Clients,        \* processes with a ClientCore in remote mode
    TokenOf,        \* the token a client's logins get; they are not told apart
    Calls,          \* the calls each of them makes
    Mail,           \* what a pull may return: lists of messages
    FriendLists,    \* lists of <<user, remark>>
    RecvLimit,      \* most bytes of one recv: 4096 in the code
    Backlog         \* connections that may wait for accept: 8 in the code

(* 4096 < 12 + 2 + 65535: no frame with a cut string fits into one recv. *)
ASSUME ProcessAssumption ==
    /\ RecvLimit \in Nat \ {0} /\ Backlog \in Nat \ {0}
    /\ RecvLimit < HeaderSize + 2 + MaxString
    /\ \A c \in Clients : /\ TokenOf[c] \in Seq(Nat) \ {<< >>}
                          /\ Len(TokenOf[c]) <= MaxString
    /\ \A c \in Clients : Calls[c] \subseteq ClientCalls
    /\ Mail \subseteq MessageLists /\ FriendLists \subseteq FriendPairLists

(* A hash is written in hexadecimal. *)
ASSUME HashAssumption ==
    \A c \in Clients : \A call \in Calls[c] : Colon \notin Range(Sha256Hex(call.text))

VARIABLES
    running,    \* running_
    listening,  \* listen_fd_ is a socket
    owner,      \* "out" of NetworkServer, or "joining" in Stop
    worker,     \* "none", at the "loop" test, in "accept" or in "serve"
    backlog,    \* clients whose connection waits for accept
    place,      \* each client: "idle" or its connection "queued", "accepted"
                \* by the worker or "closed" by the server
    client      \* the call of each client

netVars == <<running, listening, owner, worker, backlog, place, client>>
vars == <<startVars, netVars>>

(* A client between calls, with the token of its last login.  heard and    *)
(* answer are history: the call FrameRouter handed to ApiService and the   *)
(* response it got, as sets of at most one element.                        *)
Idle(token) == [token |-> token, call |-> << >>, heard |-> {}, answer |-> {},
                reply |-> << >>]

TypeOK ==
    /\ StartTypeOK
    /\ running \in BOOLEAN /\ listening \in BOOLEAN
    /\ owner \in {"out", "joining"}
    /\ worker \in {"none", "loop", "accept", "serve"}
    /\ backlog \in Seq(Clients) /\ Len(backlog) <= Backlog
    /\ place \in [Clients -> {"idle", "queued", "accepted", "closed"}]

Init ==
    /\ StartInit
    /\ running = FALSE /\ listening = FALSE
    /\ owner = "out" /\ worker = "none"
    /\ backlog = << >>
    /\ place = [c \in Clients |-> "idle"]
    /\ client = [c \in Clients |-> Idle(<< >>)]
-----------------------------------------------------------------------------
(* The bytes of a connection *)

(* SecureChannel with a byte of number and a byte of tag; SecureRpc says   *)
(* when they fit.                                                          *)
Seal(plain) == <<0>> \o plain \o <<0>>
Open(cipher) == SubSeq(cipher, 2, Len(cipher) - 1)

Request(c) ==
    LET call == client[c].call IN
    EncodeFrame(TypeOf(call.op),
                IF call.op = "login" THEN EncodeCall(call)
                ELSE WriteString(client[c].token) \o Seal(EncodeCall(call)))

Received_Whole(bytes) ==        \* mutant: recv is repeated until all is there
    {SubSeq(bytes, 1, n) : n \in 0..Len(bytes)}

(* One recv: whatever has come of it, nothing if the connection broke. *)
Received(bytes) ==
    {SubSeq(bytes, 1, n) : n \in 0..Min({Len(bytes), RecvLimit})}

(* OnData up to the call of ApiService. *)
Handle(frame) ==
    IF frame.type = FrameTypes.login
    THEN DecodeCall(frame.type, frame.payload, << >>, DefaultThreshold)
    ELSE Then(ReadString(frame.payload, 0),
              LAMBDA token, at :
                 DecodeCall(frame.type,
                            Open(SubSeq(frame.payload, at + 1, Len(frame.payload))),
                            token, DefaultThreshold))

Heard(data) == Then(DecodeFrame(data), LAMBDA frame, at : Handle(frame))

Reply(c, call, r) ==
    LET out == EncodeResponse(call.op, r) IN
    EncodeFrame(TypeOf(call.op),
                IF call.op = "login" THEN out
                ELSE WriteString(client[c].token) \o Seal(out))

(* What ClientCore makes of the bytes that came back. *)
OpenReply(c, frame) ==
    IF client[c].call.op = "login"
    THEN IF frame.type = FrameTypes.login THEN Got(frame.payload, 0) ELSE Unread
    ELSE Then(ReadString(frame.payload, 0),
              LAMBDA token, at :
                 IF token # client[c].token THEN Unread
                 ELSE Got(Open(SubSeq(frame.payload, at + 1, Len(frame.payload))),
                          0))

ResultOf(op, plain) ==
    IF plain.ok THEN ParseResponse(op, plain.value) ELSE NoReply(op)

Result(c) ==
    ResultOf(client[c].call.op,
             Then(DecodeFrame(client[c].reply),
                  LAMBDA frame, at : OpenReply(c, frame)))
-----------------------------------------------------------------------------
(* What ApiService may answer *)

ErrorText == [accepted |-> << >>, refused |-> <<1>>, denied |-> <<2>>,
              failed |-> <<3>>]

Answers(c, call) ==
    LET good(rotation, list) == Response(TRUE, << >>, << >>, rotation, list) IN
    CASE call.op = "login" ->
            {Response(v = "accepted", ErrorText[v],
                      IF v = "accepted" THEN TokenOf[c] ELSE << >>, << >>, << >>) :
                v \in Verdicts(call.name, call.text)}
      [] OTHER ->
            {Response(FALSE, <<1>>, << >>, << >>, << >>)} \cup
            CASE call.op \in {"join", "leave", "kick"} -> {good(<<1, 0>>, << >>)}
              [] call.op = "message" -> {good(<< >>, << >>), good(<<2, 1>>, << >>)}
              [] call.op = "pull" -> {good(<< >>, m) : m \in Mail}
              [] call.op = "friends" -> {good(<< >>, l) : l \in FriendLists}
              [] call.op = "add" -> {good(<< >>, << >>) :
                                       v \in UserExists(call.name) \cap {"accepted"}}
              [] OTHER -> {good(<< >>, << >>)}
-----------------------------------------------------------------------------
(* The owner's thread *)

StartSocket == listening' = TRUE

(* What nobody has accepted is reset. *)
StopSocket ==
    /\ listening' = FALSE
    /\ backlog' = << >>
    /\ place' = [c \in Clients |->
                   IF place[c] = "queued" THEN "closed" ELSE place[c]]

(* Start of a server that runs returns at once; one whose socket cannot be *)
(* made changes nothing.                                                   *)
Start ==
    /\ stage = "ready"
    /\ owner = "out"
    /\ ~running
    /\ StartSocket
    /\ running' = TRUE
    /\ worker' = "loop"
    /\ UNCHANGED <<startVars, owner, backlog, place, client>>

Stop_StillRunning ==            \* mutant: the flag is not cleared
    /\ stage = "ready" /\ owner = "out"
    /\ owner' = "joining"
    /\ UNCHANGED <<startVars, running, listening, worker, backlog, place, client>>

Stop_ClosesFirst ==             \* mutant: the socket is closed before the join
    /\ stage = "ready" /\ owner = "out"
    /\ owner' = "joining"
    /\ running' = FALSE
    /\ listening' = FALSE
    /\ UNCHANGED <<startVars, worker, backlog, place, client>>

Stop ==
    /\ stage = "ready"
    /\ owner = "out"
    /\ owner' = "joining"
    /\ running' = FALSE
    /\ UNCHANGED <<startVars, listening, worker, backlog, place, client>>

(* join returns and the socket is closed. *)
Joined ==
    /\ owner = "joining"
    /\ worker = "none"
    /\ owner' = "out"
    /\ StopSocket
    /\ UNCHANGED <<startVars, running, worker, client>>
-----------------------------------------------------------------------------
(* The worker: NetworkServer::Run *)

Loop ==
    /\ worker = "loop"
    /\ worker' = IF running THEN "accept" ELSE "none"
    /\ UNCHANGED <<startVars, running, listening, owner, backlog, place, client>>

Accept ==
    /\ worker = "accept"
    /\ backlog # << >>
    /\ worker' = "serve"
    /\ place' = [place EXCEPT ![Head(backlog)] = "accepted"]
    /\ backlog' = Tail(backlog)
    /\ UNCHANGED <<startVars, running, listening, owner, client>>

(* accept may fail for other reasons than a closed socket. *)
AcceptFails ==
    /\ worker = "accept"
    /\ worker' = "loop"
    /\ UNCHANGED <<startVars, running, listening, owner, backlog, place, client>>

Close(c, heard, answer, reply) ==
    /\ place' = [place EXCEPT ![c] = "closed"]
    /\ client' = [client EXCEPT ![c].heard = heard, ![c].answer = answer,
                                ![c].reply = reply]

(* recv, Process, send and close. *)
Serve ==
    /\ worker = "serve"
    /\ worker' = "loop"
    /\ \E c \in Clients :
          /\ place[c] = "accepted"
          /\ \E heard \in {Heard(data) : data \in Received(Request(c))} :
                \/ /\ ~heard.ok
                   /\ Close(c, {}, {}, << >>)
                   /\ UNCHANGED <<secret, turned>>
                \/ /\ heard.ok
                   /\ \E r \in Answers(c, heard.value) :
                         Close(c, {heard.value}, {r}, Reply(c, heard.value, r))
                   /\ \/ heard.value.op \in {"login", "add"} /\ ReadSecret
                      \/ heard.value.op # "login" /\ UNCHANGED <<secret, turned>>
                \/ /\ heard.ok /\ heard.value.op # "login"
                   /\ Close(c, {}, {}, << >>)
                   /\ UNCHANGED <<secret, turned>>
    /\ UNCHANGED <<stage, section, config, registered, users,
                   running, listening, owner, backlog>>
-----------------------------------------------------------------------------
(* The clients *)

(* TcpRoundTrip up to its shutdown; where nobody listens it returns.  A    *)
(* call that needs a token returns without one.                            *)
Connect(c) ==
    /\ place[c] = "idle"
    /\ listening
    /\ Len(backlog) < Backlog
    /\ \E call \in Calls[c] :
          /\ call.op = "login" \/ client[c].token # << >>
          /\ client' = [client EXCEPT ![c].call = call]
    /\ place' = [place EXCEPT ![c] = "queued"]
    /\ backlog' = Append(backlog, c)
    /\ UNCHANGED <<startVars, running, listening, owner, worker>>

(* The rest of the call, with the whole reply or, if the connection broke, *)
(* with none.                                                              *)
Return(c) ==
    /\ place[c] = "closed"
    /\ place' = [place EXCEPT ![c] = "idle"]
    /\ \E whole \in BOOLEAN :
          LET op == client[c].call.op
              result == IF whole THEN Result(c) ELSE NoReply(op)
          IN  client' = [client EXCEPT ![c] =
                 Idle(IF op = "logout" THEN << >>
                      ELSE IF op = "login" /\ result.ok THEN result.list[1]
                      ELSE client[c].token)]
    /\ UNCHANGED <<startVars, running, listening, owner, worker, backlog>>
-----------------------------------------------------------------------------
Next ==
    \/ ServerInit /\ UNCHANGED netVars
    \/ Start \/ Stop \/ Joined
    \/ Loop \/ Accept \/ AcceptFails \/ Serve
    \/ \E c \in Clients : Connect(c) \/ Return(c)

Spec == Init /\ [][Next]_vars

(* The threads run; that accept fails, that a client calls and that the    *)
(* owner stops the server is nobody's duty.  Serve alone leads from        *)
(* "serve" to "loop" and it always can.                                    *)
FairSpec ==
    /\ Spec
    /\ WF_vars(Loop) /\ WF_vars(Accept) /\ WF_vars(Joined)
    /\ WF_worker(worker = "serve" /\ worker' = "loop")
-----------------------------------------------------------------------------
(* What the API call means to its caller. *)
ResultMeant(op, r) ==
    CASE op = "login" -> Returned(r.success, IF r.success THEN <<r.token>> ELSE << >>)
      [] op = "logout" -> Returned(TRUE, << >>)
      [] op \in {"pull", "friends"} -> Returned(TRUE, r.list)
      [] OTHER -> Returned(r.success, << >>)

(* The server does the call that was typed or none, and the caller gets    *)
(* the result that was answered or none: no cut of a string, of a frame or *)
(* of a list turns a call or a response into another.                      *)
CallsUnderstood ==
    \A c \in Clients : place[c] = "closed" =>
       /\ client[c].heard \subseteq {client[c].call}
       /\ \A r \in client[c].answer : Result(c) = ResultMeant(client[c].call.op, r)

(* The ways to write a password into a line: as it is, and in a database   *)
(* also hashed, alone or after a salt and a colon.  Any text is a writing  *)
(* of itself, a hash too: nothing in a line says which way was meant.      *)
WrittenAs(mode, input, stored) ==
    \/ stored = input
    \/ mode = "mysql" /\ stored = Sha256Hex(input)
    \/ /\ mode = "mysql"
       /\ \E n \in 1..Len(stored) :
             LET salt == SubSeq(stored, 1, n - 1) IN
             /\ stored[n] = Colon /\ \A i \in 1..(n - 1) : stored[i] # Colon
             /\ SubSeq(stored, n + 1, Len(stored)) = Sha256Hex(salt \o input)

(* A login succeeds only with a text the first line of its name is a       *)
(* writing of (the stored text is one of them, auth_provider.cpp:32), and  *)
(* never with an empty one; it is refused only without such a text; only a *)
(* database password that has been turned around makes the server unable   *)
(* to tell; and only a name with a line becomes a friend.                  *)
VerdictsJust ==
    \A c \in Clients : \A call \in client[c].heard, r \in client[c].answer :
       LET lines == {i \in 1..Len(registered) : registered[i].name = call.name}
           right == /\ call.text # << >>
                    /\ \E i \in lines :
                          /\ WrittenAs(Mode, call.text, registered[i].stored)
                          /\ \A j \in lines : i <= j
       IN  /\ call.op = "login" =>
                 /\ r.success => right
                 /\ r.error = ErrorText.refused => ~right
                 /\ r.error = ErrorText.denied => turned
           /\ call.op = "add" /\ r.success => lines # {}

(* The worker never accepts on a closed socket, and after Stop there is    *)
(* neither a worker, nor a socket, nor a connection nobody answers: a      *)
(* second Start finds everything as the first one did.                     *)
SocketOutlivesWorker ==
    /\ worker # "none" => listening
    /\ owner = "out" /\ ~running =>
          /\ worker = "none" /\ ~listening
          /\ \A c \in Clients : place[c] \in {"idle", "closed"}

(* Stop waits for a worker that may be blocked in accept: one client that  *)
(* connects is enough to let it return.                                    *)
StopReturns == (owner = "joining" /\ backlog # << >>) ~> (owner = "out")
=============================================================================
