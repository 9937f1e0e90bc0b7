--------------------------- MODULE SecureRpcProofs ---------------------------
(***************************************************************************)
(* Theorems about SecureRpc, for every set of clients, tokens and users,   *)
(* every Ttl and every bound.                                              *)
(*   - Its types, and the order of calls: OrderInv is inductive, so the    *)
(*     server runs a session's calls in order, once each, and none after   *)
(*     its logout.                                                         *)
(*   - Keys, counters and lifetimes of its sessions: the channels hold the *)
(*     keys of their sessions, both ends of an unbroken session agree on   *)
(*     both counters, a gap is never stepped over, no call is served after *)
(*     the session's lifetime, and the protocol implements RpcAbstract.    *)
(***************************************************************************)
EXTENDS SecureRpc, SequenceTheorems, TLAPS

(* No field of a fresh process is out of range. *)
LEMMA TypeInit == Init => TypeOK
BY ConstantsAssumption DEF Init, TypeOK, PcValues, RoundTripOK

(* What one half of OnData does to the variables TypeOK ranges over. *)
LEMMA OnDataType ==
    ASSUME TypeOK, NEW t \in Tokens, NEW f \in Frames,
           NEW conn \in Clients \cup {None},
           conn # None => pc[conn] = "call",
           OnData(t, f, conn)
    PROVE  TypeOK'
<1>1. PICK p \in {"served", "closed"} : Reaches(conn, p)
  BY DEF OnData, OnDataUnknown, OnDataDecrypt
<1>2. reply' = reply /\ pc' \in [Clients -> PcValues]
  BY <1>1, ConstantsAssumption DEF TypeOK, OnData, Reaches, PcValues
<1>3. ASSUME NEW c \in Clients
      PROVE  RoundTripOK(c)'
  BY <1>1, <1>2, ConstantsAssumption
  DEF TypeOK, Reaches, PcValues, RoundTripOK, OnData
<1>4. CASE OnDataUnknown(t, conn)
  BY <1>2, <1>3, <1>4 DEF TypeOK, OnData, OnDataUnknown, AfterGet, histVars
<1>5. CASE OnDataDecrypt(t, f, conn)
  <2>1. chans' \subseteq Tokens /\ cKey' \in [Tokens -> Users \cup {None}]
    BY <1>5 DEF TypeOK, OnDataDecrypt, KeyFor
  <2>2. cSend' \in [Tokens -> Nat] /\ cRecv' \in [Tokens -> Nat]
    <3>1. RecvFor(t) \in Nat /\ RecvFor(t) + 1 \in Nat
      BY DEF TypeOK, RecvFor
    <3>2. cSend' \in [Tokens -> Nat]
      BY <1>5 DEF TypeOK, OnDataDecrypt
    <3>3. \E n \in Nat : cRecv' = [cRecv EXCEPT ![t] = n]
      BY <1>5, <3>1 DEF OnDataDecrypt
    <3> QED
      BY <3>2, <3>3 DEF TypeOK
  <2>3. srv' \in Jobs \cup {None}
    BY <1>5 DEF TypeOK, OnDataDecrypt, Jobs, Frames, OnData
  <2> QED
    BY <1>2, <1>3, <1>5, <2>1, <2>2, <2>3
    DEF TypeOK, OnData, OnDataDecrypt, tableVars, histVars
<1> QED
  BY <1>4, <1>5 DEF OnData

(* The handlers share what the end of OnData does. *)
LEMMA HandleType == TypeOK /\ Handle => TypeOK'
<1> SUFFICES ASSUME TypeOK, Handle PROVE TypeOK'
  OBVIOUS
<1> DEFINE t == srv.tok
           c == srv.conn
<1>1. /\ srv # None
      /\ sessions' \subseteq sessions
      /\ chans' \subseteq chans
  BY DEF Handle, HandleLogout, HandleHeartbeat, HandleApi, HandleBad,
         AfterLogout, AfterGet
<1>2. t \in Tokens /\ c \in Clients \cup {None} /\ srv \in Jobs
  BY <1>1 DEF TypeOK, Jobs
<1>3. PICK ok \in BOOLEAN, p \in {"replied", "closed"} :
        /\ Finish(ok, p)
        /\ \/ Respond /\ p = "replied"
           \/ UNCHANGED <<cSend, answered, reply>> /\ p = "closed"
  <2>1. CASE HandleLogout
    BY <2>1 DEF HandleLogout
  <2>2. CASE HandleHeartbeat
    BY <2>2 DEF HandleHeartbeat
  <2>3. CASE HandleApi
    <3>1. Finish(srv.tok \in LiveSessions, "replied") /\ Respond
      BY <2>3 DEF HandleApi
    <3>2. (srv.tok \in LiveSessions) \in BOOLEAN
      OBVIOUS
    <3> QED
      BY <3>1, <3>2, Zenon
  <2>4. CASE HandleBad
    BY <2>4 DEF HandleBad
  <2> QED
    BY <2>1, <2>2, <2>3, <2>4 DEF Handle
<1>4. log' \in [Tokens -> Seq(Entries)]
  <2> DEFINE e == [seq |-> srv.seq, op |-> srv.op, ok |-> ok]
  <2>1. e \in Entries
    BY <1>2, <1>3 DEF TypeOK, Jobs, Entries
  <2>2. log' = [log EXCEPT ![t] = Append(log[t], e)]
    BY <1>3 DEF Finish
  <2>3. Append(log[t], e) \in Seq(Entries)
    BY <1>2, <2>1 DEF TypeOK
  <2> QED
    BY <1>2, <2>2, <2>3 DEF TypeOK
<1>5. pc' \in [Clients -> PcValues]
  BY <1>2, <1>3 DEF TypeOK, Finish, PcValues
<1>6. /\ cSend' \in [Tokens -> Nat]
      /\ answered' \in [Tokens -> Nat]
      /\ reply' \in [Clients -> Replies \cup {None}]
  <2>1. CASE UNCHANGED <<cSend, answered, reply>>
    BY <2>1 DEF TypeOK
  <2>2. CASE Respond
    <3>0. /\ cSend' = [cSend EXCEPT ![t] = @ + 1]
          /\ answered' = [answered EXCEPT ![t] = @ + 1]
          /\ cSend \in [Tokens -> Nat] /\ answered \in [Tokens -> Nat]
      BY <2>2 DEF TypeOK, Respond
    <3>1. cSend' \in [Tokens -> Nat] /\ answered' \in [Tokens -> Nat]
      BY <1>2, <3>0
    <3> DEFINE r == [tok |-> t, seq |-> cSend[t], key |-> cKey[t]]
    <3>2. PICK w \in {r} : reply' = IF Listens(c) THEN [reply EXCEPT ![c] = w]
                                     ELSE reply
      BY <2>2 DEF Respond
    <3>3. r \in Replies
      BY <1>2 DEF TypeOK, Replies
    <3> HIDE DEF r
    <3>4. reply' \in [Clients -> Replies \cup {None}]
      BY <1>2, <3>2, <3>3 DEF TypeOK, Listens
    <3> QED
      BY <3>1, <3>4
  <2> QED
    BY <1>3, <2>1, <2>2
<1>7. \A d \in Clients : RoundTripOK(d)'
  <2>1. CASE UNCHANGED <<cSend, answered, reply>> /\ p = "closed"
    BY <1>2, <1>3, <2>1 DEF TypeOK, Finish, Listens, PcValues, RoundTripOK
  <2>2. CASE Respond /\ p = "replied"
    <3> DEFINE r == [tok |-> t, seq |-> cSend[t], key |-> cKey[t]]
    <3>1. r # None
      BY ConstantsAssumption, <1>2 DEF TypeOK, Replies
    <3>2. PICK w \in {r} : reply' = IF Listens(c) THEN [reply EXCEPT ![c] = w]
                                     ELSE reply
      BY <2>2 DEF Respond
    <3> HIDE DEF r
    <3> QED
      BY <1>2, <1>3, <2>2, <3>1, <3>2 DEF TypeOK, Finish, Listens, PcValues, RoundTripOK
  <2> QED
    BY <1>3, <2>1, <2>2
<1> QED
  BY <1>1, <1>3, <1>4, <1>5, <1>6, <1>7 DEF TypeOK, Finish

(* The client's end of a round trip. *)
LEMMA EndRoundTripType ==
    ASSUME TypeOK, NEW c \in Clients, EndRoundTrip(c), sent' = sent
    PROVE  /\ token' \in [Clients -> Tokens \cup {None}]
           /\ pc' \in [Clients -> PcValues]
           /\ reply' \in [Clients -> Replies \cup {None}]
           /\ \A d \in Clients : RoundTripOK(d)'
BY DEF TypeOK, EndRoundTrip, PcValues, RoundTripOK

(* The client's steps keep every field in range. *)
LEMMA ClientType ==
    ASSUME TypeOK, NEW c \in Clients,
           ClientStep(c) \/ GiveUp(c) \/ ClientInit(c)
    PROVE  TypeOK'
<1> USE DEF tableVars, chanVars, histVars
<1>1. CASE SendLogin(c)
  BY <1>1 DEF TypeOK, SendLogin, PcValues, RoundTripOK
<1>2. CASE LoggedIn(c)
  <2>1. reply[c] \in Replies
    BY <1>2 DEF TypeOK, LoggedIn, RoundTripOK
  <2> QED
    BY <1>2, <2>1 DEF TypeOK, LoggedIn, PcValues, Replies, RoundTripOK
<1>3. ASSUME NEW op \in Ops, Call(c, op)
      PROVE  TypeOK'
  <2> DEFINE f == [seq |-> sendSeq[c], op |-> op, key |-> chanUser[c]]
  <2>1. token[c] \in Tokens /\ f \in Frames
    BY <1>3 DEF TypeOK, Call, Frames, RoundTripOK
  <2>2. sent' = [sent EXCEPT ![token[c]] = Append(sent[token[c]], f)]
    BY <1>3 DEF Call
  <2>3. sent' \in [Tokens -> Seq(Frames)]
    BY <2>1, <2>2 DEF TypeOK
  <2>4. sendSeq' \in [Clients -> Nat] /\ pc' \in [Clients -> PcValues]
    BY <1>3 DEF TypeOK, Call, PcValues
  <2>5. Append(sent[token[c]], f) # << >>
    <3>1. sent[token[c]] \in Seq(Frames)
      BY <2>1 DEF TypeOK
    <3> HIDE DEF f
    <3> QED
      BY <2>1, <3>1, AppendProperties
  <2>6. \A d \in Clients : RoundTripOK(d)'
    BY <1>3, <2>1, <2>2, <2>5 DEF TypeOK, Call, PcValues, RoundTripOK
  <2> HIDE DEF f
  <2> QED
    BY <1>3, <2>3, <2>4, <2>6 DEF TypeOK, Call
<1>4. CASE Receive(c)
  <2>1. token[c] \in Tokens
    BY <1>4 DEF TypeOK, Receive, RoundTripOK
  <2>2. CASE ReplyAccepted(c)
    <3>1. /\ recvSeq' = [recvSeq EXCEPT ![c] = @ + 1]
          /\ confirmed' = [confirmed EXCEPT ![token[c]] = @ + 1]
      BY <1>4, <2>2 DEF Receive
    <3>2. recvSeq' \in [Clients -> Nat] /\ confirmed' \in [Tokens -> Nat]
      BY <2>1, <3>1 DEF TypeOK
    <3> QED
      BY <1>4, <3>2, EndRoundTripType DEF TypeOK, Receive
  <2>3. CASE ~ReplyAccepted(c)
    BY <1>4, <2>3, EndRoundTripType DEF TypeOK, Receive
  <2> QED
    BY <2>2, <2>3
<1>5. CASE Refused(c)
  BY <1>5, EndRoundTripType DEF TypeOK, Refused
<1>6. CASE GiveUp(c)
  <2>1. broken' \subseteq Tokens
    BY <1>6 DEF TypeOK, GiveUp, RoundTripOK
  <2> QED
    BY <1>6, <2>1, EndRoundTripType DEF TypeOK, GiveUp
<1>7. CASE ClientInit(c)
  BY <1>7 DEF TypeOK, ClientInit, RoundTripOK
<1> QED
  BY <1>1, <1>2, <1>3, <1>4, <1>5, <1>6, <1>7 DEF ClientStep

(* Every step, of any process, keeps every field in range. *)
LEMMA TypeNext == TypeOK /\ [Next]_vars => TypeOK'
<1> SUFFICES ASSUME TypeOK, [Next]_vars PROVE TypeOK'
  OBVIOUS
<1> USE DEF clientVars, tableVars, chanVars, histVars
<1>1. ASSUME NEW c \in Clients, ClientStep(c) \/ GiveUp(c) \/ ClientInit(c)
      PROVE  TypeOK'
  BY <1>1, ClientType
<1>2. ASSUME NEW c \in Clients, NEW t \in Tokens, NEW u \in Users,
             ServeLogin(c, t, u)
      PROVE  TypeOK'
  <2> DEFINE r == [tok |-> t, seq |-> 0, key |-> u]
  <2>1. r \in Replies /\ r # None
    BY ConstantsAssumption DEF Replies
  <2>2. reply' = [reply EXCEPT ![c] = r]
    BY <1>2 DEF ServeLogin
  <2> HIDE DEF r
  <2>3. \A d \in Clients : RoundTripOK(d)'
    BY <1>2, <2>1, <2>2 DEF TypeOK, ServeLogin, PcValues, RoundTripOK
  <2>4. pc' \in [Clients -> PcValues] /\ reply' \in [Clients -> Replies \cup {None}]
    BY <1>2, <2>1, <2>2 DEF TypeOK, ServeLogin, PcValues
  <2>5. /\ sessions' \subseteq Tokens /\ drawn' \subseteq Tokens
        /\ owner' \in [Tokens -> Users \cup {None}]
        /\ createdAt' \in [Tokens -> Nat]
    BY <1>2 DEF TypeOK, ServeLogin, CreateSession
  <2> QED
    BY <1>2, <2>3, <2>4, <2>5 DEF TypeOK, ServeLogin
<1>3. ASSUME NEW c \in Clients, RefuseLogin(c)
      PROVE  TypeOK'
  BY <1>3 DEF TypeOK, RefuseLogin, PcValues, RoundTripOK
<1>4. ASSUME NEW c \in Clients, Deliver(c)
      PROVE  TypeOK'
  <2> DEFINE s == sent[token[c]]
  <2>1. token[c] \in Tokens /\ s \in Seq(Frames) /\ s # << >>
    BY <1>4 DEF TypeOK, Deliver, RoundTripOK
  <2>2. s[Len(s)] \in Frames
    BY <2>1
  <2> QED
    BY <1>4, <2>1, <2>2, OnDataType DEF Deliver
<1>5. CASE Handle
  BY <1>5, HandleType
<1>6. ASSUME NEW t \in Tokens, NEW u \in Users, HostLogin(t, u)
      PROVE  TypeOK'
  BY <1>6 DEF TypeOK, HostLogin, CreateSession, RoundTripOK
<1>7. ASSUME NEW t \in Tokens, HostLogout(t)
      PROVE  TypeOK'
  BY <1>7 DEF TypeOK, HostLogout, AfterLogout, RoundTripOK
<1>8. CASE Cleanup
  BY <1>8 DEF TypeOK, Cleanup, AfterCleanup, Live, RoundTripOK
<1>9. CASE Tick
  BY <1>9 DEF TypeOK, Tick, RoundTripOK
<1>10. ASSUME NEW t \in Tokens, NEW i \in 1..Len(sent[t]), Redeliver(t, i)
       PROVE  TypeOK'
  <2>1. sent[t][i] \in Frames
    BY DEF TypeOK
  <2> QED
    BY <1>10, <2>1, OnDataType DEF Redeliver
<1>11. CASE Restart
  <2>1. pc' \in [Clients -> PcValues]
    BY <1>11 DEF TypeOK, Restart, PcValues
  <2>2. \A d \in Clients : RoundTripOK(d)'
    BY <1>11 DEF TypeOK, Restart, PcValues, RoundTripOK
  <2> QED
    BY <1>11, <2>1, <2>2 DEF TypeOK, Restart
<1>12. CASE UNCHANGED vars
  BY <1>12 DEF TypeOK, vars, RoundTripOK
<1>13. ASSUME NEW c \in Clients, DeliverPart(c)
       PROVE  TypeOK'
  BY <1>13 DEF TypeOK, DeliverPart, PcValues, RoundTripOK
<1> QED
  BY <1>1, <1>2, <1>3, <1>4, <1>5, <1>6, <1>7, <1>8, <1>9, <1>10, <1>11, <1>12,
     <1>13
  DEF Next, ServerStep, HostStep, Fault

(* Every variable keeps its type, a response waits in a socket exactly     *)
(* when the round trip says so, and a call always has a session and a      *)
(* frame, whatever the network, the host threads and the clock do.         *)
THEOREM TypeCorrect == Spec => []TypeOK
BY TypeInit, TypeNext, PTL DEF Spec
-----------------------------------------------------------------------------
(* A fresh process has sent and run nothing. *)
LEMMA OrderInit == Init => OrderInv
<1> SUFFICES ASSUME Init PROVE OrderInv
  OBVIOUS
<1>1. TypeOK
  BY TypeInit
<1> QED
  BY <1>1, ConstantsAssumption
  DEF Init, OrderInv, TokensUnique, Holds, SendCounted, RecvCounted,
      JobIsNext, LogoutEnds, ExecutedInOrder

(* Both halves of OnData keep the tokens and the frames where they are. *)
LEMMA HoldsStable ==
    ASSUME TypeOK, TokensUnique, SendCounted,
           drawn' = drawn, sent' = sent, sendSeq' = sendSeq,
           sessions' \subseteq sessions,
           \A t \in Tokens : log[t] = << >> => t \in drawn \/ log'[t] = << >>,
           token' = token,
           \A c \in Clients : pc'[c] = "loggedIn" =>
                pc[c] = "loggedIn" /\ reply'[c] = reply[c]
    PROVE  TokensUnique' /\ SendCounted'
<1>1. \A c \in Clients, t \in Tokens : Holds(c, t)' => Holds(c, t)
  BY DEF Holds
<1>2. TokensUnique'
  BY <1>1 DEF TypeOK, TokensUnique
<1>3. SendCounted'
  BY DEF TypeOK, SendCounted
<1> QED
  BY <1>2, <1>3

(* The first half of OnData takes in hand only the next frame of a session. *)
LEMMA OnDataOrder ==
    ASSUME OrderInv, TypeOK', NEW t \in Tokens, NEW k \in 1..Len(sent[t]),
           NEW conn \in Clients \cup {None},
           conn # None => pc[conn] = "call",
           OnData(t, sent[t][k], conn)
    PROVE  OrderInv'
<1> DEFINE f == sent[t][k]
<1>0. TypeOK /\ srv = None /\ f \in Frames /\ sent[t] \in Seq(Frames)
  <2>1. TypeOK /\ srv = None
    BY DEF OrderInv, OnData
  <2>2. sent[t] \in Seq(Frames)
    BY <2>1 DEF TypeOK
  <2> QED
    BY <2>1, <2>2
<1>1. /\ UNCHANGED <<token, sendSeq, drawn, sent, log, reply>>
      /\ sessions' \subseteq sessions
  BY DEF OnData, OnDataUnknown, OnDataDecrypt, AfterGet, tableVars, histVars
<1>2. PICK p \in {"served", "closed"} : Reaches(conn, p)
  BY DEF OnData, OnDataUnknown, OnDataDecrypt
<1>3. \A c \in Clients : pc'[c] = "loggedIn" => pc[c] = "loggedIn"
  BY <1>0, <1>2 DEF Reaches, TypeOK
<1>4. TokensUnique' /\ SendCounted'
  BY <1>0, <1>1, <1>3, HoldsStable DEF OrderInv
<1>5. ExecutedInOrder'
  BY <1>1 DEF OrderInv, ExecutedInOrder
<1>6. CASE OnDataUnknown(t, conn)
  <2>1. srv' = None /\ chans' = chans \ {t} /\ cRecv' = cRecv
    BY <1>0, <1>6 DEF OnDataUnknown
  <2>2. t \notin sessions'
    BY <1>6 DEF OnDataUnknown, AfterGet, Live, LiveSessions
  <2>3. RecvCounted'
    BY <1>0, <1>1, <2>1, <2>2 DEF OrderInv, RecvCounted, Handling
  <2>4. JobIsNext'
    BY <2>1 DEF JobIsNext
  <2>5. LogoutEnds'
    BY <1>1, <2>1 DEF OrderInv, LogoutEnds
  <2> QED
    BY <1>4, <1>5, <2>3, <2>4, <2>5 DEF OrderInv
<1>7. CASE OnDataDecrypt(t, f, conn)
  <2>1. t \in chans \/ t \in sessions
    BY <1>7 DEF OnDataDecrypt, Unused, Live, LiveSessions
  <2>2. RecvFor(t) = Len(log[t])
    BY <1>0, <2>1, LenProperties
    DEF OrderInv, RecvCounted, Handling, RecvFor
  <2>3. chans' = chans \cup {t} /\ sessions' = sessions
    BY <1>7 DEF OnDataDecrypt, tableVars
  <2>4. CASE Decrypts(t, f)
    <3>1. /\ cRecv' = [cRecv EXCEPT ![t] = RecvFor(t) + 1]
          /\ srv' = [tok |-> t, seq |-> f.seq, op |-> f.op, conn |-> conn]
      BY <1>7, <2>4 DEF OnDataDecrypt
    <3>2. f.seq = Len(log[t]) /\ f.seq = k - 1
      BY <1>0, <2>2, <2>4 DEF Decrypts, OrderInv, SendCounted
    <3>3. srv' # None /\ srv'.tok = t /\ srv'.seq = f.seq /\ srv'.op = f.op
      BY <1>0, <3>1, ConstantsAssumption DEF Jobs, Frames
    <3>4. RecvCounted'
      BY <1>0, <1>1, <2>2, <2>3, <3>1, <3>3
      DEF OrderInv, RecvCounted, Handling, TypeOK
    <3>5. JobIsNext'
      <4>1. Len(sent[t]) \in Nat /\ k = Len(log[t]) + 1 /\ k <= Len(sent[t])
        BY <1>0, <3>2, LenProperties DEF TypeOK
      <4>2. f = sent[t][Len(log[t]) + 1]
        BY <4>1
      <4> HIDE DEF f
      <4> QED
        BY <1>1, <2>3, <3>2, <3>3, <4>1, <4>2 DEF JobIsNext
    <3>6. LogoutEnds'
      BY <1>0, <1>1, <2>1, <2>3 DEF OrderInv, LogoutEnds
    <3> QED
      BY <1>4, <1>5, <3>4, <3>5, <3>6 DEF OrderInv
  <2>5. CASE ~Decrypts(t, f)
    <3>1. cRecv' = [cRecv EXCEPT ![t] = RecvFor(t)] /\ srv' = None
      BY <1>0, <1>7, <2>5 DEF OnDataDecrypt
    <3>2. RecvCounted'
      <4>1. cRecv'[t] = Len(log[t]) /\ \A u \in Tokens \ {t} : cRecv'[u] = cRecv[u]
        BY <1>0, <2>2, <3>1 DEF TypeOK
      <4>2. \A u \in chans' : cRecv'[u] = Len(log[u])
        BY <1>0, <2>3, <4>1 DEF OrderInv, RecvCounted, Handling, TypeOK
      <4>3. \A u \in sessions' \ chans' : log'[u] = << >>
        BY <1>1, <2>3 DEF OrderInv, RecvCounted
      <4>4. \A u \in chans' : ~Handling(u)' /\ Len(log'[u]) \in Nat
        BY <1>0, <1>1, <3>1, LenProperties DEF Handling, TypeOK
      <4>5. \A u \in chans' : cRecv'[u] = Len(log'[u]) + 0
        BY <1>1, <4>2, <4>4
      <4> HIDE DEF Handling
      <4> QED
        BY <4>3, <4>4, <4>5 DEF RecvCounted
    <3>3. JobIsNext'
      BY <3>1 DEF JobIsNext
    <3>4. LogoutEnds'
      BY <1>0, <1>1, <2>1, <2>3 DEF OrderInv, LogoutEnds
    <3> QED
      BY <1>4, <1>5, <3>2, <3>3, <3>4 DEF OrderInv
  <2> QED
    BY <2>4, <2>5
<1> QED
  BY <1>6, <1>7 DEF OnData

(* The handler appends the frame in hand to the calls that ran. *)
LEMMA HandleOrder == OrderInv /\ TypeOK' /\ Handle => OrderInv'
<1> SUFFICES ASSUME OrderInv, TypeOK', Handle PROVE OrderInv'
  OBVIOUS
<1> DEFINE t == srv.tok
           n == Len(log[t])
<1>0. TypeOK /\ srv # None /\ t \in Tokens /\ srv \in Jobs
  BY DEF OrderInv, TypeOK, Handle, HandleLogout, HandleHeartbeat, HandleApi,
         HandleBad, Jobs
<1>1. /\ UNCHANGED <<token, sendSeq, drawn, sent, cRecv>>
      /\ srv' = None
      /\ \E e \in [seq : {srv.seq}, op : {srv.op}, ok : BOOLEAN] :
            log' = [log EXCEPT ![t] = Append(log[t], e)]
      /\ \A c \in Clients : pc'[c] = "loggedIn" => pc[c] = "loggedIn"
  <2>1. ASSUME NEW ok \in BOOLEAN, NEW p \in {"replied", "closed"},
               Finish(ok, p)
        PROVE  /\ UNCHANGED <<token, sendSeq, drawn, sent, cRecv>>
               /\ srv' = None
               /\ \E e \in [seq : {srv.seq}, op : {srv.op}, ok : BOOLEAN] :
                     log' = [log EXCEPT ![t] = Append(log[t], e)]
               /\ \A c \in Clients : pc'[c] = "loggedIn" => pc[c] = "loggedIn"
    <3> DEFINE e == [seq |-> srv.seq, op |-> srv.op, ok |-> ok]
    <3>1. e \in [seq : {srv.seq}, op : {srv.op}, ok : BOOLEAN]
      BY <1>0 DEF TypeOK
    <3>2. log' = [log EXCEPT ![t] = Append(log[t], e)]
      BY <2>1 DEF Finish
    <3>3. \A c \in Clients : pc'[c] = "loggedIn" => pc[c] = "loggedIn"
      BY <1>0, <2>1 DEF Finish, TypeOK
    <3> HIDE DEF e
    <3> QED
      BY <2>1, <3>1, <3>2, <3>3 DEF Finish
  <2>2. (t \in LiveSessions) \in BOOLEAN
    OBVIOUS
  <2>3. \E ok \in BOOLEAN, p \in {"replied", "closed"} : Finish(ok, p)
    <3>1. CASE HandleApi
      <4>1. Finish(t \in LiveSessions, "replied")
        BY <3>1 DEF HandleApi
      <4> QED
        BY <2>2, <4>1, Zenon
    <3> QED
      BY <3>1 DEF Handle, HandleLogout, HandleHeartbeat, HandleBad
  <2> HIDE DEF t
  <2> QED
    BY <2>1, <2>3
<1>2. \/ /\ srv.op = "logout"
         /\ sessions' = sessions \ {t}
         /\ chans' = chans \ {t}
      \/ /\ srv.op # "logout"
         /\ sessions' \subseteq sessions
         /\ chans' = chans
  BY DEF Handle, HandleLogout, HandleHeartbeat, HandleApi, HandleBad,
         AfterLogout, AfterGet
<1>3. PICK e \in [seq : {srv.seq}, op : {srv.op}, ok : BOOLEAN] :
        log' = [log EXCEPT ![t] = Append(log[t], e)]
  BY <1>1
<1>4. /\ t \in chans
      /\ n < Len(sent[t])
      /\ srv.seq = n
      /\ srv.op = sent[t][n + 1].op
      /\ cRecv[t] = n + 1
  BY <1>0 DEF OrderInv, JobIsNext, RecvCounted, Handling
<1>5. /\ e \in Entries
      /\ e.seq = n
      /\ e.op = srv.op
      /\ log[t] \in Seq(Entries)
      /\ n \in Nat
  BY <1>0, <1>4, LenProperties DEF TypeOK, Entries, Jobs
<1>6. /\ log'[t] = Append(log[t], e)
      /\ Len(log'[t]) = n + 1
      /\ log'[t][n + 1] = e
      /\ \A i \in 1..n : log'[t][i] = log[t][i]
      /\ \A u \in Tokens \ {t} : log'[u] = log[u]
  <2>1. /\ log'[t] = Append(log[t], e)
        /\ \A u \in Tokens \ {t} : log'[u] = log[u]
    BY <1>0, <1>3 DEF TypeOK
  <2> QED
    BY <1>5, <2>1, AppendProperties
<1> HIDE DEF n
<1>7. TokensUnique' /\ SendCounted'
  <2>1. t \in drawn
    BY <1>0, <1>4, <1>5 DEF OrderInv, TokensUnique, n
  <2>2. \E w : \/ reply' = reply
                \/ /\ Listens(srv.conn)
                   /\ reply' = [reply EXCEPT ![srv.conn] = w]
    BY DEF Handle, HandleLogout, HandleHeartbeat, HandleApi, HandleBad, Respond
  <2>3. \A c \in Clients : pc'[c] = "loggedIn" => reply'[c] = reply[c]
    BY <1>0, <1>1, <2>2 DEF Listens, TypeOK
  <2>4. \A u \in Tokens : log[u] = << >> => u \in drawn \/ log'[u] = << >>
    BY <1>6, <2>1
  <2> QED
    BY <1>0, <1>1, <1>2, <2>3, <2>4, HoldsStable DEF OrderInv
<1>8. RecvCounted'
  <2>1. \A u \in Tokens : ~Handling(u)'
    BY <1>1 DEF Handling
  <2>2. ASSUME NEW u \in chans'
        PROVE  cRecv'[u] = Len(log'[u])
    <3>1. u \in chans /\ u \in Tokens
      BY <1>0, <1>2 DEF TypeOK
    <3>2. CASE u = t
      BY <1>1, <1>4, <1>6, <3>2
    <3>3. CASE u # t
      <4>1. ~Handling(u)
        BY <3>3 DEF Handling
      <4>2. cRecv[u] = Len(log[u]) + 0
        BY <3>1, <4>1 DEF OrderInv, RecvCounted
      <4>3. log[u] \in Seq(Entries)
        BY <1>0, <3>1 DEF TypeOK
      <4> QED
        BY <1>1, <1>6, <3>1, <3>3, <4>2, <4>3, LenProperties
    <3> QED
      BY <3>2, <3>3
  <2>3. \A u \in chans' : Len(log'[u]) + 0 = Len(log'[u])
    <3>1. \A u \in chans' : log'[u] \in Seq(Entries)
      BY DEF TypeOK
    <3> QED
      BY <3>1, LenProperties
  <2>4. \A u \in sessions' \ chans' : log'[u] = << >>
    <3> SUFFICES ASSUME NEW u \in sessions' \ chans'
                 PROVE  log'[u] = << >>
      OBVIOUS
    <3>1. u # t /\ u \in sessions \ chans
      BY <1>2, <1>4
    <3>2. u \in Tokens /\ log[u] = << >>
      BY <1>0, <3>1 DEF OrderInv, RecvCounted, TypeOK
    <3> QED
      BY <1>6, <3>1, <3>2
  <2> QED
    BY <1>0, <2>1, <2>2, <2>3, <2>4 DEF RecvCounted, Handling, TypeOK
<1>9. JobIsNext'
  BY <1>1 DEF JobIsNext
<1>10. LogoutEnds'
  <2> SUFFICES ASSUME NEW u \in Tokens, NEW i \in 1..Len(log'[u]),
                      log'[u][i].op = "logout"
               PROVE  i = Len(log'[u]) /\ u \notin sessions' /\ u \notin chans'
    BY DEF LogoutEnds
  <2>1. CASE u # t
    BY <1>2, <1>6, <2>1 DEF OrderInv, LogoutEnds
  <2>2. CASE u = t /\ i \in 1..n
    BY <1>4, <1>6, <2>2 DEF OrderInv, LogoutEnds, n
  <2>3. CASE u = t /\ i = n + 1
    BY <1>2, <1>5, <1>6, <2>3
  <2> QED
    BY <1>5, <1>6, <2>1, <2>2, <2>3
<1>11. ExecutedInOrder'
  <2> SUFFICES ASSUME NEW u \in Tokens
               PROVE  /\ Len(log'[u]) <= Len(sent[u])
                      /\ \A i \in 1..Len(log'[u]) :
                            /\ log'[u][i].seq = i - 1
                            /\ log'[u][i].op = sent[u][i].op
    BY <1>1 DEF ExecutedInOrder
  <2>1. CASE u # t
    BY <1>6, <2>1 DEF OrderInv, ExecutedInOrder
  <2>2. CASE u = t
    <3>1. Len(log'[u]) <= Len(sent[u])
      BY <1>0, <1>4, <1>5, <1>6, <2>2, LenProperties DEF TypeOK
    <3>2. \A i \in 1..n : log[u][i].seq = i - 1 /\ log[u][i].op = sent[u][i].op
      BY <2>2 DEF OrderInv, ExecutedInOrder, n
    <3>3. \A i \in 1..(n + 1) : i \in 1..n \/ i = n + 1
      BY <1>5
    <3>4. n + 1 - 1 = n
      BY <1>5
    <3>5. ASSUME NEW i \in 1..(n + 1)
          PROVE  /\ log'[t][i].seq = i - 1
                 /\ log'[t][i].op = sent[t][i].op
      <4>1. CASE i \in 1..n
        BY <1>6, <2>2, <3>2, <4>1
      <4>2. CASE i = n + 1
        BY <1>4, <1>5, <1>6, <3>4, <4>2
      <4> QED
        BY <3>3, <4>1, <4>2
    <3> QED
      BY <1>6, <2>2, <3>1, <3>5
  <2> QED
    BY <2>1, <2>2
<1> QED
  BY <1>7, <1>8, <1>9, <1>10, <1>11 DEF OrderInv

(* Steps that only end or begin sessions, pass time or move a client: no   *)
(* frame, call, counter of the server or frame in hand changes.            *)
LEMMA QuietOrder ==
    ASSUME OrderInv, TypeOK', TokensUnique', SendCounted',
           UNCHANGED <<sent, log, chans, cRecv, srv>>,
           \A t \in sessions' \ sessions : t \notin drawn
    PROVE  RecvCounted' /\ JobIsNext' /\ LogoutEnds' /\ ExecutedInOrder'
<1>1. ASSUME NEW t \in sessions' \ sessions
      PROVE  t \in Tokens /\ log[t] = << >>
  BY <1>1 DEF OrderInv, TokensUnique, TypeOK
<1>2. \A t \in Tokens : Handling(t)' <=> Handling(t)
  BY DEF Handling
<1>3. RecvCounted'
  BY <1>1, <1>2 DEF OrderInv, RecvCounted, TypeOK
<1>4. JobIsNext'
  BY DEF OrderInv, JobIsNext
<1>5. LogoutEnds'
  <2> SUFFICES ASSUME NEW t \in Tokens, NEW i \in 1..Len(log[t]),
                      log[t][i].op = "logout"
               PROVE  i = Len(log[t]) /\ t \notin sessions' /\ t \notin chans
    BY DEF LogoutEnds
  <2>1. i = Len(log[t]) /\ t \notin sessions /\ t \notin chans
    BY DEF OrderInv, LogoutEnds
  <2>2. log[t] # << >>
    BY <2>1
  <2> QED
    BY <1>1, <2>1, <2>2
<1>6. ExecutedInOrder'
  BY DEF OrderInv, ExecutedInOrder
<1> QED
  BY <1>3, <1>4, <1>5, <1>6

(* A step that gives no client a token it did not hold. *)
LEMMA NothingGained ==
    ASSUME TokensUnique, sessions' \subseteq sessions, drawn' = drawn,
           sent' = sent, log' = log,
           \A c \in Clients, t \in Tokens : Holds(c, t)' => Holds(c, t)
    PROVE  TokensUnique'
BY DEF TokensUnique

(* A call puts the frame with the next number on the network. *)
LEMMA CallOrder ==
    ASSUME OrderInv, TypeOK', NEW c \in Clients, NEW op \in Ops, Call(c, op)
    PROVE  OrderInv'
<1> DEFINE t == token[c]
           f == [seq |-> sendSeq[c], op |-> op, key |-> chanUser[c]]
<1>1. TypeOK /\ t \in Tokens /\ f \in Frames /\ f.seq = sendSeq[c]
  BY DEF OrderInv, TypeOK, Call, Frames
<1>2. sent[t] \in Seq(Frames) /\ Len(sent[t]) \in Nat
  <2>1. sent[t] \in Seq(Frames)
    BY <1>1 DEF TypeOK
  <2> QED
    BY <2>1, LenProperties
<1>3. /\ sent' = [sent EXCEPT ![t] = Append(sent[t], f)]
      /\ UNCHANGED <<token, reply, sessions, chans, cRecv, srv, drawn, log>>
      /\ sendSeq' = [sendSeq EXCEPT ![c] = @ + 1]
      /\ \A d \in Clients : pc'[d] = "loggedIn" <=> pc[d] = "loggedIn"
  BY <1>1 DEF TypeOK, Call, tableVars, chanVars, histVars
<1> HIDE DEF f
<1>4. /\ Len(sent'[t]) = Len(sent[t]) + 1
      /\ sent'[t][Len(sent[t]) + 1] = f
      /\ \A i \in 1..Len(sent[t]) : sent'[t][i] = sent[t][i]
      /\ \A u \in Tokens \ {t} : sent'[u] = sent[u]
  <2>1. sent'[t] = Append(sent[t], f) /\ \A u \in Tokens \ {t} : sent'[u] = sent[u]
    BY <1>1, <1>3 DEF TypeOK
  <2> QED
    BY <1>1, <1>2, <2>1, AppendProperties
<1>5. Holds(c, t) /\ t \in drawn
  BY <1>1 DEF Holds, OrderInv, TokensUnique
<1>6. \A d \in Clients, u \in Tokens : Holds(d, u)' <=> Holds(d, u)
  BY <1>3 DEF Holds
<1>7. TokensUnique'
  BY <1>3, <1>4, <1>5, <1>6 DEF OrderInv, TokensUnique
<1>8. SendCounted'
  <2>1. sendSeq[c] = Len(sent[t])
    BY <1>1, ConstantsAssumption DEF OrderInv, SendCounted
  <2>2. ASSUME NEW u \in Tokens, NEW i \in 1..Len(sent'[u])
        PROVE  sent'[u][i].seq = i - 1
    <3>1. CASE u # t
      BY <1>4, <3>1 DEF OrderInv, SendCounted
    <3>2. CASE u = t /\ i \in 1..Len(sent[t])
      BY <1>4, <3>2 DEF OrderInv, SendCounted
    <3>3. CASE u = t /\ i = Len(sent[t]) + 1
      BY <1>1, <1>2, <1>4, <2>1, <3>3
    <3> QED
      BY <1>2, <1>4, <3>1, <3>2, <3>3
  <2>3. ASSUME NEW d \in Clients, token[d] # None
        PROVE  sendSeq'[d] = Len(sent'[token[d]])
    <3>1. CASE d = c
      BY <1>1, <1>3, <1>4, <2>1, <3>1 DEF TypeOK
    <3>2. CASE d # c
      <4>1. token[d] \in Tokens
        BY <1>1, <2>3 DEF TypeOK
      <4>2. token[d] # t
        BY <1>1, <1>5, <3>2, <4>1 DEF OrderInv, TokensUnique, Holds
      <4> QED
        BY <1>1, <1>3, <1>4, <2>3, <3>2, <4>1, <4>2
        DEF OrderInv, SendCounted, TypeOK
    <3> QED
      BY <3>1, <3>2
  <2>4. ASSUME NEW d \in Clients, pc'[d] = "loggedIn"
        PROVE  sent'[reply[d].tok] = << >>
    <3>1. pc[d] = "loggedIn" /\ reply[d].tok \in Tokens
      BY <1>1, <1>3, <2>4 DEF TypeOK, RoundTripOK, Replies
    <3>2. d # c
      BY <3>1 DEF Call
    <3>3. reply[d].tok # t
      BY <1>1, <1>5, <3>1, <3>2 DEF OrderInv, TokensUnique, Holds
    <3> QED
      BY <1>4, <3>1, <3>3 DEF OrderInv, SendCounted
  <2> QED
    BY <1>3, <2>2, <2>3, <2>4 DEF SendCounted
<1>9. RecvCounted' /\ LogoutEnds'
  BY <1>3 DEF OrderInv, RecvCounted, Handling, LogoutEnds
<1>10. ExecutedInOrder'
  <2>1. ASSUME NEW u \in Tokens
        PROVE  /\ Len(log[u]) <= Len(sent'[u])
               /\ \A i \in 1..Len(log[u]) :
                     log[u][i].seq = i - 1 /\ log[u][i].op = sent'[u][i].op
    <3>1. /\ Len(log[u]) <= Len(sent[u])
          /\ \A i \in 1..Len(log[u]) :
                log[u][i].seq = i - 1 /\ log[u][i].op = sent[u][i].op
      BY DEF OrderInv, ExecutedInOrder
    <3>2. log[u] \in Seq(Entries) /\ Len(log[u]) \in Nat
      <4>1. log[u] \in Seq(Entries)
        BY <1>1 DEF TypeOK
      <4> QED
        BY <4>1, LenProperties
    <3>3. CASE u = t
      <4>1. \A i \in 1..Len(log[u]) : i \in 1..Len(sent[t])
        BY <1>2, <3>1, <3>2, <3>3
      <4>2. Len(log[u]) <= Len(sent'[u])
        BY <1>2, <1>4, <3>1, <3>2, <3>3
      <4> QED
        BY <1>4, <3>1, <3>3, <4>1, <4>2
    <3>4. CASE u # t
      BY <1>4, <3>1, <3>4
    <3> QED
      BY <3>3, <3>4
  <2> QED
    BY <1>3, <2>1 DEF ExecutedInOrder
<1>11. JobIsNext'
  <2> SUFFICES ASSUME srv # None
               PROVE  /\ Len(log[srv.tok]) < Len(sent'[srv.tok])
                      /\ srv.op = sent'[srv.tok][srv.seq + 1].op
    BY <1>3 DEF OrderInv, JobIsNext
  <2>1. /\ srv.tok \in Tokens /\ Len(log[srv.tok]) < Len(sent[srv.tok])
        /\ srv.seq = Len(log[srv.tok])
        /\ srv.op = sent[srv.tok][srv.seq + 1].op
    BY <1>1 DEF OrderInv, JobIsNext, TypeOK, Jobs
  <2>2. log[srv.tok] \in Seq(Entries)
    BY <1>1, <2>1 DEF TypeOK
  <2>3. Len(log[srv.tok]) \in Nat
    BY <2>2, LenProperties
  <2>4. CASE srv.tok = t
    <3>1. srv.seq + 1 \in 1..Len(sent[t])
      BY <1>2, <2>1, <2>3, <2>4
    <3>2. Len(log[srv.tok]) < Len(sent'[srv.tok])
      BY <1>2, <1>4, <2>1, <2>3, <2>4
    <3> QED
      BY <1>4, <2>1, <2>4, <3>1, <3>2
  <2>5. CASE srv.tok # t
    BY <1>4, <2>1, <2>5
  <2> QED
    BY <2>4, <2>5
<1> QED
  BY <1>7, <1>8, <1>9, <1>10, <1>11 DEF OrderInv

(* The client's other steps, and a login that hands over a fresh token. *)
LEMMA ClientOrder ==
    ASSUME OrderInv, TypeOK', NEW c \in Clients,
           ClientStep(c) \/ GiveUp(c) \/ ClientInit(c)
    PROVE  OrderInv'
<1> USE DEF tableVars, chanVars, histVars
<1>0. TypeOK
  BY DEF OrderInv
<1>1. ASSUME NEW op \in Ops, Call(c, op)
      PROVE  OrderInv'
  BY <1>1, CallOrder
<1>2. CASE SendLogin(c)
  <2>1. TokensUnique' /\ SendCounted'
    BY <1>0, <1>2, HoldsStable DEF OrderInv, SendLogin, TypeOK
  <2> QED
    BY <1>2, <2>1, QuietOrder DEF OrderInv, SendLogin
<1>3. CASE LoggedIn(c)
  <2>1. reply[c].tok \in Tokens /\ reply[c].tok # None
    BY <1>0, <1>3, ConstantsAssumption
    DEF TypeOK, LoggedIn, RoundTripOK, Replies
  <2>2. \A d \in Clients, t \in Tokens : Holds(d, t)' => Holds(d, t)
    BY <1>0, <1>3, <2>1 DEF LoggedIn, Holds, TypeOK
  <2>3. TokensUnique'
    BY <1>3, <2>2, NothingGained DEF LoggedIn, OrderInv
  <2>4. sent[reply[c].tok] = << >>
    BY <1>3 DEF LoggedIn, OrderInv, SendCounted
  <2>5. SendCounted'
    BY <1>0, <1>3, <2>1, <2>4 DEF LoggedIn, OrderInv, SendCounted, TypeOK
  <2> QED
    BY <1>3, <2>3, <2>5, QuietOrder DEF OrderInv, LoggedIn
<1>4. CASE Receive(c) \/ Refused(c) \/ GiveUp(c)
  <2>1. /\ EndRoundTrip(c)
        /\ UNCHANGED <<sendSeq, sessions, chans, cRecv, srv, drawn, sent, log>>
    BY <1>4 DEF Receive, Refused, GiveUp
  <2>2. \A d \in Clients, t \in Tokens : Holds(d, t)' => Holds(d, t)
    BY <1>0, <2>1, ConstantsAssumption DEF EndRoundTrip, Holds, TypeOK
  <2>3. TokensUnique'
    BY <2>1, <2>2, NothingGained DEF OrderInv
  <2>4. SendCounted'
    BY <1>0, <2>1 DEF EndRoundTrip, OrderInv, SendCounted, TypeOK
  <2> QED
    BY <2>1, <2>3, <2>4, QuietOrder DEF OrderInv
<1>5. CASE ClientInit(c)
  <2>1. \A d \in Clients, t \in Tokens : Holds(d, t)' => Holds(d, t)
    BY <1>0, <1>5, ConstantsAssumption DEF ClientInit, Holds, TypeOK
  <2>2. TokensUnique'
    BY <1>5, <2>1, NothingGained DEF ClientInit, OrderInv
  <2>3. SendCounted'
    BY <1>0, <1>5 DEF ClientInit, OrderInv, SendCounted, TypeOK
  <2> QED
    BY <1>5, <2>2, <2>3, QuietOrder DEF OrderInv, ClientInit
<1> QED
  BY <1>1, <1>2, <1>3, <1>4, <1>5 DEF ClientStep

(* Every step preserves the inductive invariant. *)
LEMMA OrderNext == OrderInv /\ [Next]_vars => OrderInv'
<1> SUFFICES ASSUME OrderInv, [Next]_vars PROVE OrderInv'
  OBVIOUS
<1> USE DEF clientVars, tableVars, chanVars, histVars
<1>0. TypeOK /\ TypeOK'
  BY TypeNext DEF OrderInv
<1>1. ASSUME NEW c \in Clients, ClientStep(c) \/ GiveUp(c) \/ ClientInit(c)
      PROVE  OrderInv'
  BY <1>0, <1>1, ClientOrder
<1>2. ASSUME NEW c \in Clients, NEW t \in Tokens, NEW u \in Users,
             ServeLogin(c, t, u)
      PROVE  OrderInv'
  <2>1. /\ t \notin drawn /\ drawn' = drawn \cup {t}
        /\ sessions' = sessions \cup {t}
        /\ UNCHANGED <<token, sendSeq, chans, cRecv, srv, sent, log>>
        /\ sent[t] = << >>
    BY <1>2 DEF ServeLogin, CreateSession, OrderInv, TokensUnique
  <2>2. /\ \A d \in Clients \ {c} : pc'[d] = pc[d] /\ reply'[d] = reply[d]
        /\ reply'[c].tok = t
    BY <1>0, <1>2 DEF ServeLogin, TypeOK
  <2>3. \A d \in Clients, s \in Tokens :
            Holds(d, s)' => Holds(d, s) \/ (d = c /\ s = t)
    BY <2>1, <2>2 DEF Holds
  <2>4. TokensUnique'
    BY <2>1, <2>3 DEF OrderInv, TokensUnique
  <2>5. SendCounted'
    <3>1. \A d \in Clients : pc'[d] = "loggedIn" => sent[reply'[d].tok] = << >>
      BY <2>1, <2>2 DEF OrderInv, SendCounted
    <3> QED
      BY <2>1, <3>1 DEF OrderInv, SendCounted
  <2> QED
    BY <1>0, <2>1, <2>4, <2>5, QuietOrder DEF OrderInv
<1>3. ASSUME NEW c \in Clients, RefuseLogin(c)
      PROVE  OrderInv'
  <2>1. TokensUnique' /\ SendCounted'
    BY <1>0, <1>3, HoldsStable DEF OrderInv, RefuseLogin, TypeOK
  <2> QED
    BY <1>0, <1>3, <2>1, QuietOrder DEF OrderInv, RefuseLogin
<1>4. ASSUME NEW c \in Clients, Deliver(c)
      PROVE  OrderInv'
  <2> DEFINE s == sent[token[c]]
  <2>1. token[c] \in Tokens /\ s \in Seq(Frames) /\ s # << >>
    BY <1>0, <1>4 DEF TypeOK, Deliver, RoundTripOK
  <2>2. Len(s) \in 1..Len(s)
    BY <2>1
  <2> QED
    BY <1>0, <1>4, <2>1, <2>2, OnDataOrder DEF Deliver
<1>5. CASE Handle
  BY <1>0, <1>5, HandleOrder
<1>6. ASSUME NEW t \in Tokens, NEW u \in Users, HostLogin(t, u)
      PROVE  OrderInv'
  <2>1. /\ t \notin drawn /\ drawn' = drawn \cup {t}
        /\ sessions' = sessions \cup {t}
        /\ UNCHANGED <<token, sendSeq, pc, reply, chans, cRecv, srv, sent, log>>
    BY <1>6 DEF HostLogin, CreateSession
  <2>2. TokensUnique' /\ SendCounted'
    BY <2>1 DEF OrderInv, TokensUnique, SendCounted, Holds
  <2> QED
    BY <1>0, <2>1, <2>2, QuietOrder DEF OrderInv
<1>7. CASE (\E t \in Tokens : HostLogout(t)) \/ Cleanup \/ Tick
  <2>1. /\ UNCHANGED <<token, sendSeq, pc, reply, chans, cRecv, srv, sent, log,
                       drawn>>
        /\ sessions' \subseteq sessions
    BY <1>7 DEF HostLogout, Cleanup, Tick, AfterLogout, AfterCleanup, Live
  <2>2. TokensUnique' /\ SendCounted'
    BY <2>1 DEF OrderInv, TokensUnique, SendCounted, Holds
  <2> QED
    BY <1>0, <2>1, <2>2, QuietOrder DEF OrderInv
<1>8. ASSUME NEW t \in Tokens, NEW i \in 1..Len(sent[t]), Redeliver(t, i)
      PROVE  OrderInv'
  BY <1>0, <1>8, OnDataOrder DEF Redeliver
<1>9. CASE Restart
  <2>1. /\ sessions' = {} /\ chans' = {} /\ srv' = None
        /\ UNCHANGED <<token, sendSeq, reply, sent, log, drawn>>
        /\ \A c \in Clients : pc'[c] = "loggedIn" => pc[c] = "loggedIn"
    BY <1>0, <1>9 DEF Restart, TypeOK
  <2>2. TokensUnique' /\ SendCounted'
    BY <1>0, <2>1, HoldsStable DEF OrderInv
  <2> QED
    BY <1>0, <2>1, <2>2
    DEF OrderInv, RecvCounted, JobIsNext, LogoutEnds, ExecutedInOrder
<1>11. ASSUME NEW c \in Clients, DeliverPart(c)
       PROVE  OrderInv'
  <2>1. TokensUnique' /\ SendCounted'
    BY <1>0, <1>11, HoldsStable DEF OrderInv, DeliverPart, TypeOK
  <2> QED
    BY <1>0, <1>11, <2>1, QuietOrder DEF OrderInv, DeliverPart
<1>10. CASE UNCHANGED vars
  <2>1. TokensUnique' /\ SendCounted'
    BY <1>10 DEF vars, OrderInv, TokensUnique, SendCounted, Holds
  <2> QED
    BY <1>0, <1>10, <2>1, QuietOrder DEF vars, OrderInv
<1> QED
  BY <1>1, <1>2, <1>3, <1>4, <1>5, <1>6, <1>7, <1>8, <1>9, <1>10, <1>11
  DEF Next, ServerStep, HostStep, Fault

(* The counters, tokens and frames of all sessions always fit together:    *)
(* send_seq_ numbers what was sent, recv_seq what was run, the frame in    *)
(* hand is the next one, and a token belongs to one ClientCore.            *)
THEOREM OrderAlways == Spec => []OrderInv
BY OrderInit, OrderNext, PTL DEF Spec

(* Whatever frames are lost, late or delivered twice, and however sessions *)
(* end or the server restarts, the calls the server ran for a session are  *)
(* the first ones its client made, in order and once each.                 *)
THEOREM ExecutionOrdered == Spec => []ExecutedInOrder
<1>1. OrderInv => ExecutedInOrder
  BY DEF OrderInv
<1> QED
  BY <1>1, OrderAlways, PTL

(* No call of a session runs after its logout ran. *)
THEOREM NothingAfterLogout == Spec => []LogoutIsLast
<1>1. OrderInv => LogoutIsLast
  BY DEF OrderInv, LogoutEnds, LogoutIsLast
<1> QED
  BY <1>1, OrderAlways, PTL

-----------------------------------------------------------------------------
(* A session keeps its user and its age, no step brings back one that has  *)
(* ended, and the clock does not go back.                                  *)
SessionKept(t) ==
    /\ t \in drawn'
    /\ owner'[t] = owner[t]
    /\ createdAt'[t] = createdAt[t]
    /\ t \in sessions' => t \in sessions
    /\ t \in LiveSessions' => t \in LiveSessions

LEMMA SessionsKept ==
    ASSUME OrderInv, TypeOK', [Next]_vars
    PROVE  \A t \in drawn : SessionKept(t)
<1> SUFFICES ASSUME NEW t \in drawn PROVE SessionKept(t)
  OBVIOUS
<1> USE DEF clientVars, tableVars, chanVars, histVars
<1>0. /\ t \in Tokens /\ now \in Nat
      /\ owner \in [Tokens -> Users \cup {None}] /\ createdAt \in [Tokens -> Nat]
  BY DEF OrderInv, TypeOK
<1>1. /\ t \in drawn'
      /\ owner'[t] = owner[t]
      /\ createdAt'[t] = createdAt[t]
      /\ t \in sessions' => t \in sessions
      /\ now' >= now
  <2>1. ASSUME UNCHANGED <<owner, createdAt, now, drawn>>, sessions' \subseteq sessions
        PROVE  <1>1
    BY <1>0, <2>1
  <2>2. ASSUME NEW s \in Tokens, NEW u \in Users, CreateSession(s, u), now' = now
        PROVE  <1>1
    BY <1>0, <2>2 DEF CreateSession
  <2>3. CASE \E c \in Clients : ClientStep(c) \/ GiveUp(c) \/ ClientInit(c)
    BY <2>1, <2>3
    DEF ClientStep, SendLogin, LoggedIn, Call, Receive, Refused, GiveUp, ClientInit
  <2>4. CASE \E s \in Tokens, u \in Users :
                HostLogin(s, u) \/ \E c \in Clients : ServeLogin(c, s, u)
    BY <2>2, <2>4 DEF ServeLogin, HostLogin
  <2>5. ASSUME NEW s, NEW f, NEW conn, OnData(s, f, conn)
        PROVE  <1>1
    BY <2>1, <2>5 DEF OnData, OnDataUnknown, OnDataDecrypt, AfterGet
  <2>11. CASE \/ \E c \in Clients : Deliver(c)
              \/ \E s \in Tokens : \E i \in 1..Len(sent[s]) : Redeliver(s, i)
    BY <2>5, <2>11, Zenon DEF Deliver, Redeliver
  <2>6. CASE Handle
    BY <2>1, <2>6 DEF Handle, HandleLogout, HandleHeartbeat, HandleApi, HandleBad,
                      Finish, AfterLogout, AfterGet
  <2>7. CASE (\E s \in Tokens : HostLogout(s)) \/ Cleanup
    BY <2>1, <2>7 DEF HostLogout, Cleanup, AfterLogout, AfterCleanup, Live
  <2>8. CASE Tick
    BY <1>0, <2>8 DEF Tick
  <2>9. CASE Restart \/ UNCHANGED vars
    BY <2>1, <2>9 DEF Restart, vars
  <2>10. CASE \E c \in Clients : RefuseLogin(c) \/ DeliverPart(c)
    BY <2>1, <2>10 DEF RefuseLogin, DeliverPart
  <2> QED
    BY <2>3, <2>4, <2>6, <2>7, <2>8, <2>9, <2>10, <2>11
    DEF Next, ServerStep, HostStep, Fault
<1>2. t \in LiveSessions' => t \in LiveSessions
  BY <1>0, <1>1, TtlAssumption DEF LiveSessions, Live, Expired, TypeOK
<1> QED
  BY <1>1, <1>2 DEF SessionKept

(* Of a token not yet drawn nothing is known, and a session is one of a    *)
(* token that was drawn.                                                   *)
LEMMA DrawnFirst ==
    ASSUME OrderInv
    PROVE  /\ sessions \subseteq drawn
           /\ \A c \in Clients : token[c] # None => token[c] \in drawn
           /\ \A c \in Clients : pc[c] = "loggedIn" =>
                 reply[c].tok \in drawn /\ sent[reply[c].tok] = << >>
           /\ \A t \in Tokens : sent[t] # << >> \/ log[t] # << >> => t \in drawn
BY ConstantsAssumption
DEF OrderInv, TypeOK, TokensUnique, Holds, RoundTripOK, Replies, SendCounted

(* Frame i of session t reaches OnData, from its waiting client or from    *)
(* nobody that waits.                                                      *)
Serves(t, i, conn) ==
    /\ i \in 1..Len(sent[t])
    /\ IF conn = None
       THEN \A c \in Clients : token[c] = t /\ pc[c] = "call" => i # Len(sent[t])
       ELSE pc[conn] = "call" /\ token[conn] = t /\ i = Len(sent[t])
    /\ OnData(t, sent[t][i], conn)

(* Where a client stands between two calls. *)
Resting == {"idle", "login", "loggedIn", "closed"}

Unmoved(c) ==
    /\ token'[c] = token[c]
    /\ chanUser'[c] = chanUser[c]
    /\ sendSeq'[c] = sendSeq[c]
    /\ recvSeq'[c] = recvSeq[c]

(* What a step that serves no frame may do to a client. *)
ClientMoves(c) ==
    \/ Unmoved(c) /\ pc'[c] = pc[c] /\ reply'[c] = reply[c]
    \/ Unmoved(c) /\ pc[c] \in Resting /\ pc'[c] \in Resting \ {"loggedIn"}
    \/ Unmoved(c) /\ token[c] \in broken' /\ pc'[c] \in Resting \ {"loggedIn"}
    \/ token'[c] = None /\ pc'[c] = "idle"
    \/ Unmoved(c) /\ \E t \in Tokens, u \in Users : ServeLogin(c, t, u)
    \/ LoggedIn(c)
    \/ \E op \in Ops : Call(c, op)
    \/ Receive(c)

(* A step that serves no frame: the channels stay as they are, unless the  *)
(* server restarts.                                                        *)
Elsewhere ==
    /\ UNCHANGED <<cKey, cSend, cRecv, log, answered>>
    /\ \/ UNCHANGED <<chans, srv>>
       \/ /\ chans' = {} /\ sessions' = {} /\ srv' = None
          /\ \A c \in Clients : pc'[c] # "served"
    /\ broken \subseteq broken'
    /\ sent' = sent \/ \E c \in Clients, op \in Ops : Call(c, op)
    /\ confirmed' = confirmed \/ \E c \in Clients : Receive(c)
    /\ \A c \in Clients : ClientMoves(c)

LEMMA ClientElsewhere ==
    ASSUME TypeOK, NEW d \in Clients, ClientStep(d) \/ GiveUp(d) \/ ClientInit(d)
    PROVE  Elsewhere
<1> USE DEF tableVars, chanVars, histVars
<1>1. ASSUME UNCHANGED <<chans, cKey, cSend, cRecv, srv, log, answered>>,
             broken \subseteq broken',
             sent' = sent \/ \E op \in Ops : Call(d, op),
             confirmed' = confirmed \/ Receive(d),
             ClientMoves(d),
             \A c \in Clients \ {d} :
                Unmoved(c) /\ pc'[c] = pc[c] /\ reply'[c] = reply[c]
      PROVE  Elsewhere
  BY <1>1 DEF Elsewhere, ClientMoves
<1>2. CASE SendLogin(d)
  BY <1>1, <1>2 DEF SendLogin, ClientMoves, Unmoved, Resting, TypeOK
<1>3. CASE LoggedIn(d)
  BY <1>1, <1>3 DEF LoggedIn, ClientMoves, Unmoved, TypeOK
<1>4. ASSUME NEW op \in Ops, Call(d, op)
      PROVE  Elsewhere
  <2>1. ClientMoves(d)
    BY <1>4 DEF ClientMoves
  <2>2. \A c \in Clients \ {d} :
           Unmoved(c) /\ pc'[c] = pc[c] /\ reply'[c] = reply[c]
    BY <1>4 DEF Call, Unmoved, TypeOK
  <2> QED
    BY <1>1, <1>4, <2>1, <2>2 DEF Call
<1>5. CASE Receive(d)
  <2>1. ClientMoves(d)
    BY <1>5 DEF ClientMoves
  <2>2. \A c \in Clients \ {d} :
           Unmoved(c) /\ pc'[c] = pc[c] /\ reply'[c] = reply[c]
    BY <1>5 DEF Receive, EndRoundTrip, Unmoved, TypeOK
  <2> QED
    BY <1>1, <1>5, <2>1, <2>2 DEF Receive
<1>6. CASE Refused(d) \/ GiveUp(d)
  <2>1. ClientMoves(d)
    BY <1>6 DEF Refused, GiveUp, EndRoundTrip, ClientMoves, Unmoved, Resting, TypeOK
  <2>2. \A c \in Clients \ {d} :
           Unmoved(c) /\ pc'[c] = pc[c] /\ reply'[c] = reply[c]
    BY <1>6 DEF Refused, GiveUp, EndRoundTrip, Unmoved, TypeOK
  <2> QED
    BY <1>1, <1>6, <2>1, <2>2 DEF Refused, GiveUp
<1>7. CASE ClientInit(d)
  BY <1>1, <1>7 DEF ClientInit, ClientMoves, Unmoved, TypeOK
<1> QED
  BY <1>2, <1>3, <1>4, <1>5, <1>6, <1>7 DEF ClientStep

(* A step serves a frame, finishes one, or happens elsewhere. *)
LEMMA Cases ==
    ASSUME OrderInv, [Next]_vars
    PROVE  \/ Handle
           \/ \E t \in Tokens, i \in Nat, conn \in Clients \cup {None} :
                 Serves(t, i, conn)
           \/ Elsewhere
<1> USE DEF clientVars, tableVars, chanVars, histVars
<1>0. TypeOK
  BY DEF OrderInv
<1> DEFINE Done == Handle
                   \/ (\E t \in Tokens, i \in Nat, conn \in Clients \cup {None} :
                          Serves(t, i, conn))
                   \/ Elsewhere
<1>1. ASSUME NEW c \in Clients, ClientStep(c) \/ GiveUp(c) \/ ClientInit(c)
      PROVE  Done
  BY <1>0, <1>1, ClientElsewhere
<1>2. ASSUME NEW c \in Clients, Deliver(c)
      PROVE  Done
  <2>1. token[c] \in Tokens /\ sent[token[c]] \in Seq(Frames) /\ sent[token[c]] # << >>
    BY <1>0, <1>2 DEF TypeOK, Deliver, RoundTripOK
  <2>2. Len(sent[token[c]]) \in 1..Len(sent[token[c]]) /\ Len(sent[token[c]]) \in Nat
    BY <2>1
  <2>3. Serves(token[c], Len(sent[token[c]]), c)
    BY <1>2, <2>2, ConstantsAssumption DEF Deliver, Serves
  <2> QED
    BY <2>1, <2>2, <2>3
<1>3. ASSUME NEW t \in Tokens, NEW i \in 1..Len(sent[t]), Redeliver(t, i)
      PROVE  Done
  <2>1. Serves(t, i, None) /\ i \in Nat
    BY <1>3 DEF Redeliver, Serves
  <2> QED
    BY <2>1
<1>4. ASSUME UNCHANGED <<chans, cKey, cSend, cRecv, srv, log, answered, sent,
                         confirmed>>,
             broken \subseteq broken', \A c \in Clients : ClientMoves(c)
      PROVE  Done
  BY <1>4 DEF Elsewhere
<1>5. ASSUME NEW c \in Clients, NEW t \in Tokens, NEW u \in Users,
             ServeLogin(c, t, u)
      PROVE  Done
  <2>1. \A d \in Clients : ClientMoves(d)
    BY <1>0, <1>5 DEF ServeLogin, ClientMoves, Unmoved, TypeOK
  <2> QED
    BY <1>4, <1>5, <2>1 DEF ServeLogin
<1>6. ASSUME NEW c \in Clients, RefuseLogin(c) \/ DeliverPart(c)
      PROVE  Done
  <2>1. \A d \in Clients : ClientMoves(d)
    BY <1>0, <1>6 DEF RefuseLogin, DeliverPart, ClientMoves, Unmoved, Resting, TypeOK
  <2> QED
    BY <1>4, <1>6, <2>1 DEF RefuseLogin, DeliverPart
<1>7. CASE HostStep \/ UNCHANGED vars
  BY <1>4, <1>7 DEF HostStep, HostLogin, HostLogout, Cleanup, Tick, vars,
                    ClientMoves, Unmoved
<1>8. CASE Restart
  <2>1. \A d \in Clients : ClientMoves(d)
    <3> SUFFICES ASSUME NEW d \in Clients PROVE ClientMoves(d)
      OBVIOUS
    <3>1. Unmoved(d) /\ reply'[d] = reply[d]
      BY <1>8 DEF Restart, Unmoved
    <3>2. pc'[d] = IF pc[d] \in {"login", "call", "served"} THEN "closed" ELSE pc[d]
      BY <1>8 DEF Restart
    <3>3. pc[d] \in {"call", "served"} => token[d] \in broken'
      BY <1>0, <1>8, DrawnFirst DEF Restart, TypeOK, RoundTripOK
    <3> QED
      BY <3>1, <3>2, <3>3 DEF ClientMoves, Resting
  <2>2. \A d \in Clients : pc'[d] # "served"
    BY <1>8 DEF Restart
  <2> QED
    BY <1>8, <2>1, <2>2 DEF Restart, Elsewhere
<1> QED
  BY <1>1, <1>2, <1>3, <1>5, <1>6, <1>7, <1>8
  DEF Next, ServerStep, HostStep, Fault

(* What the first half of OnData may do: nothing is known of the token and *)
(* no entry stays, the frame is taken in hand, or it is refused.           *)
Known(t) ==
    /\ ~Unused(t) \/ t \in LiveSessions
    /\ sessions' = sessions
    /\ chans' = chans \cup {t}
    /\ cKey' = [cKey EXCEPT ![t] = KeyFor(t)]
    /\ cSend' = [cSend EXCEPT ![t] = IF t \in chans THEN cSend[t] ELSE 0]

Unknown(t) ==
    /\ Unused(t) /\ t \notin LiveSessions /\ t \notin sessions'
    /\ sessions' \subseteq sessions
    /\ chans' = chans \ {t}
    /\ UNCHANGED <<cKey, cSend, cRecv, srv>>

TakenInHand(t, i, conn) ==
    /\ Known(t)
    /\ i = RecvFor(t) + 1
    /\ cRecv' = [cRecv EXCEPT ![t] = i]
    /\ srv' # None /\ srv'.tok = t /\ srv'.conn = conn

Rejected(t, i) ==
    /\ Known(t)
    /\ ~(sent[t][i].key = KeyFor(t) /\ i = RecvFor(t) + 1)
    /\ cRecv' = [cRecv EXCEPT ![t] = RecvFor(t)]
    /\ srv' = srv

LEMMA ServesShape ==
    ASSUME OrderInv, NEW t \in Tokens, NEW i \in Nat,
           NEW conn \in Clients \cup {None}, Serves(t, i, conn)
    PROVE  /\ srv = None /\ t \in drawn /\ sent[t] # << >>
           /\ UNCHANGED <<token, chanUser, sendSeq, recvSeq, reply, drawn, sent,
                          log, answered, confirmed, broken, owner, createdAt, now>>
           /\ \/ Unknown(t) /\ Reaches(conn, "closed")
              \/ TakenInHand(t, i, conn) /\ Reaches(conn, "served")
              \/ Rejected(t, i) /\ Reaches(conn, "closed")
<1> DEFINE f == sent[t][i]
<1>1. /\ TypeOK /\ srv = None /\ OnData(t, f, conn) /\ i \in 1..Len(sent[t])
      /\ f.seq = i - 1
  BY DEF OrderInv, Serves, OnData, SendCounted
<1>2. sent[t] \in Seq(Frames)
  BY <1>1 DEF TypeOK
<1>3. sent[t] # << >>
  BY <1>1, <1>2
<1>4. RecvFor(t) \in Nat
  BY <1>1 DEF TypeOK, RecvFor
<1>5. Decrypts(t, f) <=> f.key = KeyFor(t) /\ i = RecvFor(t) + 1
  BY <1>1, <1>4 DEF Decrypts
<1> HIDE DEF f
<1>6. ASSUME OnDataUnknown(t, conn)
      PROVE  Unknown(t) /\ Reaches(conn, "closed")
  BY <1>1, <1>6 DEF OnDataUnknown, Unknown, AfterGet, LiveSessions, Live
<1>7. ASSUME OnDataDecrypt(t, f, conn), Decrypts(t, f)
      PROVE  TakenInHand(t, i, conn) /\ Reaches(conn, "served")
  <2> DEFINE j == [tok |-> t, seq |-> f.seq, op |-> f.op, conn |-> conn]
  <2>1. j \in Jobs
    <3>1. f \in Frames
      BY <1>1, <1>2 DEF f
    <3> QED
      BY <3>1 DEF Frames, Jobs
  <2>2. srv' = j /\ cRecv' = [cRecv EXCEPT ![t] = RecvFor(t) + 1]
    BY <1>7 DEF OnDataDecrypt
  <2>3. srv' # None /\ srv'.tok = t /\ srv'.conn = conn
    BY <2>1, <2>2, ConstantsAssumption
  <2>4. Known(t) /\ Reaches(conn, "served")
    BY <1>7 DEF OnDataDecrypt, Known, tableVars
  <2> QED
    BY <1>5, <1>7, <2>2, <2>3, <2>4 DEF TakenInHand
<1>8. ASSUME OnDataDecrypt(t, f, conn), ~Decrypts(t, f)
      PROVE  Rejected(t, i) /\ Reaches(conn, "closed")
  BY <1>5, <1>8 DEF OnDataDecrypt, Rejected, Known, tableVars, f
<1>9. UNCHANGED <<owner, createdAt>>
  BY <1>1 DEF OnData, OnDataUnknown, OnDataDecrypt, tableVars
<1> QED
  BY <1>1, <1>3, <1>6, <1>7, <1>8, <1>9, DrawnFirst DEF OnData, histVars

(* Only the client that waits on the connection is moved. *)
LEMMA ServesMoves ==
    ASSUME OrderInv, NEW t \in Tokens, NEW i \in Nat,
           NEW conn \in Clients \cup {None}, Serves(t, i, conn), NEW c \in Clients
    PROVE  /\ conn # c => pc'[c] = pc[c]
           /\ conn = c => token[c] = t /\ pc[c] = "call" /\ i = Len(sent[t])
           /\ Reaches(conn, "closed") /\ conn = c => pc'[c] = "closed"
           /\ Reaches(conn, "served") /\ conn = c => pc'[c] = "served"
<1>1. pc \in [Clients -> PcValues]
  BY DEF OrderInv, TypeOK
<1>2. PICK p \in {"closed", "served"} : Reaches(conn, p)
  BY ServesShape
<1>3. conn # c => pc'[c] = pc[c]
  BY <1>1, <1>2 DEF Reaches
<1>4. conn = c => token[c] = t /\ pc[c] = "call" /\ i = Len(sent[t])
  BY ConstantsAssumption DEF Serves
<1>5. ASSUME NEW q, Reaches(conn, q), conn = c
      PROVE  pc'[c] = q
  BY <1>1, <1>5, ConstantsAssumption DEF Reaches
<1> QED
  BY <1>3, <1>4, <1>5

(* What the second half of OnData does to the session of the frame in hand *)
(* and to the client that waits.                                           *)
Answers ==
    LET t == srv.tok  c == srv.conn IN
    /\ cSend' = [cSend EXCEPT ![t] = cSend[t] + 1]
    /\ answered' = [answered EXCEPT ![t] = answered[t] + 1]
    /\ IF Listens(c)
       THEN /\ pc' = [pc EXCEPT ![c] = "replied"]
            /\ reply' = [reply EXCEPT ![c] =
                           [tok |-> t, seq |-> cSend[t], key |-> cKey[t]]]
       ELSE UNCHANGED <<pc, reply>>

Shuts ==
    /\ UNCHANGED <<cSend, answered, reply>>
    /\ IF Listens(srv.conn) THEN pc' = [pc EXCEPT ![srv.conn] = "closed"]
       ELSE UNCHANGED pc

LEMMA HandleShape ==
    ASSUME OrderInv, Handle
    PROVE  /\ srv # None /\ srv.tok \in chans /\ srv.tok \in drawn
           /\ srv.conn \in Clients \cup {None}
           /\ srv' = None
           /\ \A u \in Tokens \ {srv.tok} : log'[u] = log[u]
           /\ Len(log'[srv.tok]) = Len(log[srv.tok]) + 1
           /\ UNCHANGED <<token, chanUser, sendSeq, recvSeq, owner, createdAt,
                          cKey, cRecv, now, drawn, sent, confirmed, broken>>
           /\ \/ chans' = chans
              \/ chans' = chans \ {srv.tok} /\ srv.tok \notin sessions'
           /\ sessions' \subseteq sessions
           /\ sessions \ {srv.tok} \subseteq sessions'
           /\ Answers \/ Shuts
<1> DEFINE t == srv.tok
<1>1. PICK ok \in BOOLEAN, p \in {"replied", "closed"} :
        /\ Finish(ok, p)
        /\ \/ Respond /\ p = "replied"
           \/ UNCHANGED <<cSend, answered, reply>> /\ p = "closed"
  <2>1. CASE HandleApi
    <3>1. Finish(srv.tok \in LiveSessions, "replied") /\ Respond
      BY <2>1 DEF HandleApi
    <3>2. (srv.tok \in LiveSessions) \in BOOLEAN
      OBVIOUS
    <3> QED
      BY <3>1, <3>2, Zenon
  <2> QED
    BY <2>1 DEF Handle, HandleLogout, HandleHeartbeat, HandleBad
<1>2. /\ srv # None /\ t \in chans /\ t \in Tokens /\ t \in drawn
      /\ srv.conn \in Clients \cup {None}
  <2>1. srv # None
    BY DEF Handle, HandleLogout, HandleHeartbeat, HandleApi, HandleBad
  <2>2. t \in chans /\ t \in Tokens /\ Len(log[t]) < Len(sent[t])
        /\ srv.conn \in Clients \cup {None}
    BY <2>1 DEF OrderInv, JobIsNext, TypeOK, Jobs
  <2>3. log[t] \in Seq(Entries)
    BY <2>2 DEF OrderInv, TypeOK
  <2>4. sent[t] # << >>
    BY <2>2, <2>3
  <2> QED
    BY <2>1, <2>2, <2>4, DrawnFirst
<1>3. /\ \A u \in Tokens \ {t} : log'[u] = log[u]
      /\ Len(log'[t]) = Len(log[t]) + 1
  <2> DEFINE e == [seq |-> srv.seq, op |-> srv.op, ok |-> ok]
  <2>1. log \in [Tokens -> Seq(Entries)] /\ e \in Entries
    BY <1>1, <1>2 DEF OrderInv, TypeOK, Jobs, Entries
  <2>2. log' = [log EXCEPT ![t] = Append(log[t], e)]
    BY <1>1 DEF Finish
  <2> HIDE DEF e
  <2>3. Len(Append(log[t], e)) = Len(log[t]) + 1
    BY <1>2, <2>1, AppendProperties
  <2> QED
    BY <1>2, <2>1, <2>2, <2>3
<1>4. /\ \/ chans' = chans
         \/ chans' = chans \ {t} /\ t \notin sessions'
      /\ sessions' \subseteq sessions /\ sessions \ {t} \subseteq sessions'
  <2>1. CASE HandleApi
    <3>1. sessions' = AfterGet(sessions, createdAt, now, t) /\ chans' = chans
      BY <2>1 DEF HandleApi
    <3> QED
      BY <3>1 DEF AfterGet
  <2>2. CASE HandleLogout
    BY <2>2 DEF HandleLogout, AfterLogout
  <2> QED
    BY <2>1, <2>2 DEF Handle, HandleHeartbeat, HandleBad
<1>5. Answers \/ Shuts
  BY <1>1 DEF Finish, Respond, Answers, Shuts
<1> QED
  BY <1>1, <1>2, <1>3, <1>4, <1>5 DEF Finish
-----------------------------------------------------------------------------
(* Keys: a channel, a client and a frame carry the keys of the user whose  *)
(* session it is.                                                          *)
KeysFollow ==
    /\ ChannelsKeyed
    /\ \A t \in Tokens : \A i \in 1..Len(sent[t]) : sent[t][i].key = owner[t]
    /\ \A c \in Clients :
          /\ token[c] # None => chanUser[c] = owner[token[c]]
          /\ pc[c] = "loggedIn" => reply[c].key = owner[reply[c].tok]

(* Only the entry of a live session takes new keys, and they are its own.  *)
LEMMA ChannelsKeyedNext ==
    ASSUME OrderInv, TypeOK', [Next]_vars, ChannelsKeyed
    PROVE  ChannelsKeyed'
<1> SUFFICES ASSUME NEW t \in chans'
             PROVE  t \in drawn' /\ cKey'[t] = owner'[t]
  BY DEF ChannelsKeyed
<1>0. TypeOK /\ t \in Tokens
  BY DEF OrderInv, TypeOK
<1>1. ASSUME t \in chans, cKey'[t] = cKey[t]
      PROVE  t \in drawn' /\ cKey'[t] = owner'[t]
  BY <1>1, SessionsKept DEF ChannelsKeyed, SessionKept
<1>2. CASE Handle
  BY <1>1, <1>2, HandleShape
<1>3. CASE Elsewhere
  BY <1>1, <1>3 DEF Elsewhere
<1>4. ASSUME NEW s \in Tokens, NEW i \in Nat, NEW conn \in Clients \cup {None},
             Serves(s, i, conn)
      PROVE  t \in drawn' /\ cKey'[t] = owner'[t]
  <2>1. CASE s # t \/ Unknown(s)
    <3>1. t \in chans /\ cKey'[t] = cKey[t]
      <4>1. CASE Unknown(s)
        BY <4>1 DEF Unknown
      <4>2. CASE s # t /\ Known(s)
        BY <1>0, <4>2 DEF Known, TypeOK
      <4> QED
        BY <1>4, <2>1, <4>1, <4>2, ServesShape DEF TakenInHand, Rejected
    <3> QED
      BY <1>1, <3>1
  <2>2. CASE s = t /\ Known(s)
    <3>1. cKey'[t] = KeyFor(t)
      BY <1>0, <2>2 DEF Known, TypeOK
    <3>2. CASE Unused(t)
      <4>1. t \in drawn /\ cKey'[t] = owner[t]
        BY <1>4, <2>2, <3>1, <3>2, ServesShape DEF KeyFor
      <4> QED
        BY <4>1, SessionsKept DEF SessionKept
    <3>3. CASE ~Unused(t)
      BY <1>1, <3>1, <3>3 DEF KeyFor, Unused
    <3> QED
      BY <3>2, <3>3
  <2> QED
    BY <1>4, <2>1, <2>2, ServesShape DEF TakenInHand, Rejected
<1> QED
  BY <1>2, <1>3, <1>4, Cases

(* Every entry of channel_states_ carries the keys of a session that was   *)
(* opened, for every set of clients, tokens and users.                     *)
THEOREM ChannelKeysFollow == Spec => []ChannelsKeyed
<1>1. Init => ChannelsKeyed
  BY DEF Init, ChannelsKeyed
<1>2. OrderInv /\ OrderInv' /\ ChannelsKeyed /\ [Next]_vars => ChannelsKeyed'
  BY ChannelsKeyedNext DEF OrderInv
<1> QED
  BY <1>1, <1>2, OrderAlways, PTL DEF Spec

(* A client takes its keys from the answer to its login and puts them on   *)
(* every frame.                                                            *)
LEMMA KeysNext ==
    ASSUME OrderInv, OrderInv', [Next]_vars, KeysFollow
    PROVE  KeysFollow'
<1>0. TypeOK /\ TypeOK'
  BY DEF OrderInv
<1>1. ChannelsKeyed'
  BY <1>0, ChannelsKeyedNext DEF KeysFollow
<1>2. ASSUME NEW t \in Tokens, NEW i \in 1..Len(sent'[t])
      PROVE  sent'[t][i].key = owner'[t]
  <2>1. ASSUME i \in 1..Len(sent[t]), sent'[t][i] = sent[t][i], sent[t] # << >>
        PROVE  sent'[t][i].key = owner'[t]
    BY <1>0, <2>1, DrawnFirst, SessionsKept DEF KeysFollow, SessionKept
  <2>2. CASE sent' = sent
    <3>1. sent[t] \in Seq(Frames) /\ sent[t] # << >>
      BY <1>0, <1>2, <2>2 DEF TypeOK
    <3> QED
      BY <1>2, <2>1, <2>2, <3>1
  <2>3. ASSUME NEW c \in Clients, NEW op \in Ops, Call(c, op)
        PROVE  sent'[t][i].key = owner'[t]
    <3> DEFINE f == [seq |-> sendSeq[c], op |-> op, key |-> chanUser[c]]
    <3>1. /\ token[c] \in Tokens /\ f \in Frames /\ f.key = owner[token[c]]
          /\ sent' = [sent EXCEPT ![token[c]] = Append(sent[token[c]], f)]
      BY <1>0, <2>3 DEF Call, TypeOK, Frames, KeysFollow
    <3>2. sent[t] \in Seq(Frames)
      BY <1>0 DEF TypeOK
    <3>3. token[c] \in drawn
      BY <2>3, DrawnFirst DEF Call
    <3> HIDE DEF f
    <3>4. CASE t # token[c]
      <4>1. sent'[t] = sent[t]
        BY <1>0, <3>1, <3>4 DEF TypeOK
      <4>2. sent[t] # << >>
        BY <1>2, <3>2, <4>1
      <4> QED
        BY <1>2, <2>1, <4>1, <4>2
    <3>5. CASE t = token[c]
      <4>1. sent'[t] = Append(sent[t], f)
        BY <1>0, <3>1, <3>5 DEF TypeOK
      <4>2. CASE i \in 1..Len(sent[t])
        <5>1. sent[t] # << >> /\ sent'[t][i] = sent[t][i]
          BY <3>1, <3>2, <4>1, <4>2, AppendProperties
        <5> QED
          BY <2>1, <4>2, <5>1
      <4>3. CASE i \notin 1..Len(sent[t])
        <5>1. sent'[t][i] = f
          BY <1>2, <3>1, <3>2, <4>1, <4>3, AppendProperties
        <5> QED
          BY <3>1, <3>3, <3>5, <5>1, SessionsKept, <1>0 DEF SessionKept
      <4> QED
        BY <4>2, <4>3
    <3> QED
      BY <3>4, <3>5
  <2> QED
    BY <2>2, <2>3, Cases, HandleShape, ServesShape DEF Elsewhere
<1>3. ASSUME NEW c \in Clients
      PROVE  /\ token'[c] # None => chanUser'[c] = owner'[token'[c]]
             /\ pc'[c] = "loggedIn" => reply'[c].key = owner'[reply'[c].tok]
  <2> DEFINE Keyed == /\ token'[c] # None => chanUser'[c] = owner'[token'[c]]
                      /\ pc'[c] = "loggedIn" => reply'[c].key = owner'[reply'[c].tok]
  <2>1. ASSUME token'[c] = token[c], chanUser'[c] = chanUser[c]
        PROVE  token'[c] # None => chanUser'[c] = owner'[token'[c]]
    BY <1>0, <2>1, DrawnFirst, SessionsKept DEF KeysFollow, SessionKept
  <2>2. ASSUME pc[c] = "loggedIn", reply'[c] = reply[c]
        PROVE  reply'[c].key = owner'[reply'[c].tok]
    BY <1>0, <2>2, DrawnFirst, SessionsKept DEF KeysFollow, SessionKept
  <2>3. ASSUME token'[c] = token[c], chanUser'[c] = chanUser[c],
               pc'[c] = "loggedIn" => pc[c] = "loggedIn" /\ reply'[c] = reply[c]
        PROVE  Keyed
    BY <2>1, <2>2, <2>3
  <2>4. CASE Handle
    BY <1>0, <2>3, <2>4, HandleShape DEF Answers, Shuts, Listens, TypeOK
  <2>5. ASSUME NEW s \in Tokens, NEW i \in Nat, NEW conn \in Clients \cup {None},
               Serves(s, i, conn)
        PROVE  Keyed
    BY <1>0, <2>3, <2>5, ServesShape DEF Reaches, TypeOK
  <2>6. ASSUME NEW t \in Tokens, NEW u \in Users, ServeLogin(c, t, u), Unmoved(c)
        PROVE  Keyed
    <3>1. reply'[c].key = u /\ reply'[c].tok = t /\ owner'[t] = u
      BY <1>0, <2>6 DEF ServeLogin, CreateSession, TypeOK
    <3> QED
      BY <2>1, <2>6, <3>1 DEF Unmoved
  <2>7. CASE LoggedIn(c)
    <3>1. /\ token'[c] = reply[c].tok /\ chanUser'[c] = reply[c].key
          /\ owner' = owner /\ pc'[c] = "idle"
      BY <1>0, <2>7 DEF LoggedIn, TypeOK, tableVars
    <3> QED
      BY <2>7, <3>1 DEF LoggedIn, KeysFollow
  <2>8. ASSUME NEW op \in Ops, Call(c, op)
        PROVE  Keyed
    BY <1>0, <2>3, <2>8 DEF Call, TypeOK
  <2>9. CASE Receive(c)
    <3>1. /\ token'[c] = token[c] \/ token'[c] = None
          /\ chanUser'[c] = chanUser[c] /\ pc'[c] = "idle"
      BY <1>0, <2>9 DEF Receive, EndRoundTrip, TypeOK
    <3> QED
      BY <2>1, <3>1
  <2>10. CASE Elsewhere
    <3>1. ClientMoves(c)
      BY <2>10 DEF Elsewhere
    <3> QED
      BY <2>3, <2>6, <2>7, <2>8, <2>9, <3>1 DEF ClientMoves, Unmoved, Resting
  <2> QED
    BY <1>0, <2>4, <2>5, <2>10, Cases
<1> QED
  BY <1>1, <1>2, <1>3 DEF KeysFollow
-----------------------------------------------------------------------------
(* Answers: send_seq counts the answers of a session, no more of them than *)
(* calls were run, and recv_seq_ those its client accepted.                *)
AnswersCounted ==
    /\ \A t \in chans : cSend[t] = answered[t] /\ sent[t] # << >>
    /\ \A t \in Tokens : confirmed[t] <= answered[t] /\ answered[t] <= Len(log[t])
    /\ \A c \in Clients : token[c] # None => recvSeq[c] = confirmed[token[c]]

(* A client that waits in OnData has the frame in hand, and the answer in  *)
(* a socket is the last one its session was or will be given.              *)
AtServer(c) ==
    LET t == token[c] IN
    /\ pc[c] = "served" =>
          /\ srv # None /\ srv.conn = c /\ srv.tok = t
          /\ cRecv[t] = sendSeq[c]
    /\ pc[c] = "replied" =>
          /\ reply[c].tok = t
          /\ reply[c].seq + 1 = answered[t]
          /\ ~Handling(t)
          /\ IF t \in chans THEN cRecv[t] = sendSeq[c] ELSE t \notin sessions

RoundTrips == \A c \in Clients : AtServer(c)

CountersInv == AnswersCounted /\ RoundTrips

(* A session that has run nothing has no answers. *)
LEMMA NothingRun ==
    ASSUME OrderInv, AnswersCounted, NEW t \in Tokens,
           sent[t] = << >> \/ t \in sessions \ chans
    PROVE  log[t] = << >> /\ answered[t] = 0 /\ confirmed[t] = 0
<1>1. /\ log[t] \in Seq(Entries) /\ sent[t] \in Seq(Frames)
      /\ answered[t] \in Nat /\ confirmed[t] \in Nat
  BY DEF OrderInv, TypeOK
<1>2. Len(log[t]) \in Nat /\ Len(sent[t]) \in Nat
  BY <1>1, LenProperties
<1>3. log[t] = << >>
  <2>1. CASE sent[t] = << >>
    <3>1. Len(log[t]) <= 0
      BY <1>1, <2>1 DEF OrderInv, ExecutedInOrder
    <3> QED
      BY <1>1, <1>2, <3>1
  <2>2. CASE t \in sessions \ chans
    BY <2>2 DEF OrderInv, RecvCounted
  <2> QED
    BY <2>1, <2>2
<1>4. Len(log[t]) = 0
  BY <1>3
<1> QED
  BY <1>1, <1>3, <1>4 DEF AnswersCounted

(* Both halves of OnData count their answers in step. *)
LEMMA SendSeqCounts ==
    ASSUME OrderInv, OrderInv', [Next]_vars, CountersInv
    PROVE  \A t \in chans' : cSend'[t] = answered'[t] /\ sent'[t] # << >>
<1> SUFFICES ASSUME NEW t \in chans'
             PROVE  cSend'[t] = answered'[t] /\ sent'[t] # << >>
  OBVIOUS
<1>0. TypeOK /\ TypeOK' /\ t \in Tokens
  BY DEF OrderInv, TypeOK
<1>1. CASE Handle
  <2>1. t \in chans /\ sent' = sent
    BY <1>1, HandleShape
  <2>2. cSend'[t] = answered'[t]
    <3>1. CASE Shuts
      BY <2>1, <3>1 DEF Shuts, CountersInv, AnswersCounted
    <3>2. CASE Answers
      BY <1>0, <2>1, <3>2 DEF Answers, CountersInv, AnswersCounted, TypeOK
    <3> QED
      BY <1>1, <3>1, <3>2, HandleShape
  <2> QED
    BY <2>1, <2>2 DEF CountersInv, AnswersCounted
<1>2. ASSUME NEW s \in Tokens, NEW i \in Nat, NEW conn \in Clients \cup {None},
             Serves(s, i, conn)
      PROVE  cSend'[t] = answered'[t] /\ sent'[t] # << >>
  <2>1. answered' = answered /\ sent' = sent /\ sent[s] # << >>
    BY <1>2, ServesShape
  <2>2. CASE Unknown(s)
    BY <2>1, <2>2 DEF Unknown, CountersInv, AnswersCounted
  <2>3. CASE Known(s)
    <3>1. CASE t \in chans
      <4>1. cSend'[t] = cSend[t]
        BY <1>0, <2>3, <3>1 DEF Known, TypeOK
      <4> QED
        BY <2>1, <3>1, <4>1 DEF CountersInv, AnswersCounted
    <3>2. CASE t \notin chans
      <4>1. t = s /\ cSend'[t] = 0 /\ t \in sessions
        BY <1>0, <2>3, <3>2 DEF Known, TypeOK, Unused, LiveSessions, Live
      <4> QED
        BY <1>0, <2>1, <3>2, <4>1, NothingRun DEF CountersInv
    <3> QED
      BY <3>1, <3>2
  <2> QED
    BY <1>2, <2>2, <2>3, ServesShape DEF TakenInHand, Rejected
<1>3. CASE Elsewhere
  <2>1. t \in chans /\ cSend'[t] = answered'[t] /\ sent[t] # << >>
    BY <1>3 DEF Elsewhere, CountersInv, AnswersCounted
  <2>2. ASSUME NEW c \in Clients, NEW op \in Ops, Call(c, op)
        PROVE  sent'[t] # << >>
    <3> DEFINE f == [seq |-> sendSeq[c], op |-> op, key |-> chanUser[c]]
    <3>1. /\ token[c] \in Tokens /\ f \in Frames /\ sent[t] \in Seq(Frames)
          /\ sent' = [sent EXCEPT ![token[c]] = Append(sent[token[c]], f)]
      BY <1>0, <2>2 DEF Call, TypeOK, Frames
    <3> HIDE DEF f
    <3>2. Append(sent[t], f) # << >>
      BY <3>1, AppendProperties
    <3>3. sent'[t] = sent[t] \/ sent'[t] = Append(sent[t], f)
      BY <1>0, <3>1 DEF TypeOK
    <3> QED
      BY <2>1, <3>2, <3>3
  <2> QED
    BY <1>3, <2>1, <2>2 DEF Elsewhere
<1> QED
  BY <1>1, <1>2, <1>3, Cases

(* An accepted answer is the one after those accepted before. *)
LEMMA ReceiveCounts ==
    ASSUME OrderInv, CountersInv, NEW c \in Clients, Receive(c)
    PROVE  LET t == token[c] IN
           /\ t \in Tokens
           /\ UNCHANGED <<answered, log>>
           /\ token'[c] \in {t, None} /\ pc'[c] = "idle"
           /\ \/ /\ ReplyAccepted(c) /\ answered[t] = confirmed[t] + 1
                 /\ recvSeq' = [recvSeq EXCEPT ![c] = @ + 1]
                 /\ confirmed' = [confirmed EXCEPT ![t] = @ + 1]
              \/ ~ReplyAccepted(c) /\ UNCHANGED <<recvSeq, confirmed>>
<1>1. /\ TypeOK /\ pc[c] = "replied" /\ token[c] # None /\ token[c] \in Tokens
  BY DEF OrderInv, TypeOK, Receive, RoundTripOK
<1>2. /\ token'[c] \in {token[c], None} /\ pc'[c] = "idle"
      /\ UNCHANGED <<answered, log>>
  BY <1>1 DEF Receive, EndRoundTrip, TypeOK
<1>3. ASSUME ReplyAccepted(c)
      PROVE  answered[token[c]] = confirmed[token[c]] + 1
  <2>1. reply[c].seq = recvSeq[c]
    BY <1>3 DEF ReplyAccepted
  <2> QED
    BY <1>1, <2>1 DEF CountersInv, AnswersCounted, RoundTrips, AtServer
<1> QED
  BY <1>1, <1>2, <1>3 DEF Receive

(* No session has more answers than calls, nor a client more than answers. *)
LEMMA AnswersBounded ==
    ASSUME OrderInv, OrderInv', [Next]_vars, CountersInv, NEW t \in Tokens
    PROVE  confirmed'[t] <= answered'[t] /\ answered'[t] <= Len(log'[t])
<1>0. /\ TypeOK
      /\ confirmed[t] \in Nat /\ answered[t] \in Nat /\ Len(log[t]) \in Nat
      /\ confirmed[t] <= answered[t] /\ answered[t] <= Len(log[t])
  <2>1. TypeOK /\ log[t] \in Seq(Entries)
    BY DEF OrderInv, TypeOK
  <2> QED
    BY <2>1, LenProperties DEF TypeOK, CountersInv, AnswersCounted
<1>1. CASE Handle
  <2>1. CASE t = srv.tok
    <3>1. confirmed' = confirmed /\ Len(log'[t]) = Len(log[t]) + 1
      BY <1>1, <2>1, HandleShape
    <3>2. answered'[t] = answered[t] \/ answered'[t] = answered[t] + 1
      BY <1>0, <1>1, <2>1, HandleShape DEF Answers, Shuts, TypeOK
    <3> QED
      BY <1>0, <3>1, <3>2
  <2>2. CASE t # srv.tok
    <3>1. confirmed' = confirmed /\ log'[t] = log[t]
      BY <1>1, <2>2, HandleShape
    <3>2. answered'[t] = answered[t]
      BY <1>0, <1>1, <2>2, HandleShape DEF Answers, Shuts, TypeOK
    <3> QED
      BY <1>0, <3>1, <3>2
  <2> QED
    BY <2>1, <2>2
<1>2. ASSUME NEW s \in Tokens, NEW i \in Nat, NEW conn \in Clients \cup {None},
             Serves(s, i, conn)
      PROVE  confirmed'[t] <= answered'[t] /\ answered'[t] <= Len(log'[t])
  BY <1>0, <1>2, ServesShape
<1>3. CASE Elsewhere
  <2>1. answered' = answered /\ log' = log
    BY <1>3 DEF Elsewhere
  <2>2. ASSUME NEW c \in Clients, Receive(c)
        PROVE  confirmed'[t] <= answered[t]
    <3>1. confirmed \in [Tokens -> Nat]
      BY <1>0 DEF TypeOK
    <3>2. \/ confirmed' = confirmed
          \/ /\ confirmed' = [confirmed EXCEPT ![token[c]] = @ + 1]
             /\ answered[token[c]] = confirmed[token[c]] + 1
      BY <2>2, ReceiveCounts
    <3>3. CASE t = token[c]
      BY <1>0, <3>1, <3>2, <3>3
    <3>4. CASE t # token[c]
      BY <1>0, <3>1, <3>2, <3>4
    <3> QED
      BY <3>3, <3>4
  <2> QED
    BY <1>0, <1>3, <2>1, <2>2 DEF Elsewhere
<1> QED
  BY <1>1, <1>2, <1>3, Cases

(* recv_seq_ follows the answers its client accepted. *)
LEMMA RecvSeqCounts ==
    ASSUME OrderInv, OrderInv', [Next]_vars, CountersInv, NEW c \in Clients,
           token'[c] # None
    PROVE  recvSeq'[c] = confirmed'[token'[c]]
<1>0. TypeOK
  BY DEF OrderInv
<1>1. ASSUME UNCHANGED confirmed, token'[c] = token[c], recvSeq'[c] = recvSeq[c]
      PROVE  recvSeq'[c] = confirmed'[token'[c]]
  BY <1>1 DEF CountersInv, AnswersCounted
<1>2. CASE Handle
  BY <1>1, <1>2, HandleShape
<1>3. ASSUME NEW s \in Tokens, NEW i \in Nat, NEW conn \in Clients \cup {None},
             Serves(s, i, conn)
      PROVE  recvSeq'[c] = confirmed'[token'[c]]
  BY <1>1, <1>3, ServesShape
<1>4. CASE Receive(c)
  <2>1. token'[c] = token[c] /\ token[c] \in Tokens
    BY <1>4, ReceiveCounts
  <2>2. /\ recvSeq[c] = confirmed[token[c]]
        /\ recvSeq \in [Clients -> Nat] /\ confirmed \in [Tokens -> Nat]
    BY <1>0, <2>1 DEF TypeOK, CountersInv, AnswersCounted
  <2>3. \/ UNCHANGED <<recvSeq, confirmed>>
        \/ /\ recvSeq' = [recvSeq EXCEPT ![c] = @ + 1]
           /\ confirmed' = [confirmed EXCEPT ![token[c]] = @ + 1]
    BY <1>4, ReceiveCounts
  <2> QED
    BY <2>1, <2>2, <2>3
<1>5. CASE LoggedIn(c)
  <2>1. /\ token'[c] = reply[c].tok /\ recvSeq'[c] = 0 /\ confirmed' = confirmed
        /\ reply[c].tok \in Tokens /\ sent[reply[c].tok] = << >>
    BY <1>0, <1>5, DrawnFirst DEF LoggedIn, TypeOK, histVars
  <2> QED
    BY <2>1, NothingRun DEF CountersInv
<1>6. ASSUME Elsewhere, token'[c] = token[c], recvSeq'[c] = recvSeq[c], ~Receive(c)
      PROVE  recvSeq'[c] = confirmed'[token'[c]]
  <2>1. ASSUME NEW d \in Clients, Receive(d), d # c
        PROVE  confirmed'[token[c]] = confirmed[token[c]]
    <3>1. token[d] # token[c]
      BY <1>0, <1>6, <2>1, ReceiveCounts DEF OrderInv, TokensUnique, Holds, TypeOK
    <3>2. \/ confirmed' = confirmed
          \/ confirmed' = [confirmed EXCEPT ![token[d]] = @ + 1]
      BY <2>1, ReceiveCounts
    <3>3. confirmed \in [Tokens -> Nat] /\ token[c] \in Tokens
      BY <1>0, <1>6 DEF TypeOK
    <3> QED
      BY <3>1, <3>2, <3>3
  <2> QED
    BY <1>1, <1>6, <2>1 DEF Elsewhere, CountersInv, AnswersCounted
<1>7. CASE Elsewhere
  <2>1. ASSUME NEW op \in Ops, Call(c, op)
        PROVE  token'[c] = token[c] /\ recvSeq'[c] = recvSeq[c]
    BY <2>1 DEF Call
  <2>2. ClientMoves(c)
    BY <1>7 DEF Elsewhere
  <2> QED
    BY <1>4, <1>5, <1>6, <1>7, <2>1, <2>2 DEF ClientMoves, Unmoved
<1> QED
  BY <1>2, <1>3, <1>7, Cases

(* While a client has an answer to take, its session gets no other.        *)
LEMMA RepliedStays ==
    ASSUME OrderInv, OrderInv', [Next]_vars, CountersInv, NEW c \in Clients,
           pc[c] = "replied", pc'[c] = "replied", reply'[c] = reply[c],
           token'[c] = token[c], sendSeq'[c] = sendSeq[c]
    PROVE  AtServer(c)'
<1> DEFINE t == token[c]
<1>0. /\ TypeOK /\ t \in Tokens /\ t \in drawn /\ token[c] # None
      /\ answered \in [Tokens -> Nat] /\ cRecv \in [Tokens -> Nat]
  BY DrawnFirst DEF OrderInv, TypeOK, RoundTripOK
<1>1. /\ reply[c].tok = t /\ reply[c].seq + 1 = answered[t] /\ ~Handling(t)
      /\ IF t \in chans THEN cRecv[t] = sendSeq[c] ELSE t \notin sessions
  BY DEF CountersInv, RoundTrips, AtServer
<1>2. t \in sessions' => t \in sessions
  BY <1>0, SessionsKept DEF OrderInv, SessionKept
<1> SUFFICES /\ answered'[t] = answered[t]
             /\ ~Handling(t)'
             /\ IF t \in chans' THEN cRecv'[t] = sendSeq[c] ELSE t \notin sessions'
  BY <1>1 DEF AtServer, Handling
<1>3. CASE Handle
  <2>1. srv.tok # t /\ srv' = None /\ cRecv' = cRecv
    BY <1>1, <1>3, HandleShape DEF Handling
  <2>2. (t \in chans' <=> t \in chans)
    BY <1>3, <2>1, HandleShape
  <2>3. answered'[t] = answered[t]
    BY <1>0, <1>3, <2>1, HandleShape DEF Answers, Shuts
  <2> QED
    BY <1>1, <1>2, <2>1, <2>2, <2>3 DEF Handling
<1>4. ASSUME NEW s \in Tokens, NEW i \in Nat, NEW conn \in Clients \cup {None},
             Serves(s, i, conn)
      PROVE  /\ answered'[t] = answered[t]
             /\ ~Handling(t)'
             /\ IF t \in chans' THEN cRecv'[t] = sendSeq[c] ELSE t \notin sessions'
  <2>1. answered' = answered /\ srv = None /\ i <= Len(sent[s])
    BY <1>4, ServesShape DEF Serves
  <2>2. CASE Unknown(s)
    BY <1>1, <1>2, <2>1, <2>2 DEF Unknown, Handling
  <2>3. CASE s # t /\ Known(s) /\ (TakenInHand(s, i, conn) \/ Rejected(s, i))
    <3>1. (t \in chans' <=> t \in chans) /\ cRecv'[t] = cRecv[t]
      BY <1>0, <2>3 DEF Known, TakenInHand, Rejected
    <3>2. ~Handling(t)'
      BY <1>0, <2>1, <2>3 DEF TakenInHand, Rejected, Handling
    <3> QED
      BY <1>1, <1>2, <2>1, <3>1, <3>2
  <2>4. CASE s = t /\ Known(s)
    <3>1. t \in chans
      BY <1>1, <2>4 DEF Known, Unused, LiveSessions, Live
    <3>2. RecvFor(t) = Len(sent[t])
      BY <1>0, <1>1, <3>1 DEF RecvFor, OrderInv, SendCounted
    <3>3. ~TakenInHand(s, i, conn)
      <4>1. RecvFor(t) \in Nat
        BY <1>0 DEF RecvFor
      <4> QED
        BY <2>1, <2>4, <3>2, <4>1 DEF TakenInHand
    <3>4. Rejected(s, i)
      BY <1>4, <2>4, <3>1, <3>3, ServesShape DEF Unknown, Known
    <3>5. t \in chans' /\ cRecv'[t] = cRecv[t] /\ srv' = None
      BY <1>0, <2>1, <2>4, <3>1, <3>4 DEF Rejected, Known, RecvFor
    <3> QED
      BY <1>1, <2>1, <3>1, <3>5 DEF Handling
  <2> QED
    BY <1>4, <2>2, <2>3, <2>4, ServesShape DEF TakenInHand, Rejected
<1>5. CASE Elsewhere
  BY <1>1, <1>2, <1>5 DEF Elsewhere, Handling
<1> QED
  BY <1>3, <1>4, <1>5, Cases

(* Every step keeps what a client waits for. *)
LEMMA RoundTripsNext ==
    ASSUME OrderInv, OrderInv', [Next]_vars, CountersInv, NEW c \in Clients
    PROVE  AtServer(c)'
<1> DEFINE t == token[c]
<1>0. TypeOK /\ TypeOK'
  BY DEF OrderInv
<1>1. ASSUME pc'[c] # "served", pc'[c] # "replied"
      PROVE  AtServer(c)'
  BY <1>1 DEF AtServer
<1>2. CASE Handle
  <2>1. UNCHANGED <<token, sendSeq, cRecv>> /\ srv' = None /\ srv # None
    BY <1>2, HandleShape
  <2>2. CASE pc[c] = "served"
    <3>1. srv.conn = c /\ srv.tok = t /\ cRecv[t] = sendSeq[c] /\ Listens(c)
      BY <2>2, ConstantsAssumption
      DEF CountersInv, RoundTrips, AtServer, Listens
    <3>2. CASE Shuts
      <4>1. pc'[c] = "closed"
        BY <1>0, <3>1, <3>2 DEF Shuts, TypeOK
      <4> QED
        BY <1>1, <4>1
    <3>3. CASE Answers
      <4>1. /\ t \in chans /\ t \in Tokens
        BY <1>0, <1>2, <3>1, HandleShape DEF TypeOK
      <4>2. cSend[t] = answered[t] /\ answered \in [Tokens -> Nat]
        BY <1>0, <4>1 DEF CountersInv, AnswersCounted, TypeOK
      <4>3. /\ answered' = [answered EXCEPT ![t] = answered[t] + 1]
            /\ pc' = [pc EXCEPT ![c] = "replied"]
            /\ reply' = [reply EXCEPT ![c] =
                           [tok |-> t, seq |-> cSend[t], key |-> cKey[t]]]
        BY <3>1, <3>3 DEF Answers
      <4>4. pc'[c] = "replied" /\ reply'[c].tok = t /\ reply'[c].seq + 1 = answered'[t]
        BY <1>0, <4>1, <4>2, <4>3 DEF TypeOK
      <4>5. t \in chans' \/ t \notin sessions'
        BY <1>2, <3>1, <4>1, HandleShape
      <4> QED
        BY <2>1, <3>1, <4>4, <4>5 DEF AtServer, Handling
    <3> QED
      BY <1>2, <3>2, <3>3, HandleShape
  <2>3. CASE pc[c] # "served"
    <3>1. pc'[c] = pc[c] /\ reply'[c] = reply[c]
      BY <1>0, <1>2, <2>3, HandleShape DEF Answers, Shuts, Listens, TypeOK
    <3> QED
      BY <1>1, <2>1, <2>3, <3>1, RepliedStays
  <2> QED
    BY <2>2, <2>3
<1>3. ASSUME NEW s \in Tokens, NEW i \in Nat, NEW conn \in Clients \cup {None},
             Serves(s, i, conn)
      PROVE  AtServer(c)'
  <2>1. UNCHANGED <<token, sendSeq, reply>> /\ srv = None
    BY <1>3, ServesShape
  <2>2. pc[c] # "served"
    BY <2>1 DEF CountersInv, RoundTrips, AtServer
  <2>3. CASE pc'[c] = "replied"
    <3>1. pc[c] = "replied"
      BY <1>0, <1>3, <2>3, ServesShape DEF Reaches, TypeOK
    <3> QED
      BY <2>1, <2>3, <3>1, RepliedStays
  <2>4. CASE pc'[c] = "served"
    <3>1. conn = c /\ TakenInHand(s, i, conn)
      <4>1. ~Reaches(conn, "closed")
        BY <1>0, <2>2, <2>4 DEF Reaches, TypeOK
      <4>2. TakenInHand(s, i, conn) /\ Reaches(conn, "served")
        BY <1>3, <4>1, ServesShape
      <4> QED
        BY <1>0, <2>2, <2>4, <4>2 DEF Reaches, TypeOK
    <3>2. s = t /\ i = Len(sent[t])
      BY <1>3, <3>1, ConstantsAssumption DEF Serves
    <3>3. sendSeq[c] = Len(sent[t])
      BY <3>2, ConstantsAssumption DEF OrderInv, SendCounted
    <3>4. cRecv'[t] = i /\ srv' # None /\ srv'.tok = t /\ srv'.conn = c
      BY <1>0, <3>1, <3>2 DEF TakenInHand, TypeOK
    <3> QED
      BY <2>1, <2>4, <3>2, <3>3, <3>4 DEF AtServer
  <2> QED
    BY <1>1, <2>3, <2>4
<1>4. CASE Elsewhere
  <2>1. ASSUME Unmoved(c), pc'[c] = pc[c], reply'[c] = reply[c]
        PROVE  AtServer(c)'
    <3>1. CASE pc[c] = "served"
      <4>1. srv' = srv /\ cRecv' = cRecv
        BY <1>4, <2>1, <3>1 DEF Elsewhere
      <4>2. AtServer(c) /\ token'[c] = token[c] /\ sendSeq'[c] = sendSeq[c]
        BY <2>1 DEF Unmoved, CountersInv, RoundTrips
      <4> QED
        BY <2>1, <3>1, <4>1, <4>2 DEF AtServer
    <3>2. CASE pc[c] = "replied"
      BY <2>1, <3>2, RepliedStays DEF Unmoved
    <3> QED
      BY <1>1, <2>1, <3>1, <3>2
  <2>2. ASSUME (\E s \in Tokens, u \in Users : ServeLogin(c, s, u)) \/ LoggedIn(c)
               \/ (\E op \in Ops : Call(c, op)) \/ Receive(c)
        PROVE  pc'[c] \notin {"served", "replied"}
    BY <1>0, <2>2 DEF ServeLogin, LoggedIn, Call, Receive, EndRoundTrip, TypeOK
  <2>3. ClientMoves(c)
    BY <1>4 DEF Elsewhere
  <2> QED
    BY <1>1, <2>1, <2>2, <2>3 DEF ClientMoves, Resting
<1> QED
  BY <1>2, <1>3, <1>4, Cases

(* Both ends' counters, and the answer in every socket, of every session.  *)
LEMMA CountersAlways == Spec => []CountersInv
<1>1. Init => CountersInv
  BY ConstantsAssumption
  DEF Init, CountersInv, AnswersCounted, RoundTrips, AtServer
<1>2. OrderInv /\ OrderInv' /\ CountersInv /\ [Next]_vars => CountersInv'
  BY SendSeqCounts, AnswersBounded, RecvSeqCounts, RoundTripsNext
  DEF CountersInv, AnswersCounted, RoundTrips
<1> QED
  BY <1>1, <1>2, OrderAlways, PTL DEF Spec
-----------------------------------------------------------------------------
(* Unbroken sessions: nothing of them is in hand that their client does    *)
(* not wait for, and both ends' counters agree but for the frame or the    *)
(* answer on its way.                                                      *)
OnItsWay(c, p) == IF pc[c] = p THEN 1 ELSE 0

InStep(c) ==
    LET t == token[c] IN
    /\ pc[c] # "served" => ~Handling(t)
    /\ t \in chans => cRecv[t] + OnItsWay(c, "call") = sendSeq[c]
    /\ t \in LiveSessions \ chans => sendSeq[c] = OnItsWay(c, "call")
    /\ answered[t] = recvSeq[c] + OnItsWay(c, "replied")
    /\ pc[c] = "replied" => reply[c].key = chanUser[c]

Whole(c) == token[c] # None /\ token[c] \notin broken

UnbrokenInv == \A c \in Clients : Whole(c) => InStep(c)

(* The answer in the socket of an unbroken session is the expected one.    *)
LEMMA InStepAccepts ==
    ASSUME OrderInv, CountersInv, NEW c \in Clients, InStep(c), pc[c] = "replied"
    PROVE  ReplyAccepted(c)
<1>1. /\ reply[c] \in Replies /\ recvSeq[c] \in Nat
      /\ reply[c].seq + 1 = recvSeq[c] + 1
      /\ reply[c].tok = token[c] /\ reply[c].key = chanUser[c]
  BY DEF OrderInv, TypeOK, RoundTripOK, CountersInv, RoundTrips, AtServer,
         InStep, OnItsWay
<1> QED
  BY <1>1 DEF ReplyAccepted, Replies

(* A step that touches neither the client nor its session.                 *)
LEMMA InStepKept ==
    ASSUME OrderInv, OrderInv', [Next]_vars, NEW c \in Clients,
           token[c] # None, InStep(c), Unmoved(c),
           ~Handling(token[c])' \/ srv' = srv,
           token[c] \in chans' =>
                token[c] \in chans /\ cRecv'[token[c]] = cRecv[token[c]],
           token[c] \in chans => token[c] \in chans' \/ token[c] \notin sessions',
           answered'[token[c]] = answered[token[c]],
           \/ pc'[c] = pc[c] /\ reply'[c] = reply[c]
           \/ pc[c] \in Resting /\ pc'[c] \in Resting
    PROVE  InStep(c)'
<1> DEFINE t == token[c]
<1>1. t \in LiveSessions' => t \in LiveSessions
  BY DrawnFirst, SessionsKept DEF OrderInv, SessionKept
<1>2. t \in LiveSessions' => t \in sessions'
  BY DEF LiveSessions, Live
<1>3. Handling(t)' => Handling(t)
  BY DEF Handling, Unmoved
<1>4. /\ OnItsWay(c, "call")' = OnItsWay(c, "call")
      /\ OnItsWay(c, "replied")' = OnItsWay(c, "replied")
      /\ pc'[c] = "served" <=> pc[c] = "served"
      /\ pc'[c] = "replied" => pc[c] = "replied" /\ reply'[c] = reply[c]
  BY DEF OnItsWay, Resting
<1>5. /\ token'[c] = t /\ sendSeq'[c] = sendSeq[c] /\ recvSeq'[c] = recvSeq[c]
      /\ chanUser'[c] = chanUser[c]
  BY DEF Unmoved
<1>6. t \in LiveSessions' \ chans' => t \in LiveSessions \ chans
  BY <1>1, <1>2
<1> HIDE DEF t
<1> QED
  BY <1>3, <1>4, <1>5, <1>6 DEF InStep, t

LEMMA InStepServes ==
    ASSUME OrderInv, OrderInv', [Next]_vars, CountersInv, KeysFollow,
           NEW c \in Clients, token[c] # None, InStep(c),
           NEW s \in Tokens, NEW i \in Nat, NEW conn \in Clients \cup {None},
           Serves(s, i, conn)
    PROVE  InStep(c)'
<1> DEFINE t == token[c]
<1>0. /\ TypeOK /\ t \in Tokens /\ srv = None /\ i \in 1..Len(sent[s])
      /\ UNCHANGED <<token, chanUser, sendSeq, recvSeq, reply, answered>>
      /\ sendSeq[c] = Len(sent[t]) /\ sendSeq[c] \in Nat /\ cRecv[t] \in Nat
      /\ pc[c] # "served"
  <2>1. TypeOK /\ i \in 1..Len(sent[s])
    BY DEF OrderInv, Serves
  <2>2. t \in Tokens /\ sendSeq[c] \in Nat
    BY <2>1 DEF TypeOK
  <2>3. sendSeq[c] = Len(sent[t]) /\ cRecv[t] \in Nat
    BY <2>1, <2>2 DEF OrderInv, SendCounted, TypeOK
  <2>4. srv = None /\ UNCHANGED <<token, chanUser, sendSeq, recvSeq, reply, answered>>
    BY ServesShape
  <2>5. pc[c] # "served"
    BY <2>4 DEF CountersInv, RoundTrips, AtServer
  <2> QED
    BY <2>1, <2>2, <2>3, <2>4, <2>5
<1>1. Unmoved(c) /\ reply'[c] = reply[c] /\ answered'[t] = answered[t]
  BY <1>0 DEF Unmoved
<1>2. ASSUME pc'[c] = pc[c], t \in chans' => t \in chans /\ cRecv'[t] = cRecv[t],
             t \in chans => t \in chans' \/ t \notin sessions', ~Handling(t)'
      PROVE  InStep(c)'
  BY <1>1, <1>2, InStepKept
<1>3. CASE s # t
  <2>1. conn # c
    BY <1>3, ConstantsAssumption DEF Serves
  <2>2. pc'[c] = pc[c]
    BY <2>1, ServesMoves
  <2>3. CASE Unknown(s)
    BY <1>0, <1>2, <1>3, <2>2, <2>3 DEF Unknown, Handling
  <2>4. CASE Known(s) /\ (TakenInHand(s, i, conn) \/ Rejected(s, i))
    <3>1. (t \in chans' <=> t \in chans) /\ cRecv'[t] = cRecv[t]
      BY <1>0, <1>3, <2>4 DEF Known, TakenInHand, Rejected, TypeOK
    <3>2. ~Handling(t)'
      BY <1>0, <1>3, <2>4 DEF TakenInHand, Rejected, Handling
    <3> QED
      BY <1>2, <2>2, <3>1, <3>2
  <2> QED
    BY <2>3, <2>4, ServesShape DEF TakenInHand, Rejected
<1>4. CASE s = t /\ Unknown(s)
  <2>1. /\ t \notin chans' /\ t \notin LiveSessions' /\ srv' = None
    BY <1>0, <1>4 DEF Unknown, LiveSessions, Live
  <2>2. pc'[c] = pc[c] \/ (pc[c] = "call" /\ pc'[c] = "closed")
    <3>1. Reaches(conn, "closed")
      BY <1>4, ServesShape DEF Unknown, TakenInHand, Rejected, Known
    <3> QED
      BY <3>1, ServesMoves
  <2> QED
    BY <1>0, <1>1, <2>1, <2>2 DEF InStep, Unmoved, OnItsWay, Handling
<1>5. CASE s = t /\ Known(s)
  <2>1. RecvFor(t) + OnItsWay(c, "call") = sendSeq[c]
    BY <1>0, <1>5 DEF RecvFor, Known, Unused, InStep, OnItsWay
  <2>2. CASE conn = c
    <3>1. pc[c] = "call" /\ i = sendSeq[c] /\ i = RecvFor(t) + 1
      BY <1>0, <1>5, <2>1, <2>2, ConstantsAssumption DEF Serves, OnItsWay
    <3>2. sent[t][i].key = KeyFor(t)
      BY <1>0, <1>5 DEF KeysFollow, ChannelsKeyed, KeyFor, Unused
    <3>3. TakenInHand(s, i, conn) /\ Reaches(conn, "served")
      BY <1>5, <3>1, <3>2, ServesShape DEF Unknown, Known, Rejected
    <3>4. pc'[c] = "served" /\ t \in chans' /\ cRecv'[t] = sendSeq[c]
      <4>1. cRecv \in [Tokens -> Nat]
        BY <1>0 DEF TypeOK
      <4> QED
        BY <1>0, <1>5, <2>2, <3>1, <3>3, <4>1, ServesMoves DEF TakenInHand, Known
    <3>5. /\ OnItsWay(c, "call")' = 0 /\ OnItsWay(c, "replied")' = 0
          /\ OnItsWay(c, "replied") = 0
      BY <3>1, <3>4 DEF OnItsWay
    <3>6. /\ token'[c] = t /\ sendSeq'[c] = sendSeq[c] /\ recvSeq'[c] = recvSeq[c]
          /\ answered'[t] = recvSeq[c] + 0
      BY <1>0, <3>5 DEF InStep
    <3> HIDE DEF t
    <3> QED
      BY <1>0, <3>4, <3>5, <3>6 DEF InStep, t
  <2>3. CASE conn # c
    <3>1. pc[c] = "call" => i # sendSeq[c]
      BY <1>0, <1>5, <2>3 DEF Serves, OrderInv, TokensUnique, Holds
    <3>2. i # RecvFor(t) + 1
      <4>1. RecvFor(t) \in Nat /\ i <= sendSeq[c]
        BY <1>0, <1>5 DEF RecvFor
      <4> QED
        BY <1>0, <2>1, <3>1, <4>1 DEF OnItsWay
    <3>3. ~TakenInHand(s, i, conn)
      BY <1>5, <3>2 DEF TakenInHand
    <3>4. pc'[c] = pc[c]
      BY <2>3, ServesMoves
    <3>5. t \in chans
      BY <1>0, <1>5, <2>1, <3>2, <3>1 DEF Known, Unused, InStep, OnItsWay
    <3>6. CASE Unknown(s)
      BY <1>4, <1>5, <3>6
    <3>7. CASE Rejected(s, i)
      <4>1. t \in chans' /\ cRecv'[t] = cRecv[t] /\ ~Handling(t)'
        BY <1>0, <1>5, <3>5, <3>7 DEF Rejected, Known, RecvFor, Handling, TypeOK
      <4> QED
        BY <1>2, <3>4, <3>5, <4>1
    <3> QED
      BY <3>3, <3>6, <3>7, ServesShape
  <2> QED
    BY <2>2, <2>3
<1> QED
  BY <1>3, <1>4, <1>5, ServesShape DEF TakenInHand, Rejected

LEMMA InStepHandle ==
    ASSUME OrderInv, OrderInv', [Next]_vars, CountersInv, KeysFollow,
           NEW c \in Clients, token[c] # None, InStep(c), Handle
    PROVE  InStep(c)'
<1> DEFINE t == token[c]
<1>0. /\ TypeOK /\ t \in Tokens /\ srv # None /\ srv' = None
      /\ UNCHANGED <<token, chanUser, sendSeq, recvSeq, cRecv>>
      /\ answered \in [Tokens -> Nat] /\ recvSeq[c] \in Nat
  BY HandleShape DEF OrderInv, TypeOK
<1>1. Unmoved(c) /\ ~Handling(t)'
  BY <1>0 DEF Unmoved, Handling
<1>2. CASE pc[c] # "served"
  <2>1. srv.tok # t
    BY <1>0, <1>2 DEF InStep, Handling
  <2>2. t \in chans' <=> t \in chans
    BY <1>0, <2>1, HandleShape DEF TypeOK
  <2>3. answered'[t] = answered[t]
    BY <1>0, <2>1, HandleShape DEF Answers, Shuts
  <2>4. pc'[c] = pc[c] /\ reply'[c] = reply[c]
    BY <1>0, <1>2, HandleShape DEF Answers, Shuts, Listens, TypeOK
  <2> QED
    BY <1>0, <1>1, <2>2, <2>3, <2>4, InStepKept
<1>3. CASE pc[c] = "served"
  <2>1. srv.conn = c /\ srv.tok = t /\ cRecv[t] = sendSeq[c] /\ Listens(c)
    BY <1>3, ConstantsAssumption
    DEF CountersInv, RoundTrips, AtServer, Listens
  <2>2. t \in chans /\ (t \in chans' \/ t \notin LiveSessions')
    BY <2>1, HandleShape DEF LiveSessions, Live
  <2>3. cRecv[t] + 0 = sendSeq[c] /\ answered[t] = recvSeq[c]
    BY <1>0, <1>3, <2>1 DEF InStep, OnItsWay, TypeOK
  <2>4. CASE Shuts
    <3>1. pc'[c] = "closed" /\ answered'[t] = recvSeq[c] + 0
      BY <1>0, <2>1, <2>3, <2>4 DEF Shuts, TypeOK
    <3>2. OnItsWay(c, "call")' = 0 /\ OnItsWay(c, "replied")' = 0
      BY <3>1 DEF OnItsWay
    <3> HIDE DEF t
    <3> QED
      BY <1>0, <1>1, <2>2, <2>3, <3>1, <3>2 DEF InStep, t
  <2>5. CASE Answers
    <3>1. pc'[c] = "replied" /\ reply'[c].key = cKey[t]
      BY <1>0, <2>1, <2>5 DEF Answers, TypeOK
    <3>2. answered'[t] = recvSeq[c] + 1
      BY <1>0, <2>1, <2>3, <2>5 DEF Answers
    <3>3. cKey[t] = chanUser[c]
      BY <2>2 DEF KeysFollow, ChannelsKeyed
    <3>4. OnItsWay(c, "call")' = 0 /\ OnItsWay(c, "replied")' = 1
      BY <3>1 DEF OnItsWay
    <3> HIDE DEF t
    <3> QED
      BY <1>0, <1>1, <2>2, <2>3, <3>1, <3>2, <3>3, <3>4 DEF InStep, t
  <2> QED
    BY <2>4, <2>5, HandleShape
<1> QED
  BY <1>2, <1>3

(* The client's own steps; a session starts with nothing sent or answered. *)
LEMMA InStepElsewhere ==
    ASSUME OrderInv, OrderInv', [Next]_vars, CountersInv,
           NEW c \in Clients, Whole(c) => InStep(c), Elsewhere, Whole(c)'
    PROVE  InStep(c)'
<1> DEFINE t == token[c]
<1>0. /\ TypeOK /\ ClientMoves(c) /\ sendSeq[c] \in Nat /\ recvSeq[c] \in Nat
      /\ UNCHANGED <<cRecv, answered>>
  BY DEF OrderInv, TypeOK, Elsewhere
<1>1. ASSUME token'[c] = token[c]
      PROVE  InStep(c) /\ token[c] # None
  BY <1>1 DEF Whole, Elsewhere
<1>2. ASSUME Unmoved(c), \/ pc'[c] = pc[c] /\ reply'[c] = reply[c]
                         \/ pc[c] \in Resting /\ pc'[c] \in Resting
      PROVE  InStep(c)'
  <2>1. InStep(c) /\ t # None
    BY <1>1, <1>2 DEF Unmoved
  <2>2. /\ ~Handling(t)' \/ srv' = srv
        /\ t \in chans' => t \in chans
        /\ t \in chans => t \in chans' \/ t \notin sessions'
    BY DEF Elsewhere, Handling
  <2> QED
    BY <1>0, <1>2, <2>1, <2>2, InStepKept
<1>3. ASSUME NEW s \in Tokens, NEW u \in Users, ServeLogin(c, s, u), Unmoved(c)
      PROVE  InStep(c)'
  <2>1. pc[c] = "login" /\ pc'[c] = "loggedIn"
    BY <1>0, <1>3 DEF ServeLogin, TypeOK
  <2> QED
    BY <1>2, <1>3, <2>1 DEF Resting
<1>4. CASE LoggedIn(c)
  <2> DEFINE s == reply[c].tok
  <2>1. /\ token'[c] = s /\ s \in Tokens /\ sent[s] = << >>
        /\ sendSeq'[c] = 0 /\ recvSeq'[c] = 0 /\ pc'[c] = "idle"
        /\ UNCHANGED <<chans, srv>>
    BY <1>0, <1>4, DrawnFirst DEF LoggedIn, TypeOK, chanVars
  <2>2. answered'[s] = 0 /\ s \notin chans /\ ~Handling(s)
    BY <1>0, <2>1, NothingRun
    DEF CountersInv, AnswersCounted, Handling, OrderInv, JobIsNext
  <2>3. OnItsWay(c, "call")' = 0 /\ OnItsWay(c, "replied")' = 0
    BY <2>1 DEF OnItsWay
  <2>4. ~Handling(token[c])'
    BY <2>1, <2>2 DEF Handling
  <2> QED
    BY <2>1, <2>2, <2>3, <2>4 DEF InStep
<1>5. ASSUME NEW op \in Ops, Call(c, op)
      PROVE  InStep(c)'
  <2>1. /\ UNCHANGED <<token, recvSeq, chans, srv>> /\ pc[c] = "idle"
        /\ pc'[c] = "call" /\ sendSeq'[c] = sendSeq[c] + 1
        /\ LiveSessions' = LiveSessions
    BY <1>0, <1>5
    DEF Call, TypeOK, chanVars, tableVars, LiveSessions, Live, Expired
  <2>2. /\ OnItsWay(c, "call")' = 1 /\ OnItsWay(c, "replied")' = 0
        /\ OnItsWay(c, "call") = 0 /\ OnItsWay(c, "replied") = 0
    BY <2>1 DEF OnItsWay
  <2>3. ~Handling(token[c]) /\ ~Handling(token[c])'
    BY <1>1, <2>1 DEF InStep, Handling
  <2>4. t \in chans => cRecv[t] \in Nat
    BY <1>0 DEF TypeOK
  <2> QED
    BY <1>0, <1>1, <2>1, <2>2, <2>3, <2>4 DEF InStep
<1>6. CASE Receive(c)
  <2>1. token'[c] = t /\ pc'[c] = "idle" /\ pc[c] = "replied" /\ t \in Tokens
    BY <1>6, ReceiveCounts DEF Receive, Whole
  <2>2. InStep(c)
    BY <1>1, <2>1
  <2>3. ReplyAccepted(c)
    BY <2>1, <2>2, InStepAccepts
  <2>4. /\ recvSeq'[c] = recvSeq[c] + 1 /\ sendSeq'[c] = sendSeq[c]
        /\ UNCHANGED <<chans, srv>> /\ LiveSessions' = LiveSessions
    BY <1>0, <1>6, <2>3
    DEF Receive, TypeOK, chanVars, tableVars, LiveSessions, Live, Expired
  <2>5. /\ OnItsWay(c, "call")' = 0 /\ OnItsWay(c, "replied")' = 0
        /\ OnItsWay(c, "call") = 0 /\ OnItsWay(c, "replied") = 1
    BY <2>1 DEF OnItsWay
  <2>6. ~Handling(token[c])'
    BY <2>1, <2>2, <2>4 DEF InStep, Handling
  <2> QED
    BY <1>0, <2>1, <2>2, <2>4, <2>5, <2>6 DEF InStep
<1>7. token'[c] # None /\ ~(Unmoved(c) /\ token[c] \in broken')
  BY DEF Whole, Unmoved
<1> HIDE DEF t
<1>8. CASE Unmoved(c) /\ pc'[c] = pc[c] /\ reply'[c] = reply[c]
  BY <1>2, <1>8
<1>9. CASE Unmoved(c) /\ pc[c] \in Resting /\ pc'[c] \in Resting \ {"loggedIn"}
  BY <1>2, <1>9
<1> QED
  BY <1>0, <1>3, <1>4, <1>5, <1>6, <1>7, <1>8, <1>9 DEF ClientMoves

(* The invariant of unbroken sessions, with what it rests on.              *)
SessionInv == OrderInv /\ KeysFollow /\ CountersInv /\ UnbrokenInv

LEMMA SessionAlways == Spec => []SessionInv
<1>1. Init => KeysFollow /\ UnbrokenInv
  BY ConstantsAssumption
  DEF Init, KeysFollow, ChannelsKeyed, UnbrokenInv, Whole
<1>2. OrderInv /\ OrderInv' /\ KeysFollow /\ [Next]_vars => KeysFollow'
  BY KeysNext
<1>3. OrderInv /\ OrderInv' /\ CountersInv /\ KeysFollow /\ UnbrokenInv /\ [Next]_vars
         => UnbrokenInv'
  <2> SUFFICES ASSUME OrderInv, OrderInv', CountersInv, KeysFollow, UnbrokenInv,
                      [Next]_vars, NEW c \in Clients, Whole(c)'
               PROVE  InStep(c)'
    BY DEF UnbrokenInv
  <2>1. CASE Handle
    <3>1. Whole(c)
      BY <2>1, HandleShape DEF Whole
    <3> QED
      BY <2>1, <3>1, InStepHandle DEF UnbrokenInv, Whole
  <2>2. ASSUME NEW s \in Tokens, NEW i \in Nat, NEW conn \in Clients \cup {None},
               Serves(s, i, conn)
        PROVE  InStep(c)'
    <3>1. Whole(c)
      BY <2>2, ServesShape DEF Whole
    <3> QED
      BY <2>2, <3>1, InStepServes DEF UnbrokenInv, Whole
  <2>3. CASE Elsewhere
    BY <2>3, InStepElsewhere DEF UnbrokenInv
  <2> QED
    BY <2>1, <2>2, <2>3, Cases
<1> QED
  BY <1>1, <1>2, <1>3, OrderAlways, CountersAlways, PTL DEF Spec, SessionInv

(* As long as no round trip of a session broke, both ends agree on both    *)
(* counters between calls: a client never needs to resynchronise.          *)
THEOREM UnbrokenInStep == Spec => []CleanInStep
<1>1. SessionInv => CleanInStep
  <2> SUFFICES ASSUME SessionInv, NEW c \in Clients, pc[c] = "idle",
                      token[c] # None, token[c] \notin broken
               PROVE  LET t == token[c] IN
                      /\ t \in chans => cRecv[t] = sendSeq[c] /\ cSend[t] = recvSeq[c]
                      /\ t \in LiveSessions \ chans => sendSeq[c] = 0
    BY DEF CleanInStep
  <2>1. InStep(c) /\ OnItsWay(c, "call") = 0 /\ OnItsWay(c, "replied") = 0
    BY DEF SessionInv, UnbrokenInv, Whole, OnItsWay
  <2>2. /\ recvSeq[c] \in Nat
        /\ token[c] \in chans => cRecv[token[c]] \in Nat
    BY DEF SessionInv, OrderInv, TypeOK
  <2> QED
    BY <2>1, <2>2 DEF InStep, SessionInv, CountersInv, AnswersCounted
<1> QED
  BY <1>1, SessionAlways, PTL

(* An unbroken session never loses an answer to its numbers or keys. *)
THEOREM UnbrokenAccepts == Spec => []CleanReplyAccepted
<1>1. SessionInv => CleanReplyAccepted
  <2> SUFFICES ASSUME SessionInv, NEW c \in Clients, pc[c] = "replied",
                      token[c] \notin broken
               PROVE  ReplyAccepted(c)
    BY DEF CleanReplyAccepted
  <2>1. token[c] # None
    BY DEF SessionInv, OrderInv, TypeOK, RoundTripOK
  <2> QED
    BY <2>1, InStepAccepts DEF SessionInv, UnbrokenInv, Whole
<1> QED
  BY <1>1, SessionAlways, PTL
-----------------------------------------------------------------------------
(* Refusals: what a step adds to the log of a session. *)
LEMMA LogGrows ==
    ASSUME OrderInv, TypeOK', [Next]_vars, NEW t \in Tokens
    PROVE  \/ log'[t] = log[t]
           \/ /\ t \in drawn
              /\ \E e \in Entries :
                    /\ log'[t] = Append(log[t], e)
                    /\ e.op = "api" => (e.ok <=> t \in LiveSessions)
<1>0. TypeOK /\ log[t] \in Seq(Entries)
  BY DEF OrderInv, TypeOK
<1>1. CASE Handle /\ t = srv.tok
  <2>1. t \in drawn
    BY <1>1, HandleShape
  <2>2. PICK ok \in BOOLEAN, p \in {"replied", "closed"} :
          /\ Finish(ok, p)
          /\ srv.op = "api" => (ok <=> t \in LiveSessions)
    <3>1. ASSUME HandleApi
          PROVE  Finish(t \in LiveSessions, "replied") /\ (t \in LiveSessions) \in BOOLEAN
      BY <1>1, <3>1 DEF HandleApi
    <3>2. ASSUME ~HandleApi
          PROVE  srv.op # "api" /\ \E p \in {"replied", "closed"} :
                                      Finish(TRUE, p) \/ Finish(FALSE, p)
      BY <1>1, <3>2 DEF Handle, HandleLogout, HandleHeartbeat, HandleBad
    <3> QED
      BY <3>1, <3>2, Zenon
  <2> DEFINE e == [seq |-> srv.seq, op |-> srv.op, ok |-> ok]
  <2>3. log' = [log EXCEPT ![t] = Append(log[t], e)]
    BY <1>1, <2>2 DEF Finish
  <2>4. e \in Entries /\ e.op = srv.op /\ e.ok = ok
    BY <1>0, <1>1, <2>2, HandleShape DEF TypeOK, Jobs, Entries
  <2> HIDE DEF e
  <2>5. log'[t] = Append(log[t], e)
    BY <1>0, <2>3 DEF TypeOK
  <2> QED
    BY <2>1, <2>2, <2>4, <2>5
<1>2. CASE Handle /\ t # srv.tok
  BY <1>2, HandleShape
<1> QED
  BY <1>1, <1>2, Cases, ServesShape DEF Elsewhere

Refusal(e) == e.op = "api" /\ ~e.ok

(* A session that has refused a call has gone. *)
RefusedHasGone ==
    \A t \in Tokens : \A i \in 1..Len(log[t]) :
        Refusal(log[t][i]) => t \in drawn /\ t \notin LiveSessions

LEMMA RefusedStaysGone ==
    ASSUME OrderInv, OrderInv', [Next]_vars, RefusedHasGone
    PROVE  RefusedHasGone'
<1> SUFFICES ASSUME NEW t \in Tokens, NEW i \in 1..Len(log'[t]), Refusal(log'[t][i])
             PROVE  t \in drawn' /\ t \notin LiveSessions'
  BY DEF RefusedHasGone, Refusal
<1>1. log[t] \in Seq(Entries) /\ TypeOK'
  BY DEF OrderInv, TypeOK
<1>2. t \in drawn => t \in drawn' /\ (t \in LiveSessions' => t \in LiveSessions)
  BY <1>1, SessionsKept DEF SessionKept
<1>3. ASSUME i \in 1..Len(log[t]), log'[t][i] = log[t][i]
      PROVE  t \in drawn' /\ t \notin LiveSessions'
  BY <1>2, <1>3 DEF RefusedHasGone
<1>4. ASSUME NEW e \in Entries, t \in drawn, log'[t] = Append(log[t], e),
             e.op = "api" => (e.ok <=> t \in LiveSessions)
      PROVE  t \in drawn' /\ t \notin LiveSessions'
  <2>1. CASE i \in 1..Len(log[t])
    BY <1>1, <1>3, <1>4, <2>1, AppendProperties
  <2>2. CASE i \notin 1..Len(log[t])
    <3>1. log'[t][i] = e
      BY <1>1, <1>4, <2>2, AppendProperties
    <3> QED
      BY <1>2, <1>4, <3>1 DEF Refusal
  <2> QED
    BY <2>1, <2>2
<1> QED
  BY <1>1, <1>3, <1>4, LogGrows

(* A session that has refused a call never answers one again, although its *)
(* channel still decrypts: its token has gone from the table for good.     *)
THEOREM RefusalsFinal == Spec => []RefusedForGood
<1>1. Init => RefusedForGood /\ RefusedHasGone
  BY DEF Init, RefusedForGood, RefusedHasGone
<1>2. OrderInv /\ OrderInv' /\ RefusedForGood /\ RefusedHasGone /\ [Next]_vars
         => RefusedForGood' /\ RefusedHasGone'
  <2> SUFFICES ASSUME OrderInv, OrderInv', RefusedForGood, RefusedHasGone, [Next]_vars
               PROVE  RefusedForGood' /\ RefusedHasGone'
    OBVIOUS
  <2>1. ASSUME NEW t \in Tokens, NEW i \in 1..Len(log'[t]), NEW j \in 1..Len(log'[t]),
               i < j, Refusal(log'[t][i]), log'[t][j].op = "api"
        PROVE  ~log'[t][j].ok
    <3>1. log[t] \in Seq(Entries) /\ Len(log[t]) \in Nat /\ TypeOK'
      BY LenProperties DEF OrderInv, TypeOK
    <3>2. CASE log'[t] = log[t]
      BY <2>1, <3>2 DEF RefusedForGood, Refusal
    <3>3. ASSUME NEW e \in Entries, log'[t] = Append(log[t], e),
                 e.op = "api" => (e.ok <=> t \in LiveSessions)
          PROVE  ~log'[t][j].ok
      <4>1. /\ i \in 1..Len(log[t]) /\ log'[t][i] = log[t][i]
            /\ j \in 1..Len(log[t]) => log'[t][j] = log[t][j]
            /\ j \notin 1..Len(log[t]) => log'[t][j] = e
        BY <2>1, <3>1, <3>3, AppendProperties
      <4>2. CASE j \in 1..Len(log[t])
        BY <2>1, <4>1, <4>2 DEF RefusedForGood, Refusal
      <4>3. CASE j \notin 1..Len(log[t])
        <5>1. t \notin LiveSessions
          BY <2>1, <4>1 DEF RefusedHasGone
        <5> QED
          BY <2>1, <3>3, <4>1, <4>3, <5>1
      <4> QED
        BY <4>2, <4>3
    <3> QED
      BY <3>1, <3>2, <3>3, LogGrows
  <2> QED
    BY <2>1, RefusedStaysGone DEF RefusedForGood, Refusal
<1> QED
  BY <1>1, <1>2, OrderAlways, PTL DEF Spec
-----------------------------------------------------------------------------
(* A client that has missed an answer stays where it is: the one answer it *)
(* would take is the one after those accepted, and the server has already  *)
(* gone past it.                                                           *)
LEMMA BehindStays ==
    ASSUME OrderInv, CountersInv, [Next]_vars, NEW c \in Clients, Behind(c),
           token'[c] = token[c]
    PROVE  recvSeq'[c] = recvSeq[c]
<1> DEFINE t == token[c]
<1>0. /\ TypeOK /\ t \in chans /\ t \in Tokens /\ t # None
      /\ recvSeq[c] = confirmed[t] /\ cSend[t] = answered[t] /\ sent[t] # << >>
  BY ConstantsAssumption
  DEF OrderInv, TypeOK, Behind, CountersInv, AnswersCounted
<1>1. CASE Handle
  BY <1>1, HandleShape
<1>2. ASSUME NEW s \in Tokens, NEW i \in Nat, NEW conn \in Clients \cup {None},
             Serves(s, i, conn)
      PROVE  recvSeq'[c] = recvSeq[c]
  BY <1>2, ServesShape
<1>3. CASE LoggedIn(c)
  <2>1. token'[c] = reply[c].tok /\ pc[c] = "loggedIn"
    BY <1>0, <1>3 DEF LoggedIn, TypeOK
  <2> QED
    BY <1>0, <2>1, DrawnFirst
<1>4. CASE Receive(c)
  <2>1. pc[c] = "replied"
    BY <1>4 DEF Receive
  <2>2. answered[t] # confirmed[t] + 1
    BY <1>0, <2>1 DEF Behind, TypeOK
  <2> QED
    BY <1>4, <2>2, ReceiveCounts
<1>5. ASSUME NEW op \in Ops, Call(c, op)
      PROVE  recvSeq'[c] = recvSeq[c]
  BY <1>5 DEF Call
<1>6. CASE Elsewhere
  <2>1. ClientMoves(c)
    BY <1>6 DEF Elsewhere
  <2> QED
    BY <1>0, <1>3, <1>4, <1>5, <2>1 DEF ClientMoves, Unmoved
<1> QED
  BY <1>1, <1>2, <1>6, Cases

(* No gap in the answers is ever stepped over: from the first missed one   *)
(* on, the client accepts no other answer of that session.                 *)
THEOREM NoGapIsAccepted == Spec => NoGapAccepted
<1>1. SessionInv /\ [Next]_vars
         => [\A c \in Clients :
               Behind(c) /\ token'[c] = token[c] => recvSeq'[c] = recvSeq[c]]_vars
  BY BehindStays DEF SessionInv
<1> QED
  BY <1>1, SessionAlways, PTL DEF Spec, NoGapAccepted
-----------------------------------------------------------------------------
(* The protocol implements RpcAbstract: a call is issued, the second half  *)
(* of OnData executes it, an accepted answer confirms it; every other step *)
(* ends sessions or changes nothing the caller can see.                    *)
Ended(t) ==
    t \in drawn /\ t \notin LiveSessions /\ Unused(t) /\ ~Handling(t)

LEMMA EndedStays ==
    ASSUME OrderInv, OrderInv', [Next]_vars, NEW t \in Tokens, Ended(t)
    PROVE  Ended(t)'
<1>0. TypeOK /\ t \in drawn' /\ t \notin LiveSessions'
  BY SessionsKept DEF Ended, SessionKept, OrderInv
<1>1. ASSUME t \in chans' => t \in chans, cSend'[t] = cSend[t], cRecv'[t] = cRecv[t],
             srv' = None \/ srv' = srv \/ srv'.tok # t
      PROVE  Ended(t)'
  <2>1. Unused(t)'
    BY <1>1 DEF Ended, Unused
  <2>2. ~Handling(t)'
    BY <1>1 DEF Ended, Handling
  <2> QED
    BY <1>0, <2>1, <2>2 DEF Ended
<1>2. CASE Handle
  <2>1. t # srv.tok
    BY <1>2, HandleShape DEF Ended, Handling
  <2>2. cSend'[t] = cSend[t]
    BY <1>0, <1>2, <2>1, HandleShape DEF Answers, Shuts, TypeOK
  <2> QED
    BY <1>1, <1>2, <2>2, HandleShape
<1>3. ASSUME NEW s \in Tokens, NEW i \in Nat, NEW conn \in Clients \cup {None},
             Serves(s, i, conn)
      PROVE  Ended(t)'
  <2>1. CASE Unknown(s)
    BY <1>1, <2>1 DEF Unknown
  <2>2. ASSUME Known(s), NEW n, cRecv' = [cRecv EXCEPT ![s] = n],
               srv' = srv \/ srv'.tok = s
        PROVE  Ended(t)'
    <3>1. s # t
      BY <2>2 DEF Known, Ended
    <3> QED
      BY <1>0, <1>1, <2>2, <3>1 DEF Known, TypeOK
  <2> QED
    BY <1>3, <2>1, <2>2, ServesShape DEF TakenInHand, Rejected
<1>4. CASE Elsewhere
  BY <1>1, <1>4 DEF Elsewhere
<1> QED
  BY <1>2, <1>3, <1>4, Cases

LEMMA HandleEndsItsOwn ==
    ASSUME OrderInv, Handle, NEW t \in Tokens, t # srv.tok, Ended(t)'
    PROVE  Ended(t)
<1>0. TypeOK /\ srv # None
  BY HandleShape DEF OrderInv
<1>1. t \in drawn /\ ~Handling(t)
  BY HandleShape DEF Ended, Handling
<1>2. t \notin LiveSessions
  BY HandleShape DEF Ended, LiveSessions, Live, Expired
<1>3. cSend'[t] = cSend[t] /\ cRecv' = cRecv /\ (t \in chans => t \in chans')
  BY <1>0, HandleShape DEF Answers, Shuts, TypeOK
<1> QED
  BY <1>1, <1>2, <1>3 DEF Ended, Unused

LEMMA EndedIs ==
    ASSUME OrderInv, OrderInv'
    PROVE  /\ EndedSessions = {t \in Tokens : Ended(t)}
           /\ EndedSessions' = {t \in Tokens : Ended(t)'}
BY DEF OrderInv, TypeOK, EndedSessions, Ended, Handling

(* A step of the protocol is a step of RpcAbstract, or none. *)
LEMMA RpcStep ==
    ASSUME OrderInv, OrderInv', CountersInv, [Next]_vars
    PROVE  [Rpc!Next]_Rpc!vars
<1> DEFINE issued == [t \in Tokens |-> Len(sent[t])]
           executed == [t \in Tokens |-> Len(log[t])]
<1>0. TypeOK /\ TypeOK' /\ answered \in [Tokens -> Nat] /\ confirmed \in [Tokens -> Nat]
  BY DEF OrderInv, TypeOK
<1>1. EndedSessions \subseteq EndedSessions' /\ EndedSessions' \subseteq Tokens
  BY EndedStays, EndedIs
<1>2. \A t \in Tokens : Len(sent[t]) \in Nat /\ Len(log[t]) \in Nat
  <2> SUFFICES ASSUME NEW t \in Tokens
               PROVE  Len(sent[t]) \in Nat /\ Len(log[t]) \in Nat
    OBVIOUS
  <2>1. sent[t] \in Seq(Frames) /\ log[t] \in Seq(Entries)
    BY <1>0 DEF TypeOK
  <2> QED
    BY <2>1, LenProperties
<1>3. ASSUME issued' = issued, executed' = executed, UNCHANGED <<answered, confirmed>>
      PROVE  Rpc!End
  BY <1>1, <1>3 DEF Rpc!End
<1>4. ASSUME NEW t \in Tokens, Rpc!Issue(t) \/ Rpc!Execute(t) \/ Rpc!Confirm(t)
      PROVE  Rpc!Next
  BY <1>4 DEF Rpc!Next
<1>5. CASE Handle
  <2>0. PICK t \in Tokens : t = srv.tok
    BY <1>0, <1>5, HandleShape DEF TypeOK
  <2>1. Handling(t) /\ UNCHANGED <<sent, confirmed>>
    BY <1>5, <2>0, HandleShape DEF Handling
  <2>2. t \notin EndedSessions
    BY <2>1, EndedIs DEF Ended
  <2>3. executed[t] < issued[t]
    BY <1>5, <2>0, HandleShape DEF OrderInv, JobIsNext
  <2>4. executed' = [executed EXCEPT ![t] = @ + 1]
    BY <1>2, <1>5, <2>0, HandleShape
  <2>5. answered' \in {answered, [answered EXCEPT ![t] = @ + 1]}
    BY <1>5, <2>0, HandleShape DEF Answers, Shuts
  <2>6. EndedSessions' \in {EndedSessions, EndedSessions \cup {t}}
    <3>1. \A u \in Tokens : Ended(u)' => Ended(u) \/ u = t
      BY <1>5, <2>0, HandleEndsItsOwn
    <3>2. EndedSessions' \subseteq EndedSessions \cup {t}
      BY <3>1, EndedIs
    <3> QED
      BY <1>1, <3>2
  <2>7. issued' = issued
    BY <2>1
  <2>8. Rpc!Execute(t)
    BY <2>1, <2>2, <2>3, <2>4, <2>5, <2>6, <2>7 DEF Rpc!Execute
  <2> QED
    BY <1>4, <2>8
<1>6. ASSUME NEW s \in Tokens, NEW i \in Nat, NEW conn \in Clients \cup {None},
             Serves(s, i, conn)
      PROVE  Rpc!Next
  BY <1>3, <1>6, ServesShape DEF Rpc!Next
<1>7. ASSUME NEW c \in Clients, NEW op \in Ops, Call(c, op)
      PROVE  Rpc!Next
  <2> DEFINE f == [seq |-> sendSeq[c], op |-> op, key |-> chanUser[c]]
  <2>0. PICK t \in Tokens : t = token[c]
    BY <1>0, <1>7 DEF Call, TypeOK
  <2>1. f \in Frames /\ sent' = [sent EXCEPT ![t] = Append(sent[t], f)]
    BY <1>0, <1>7, <2>0 DEF Call, TypeOK, Frames
  <2> HIDE DEF f
  <2>2. Len(Append(sent[t], f)) = Len(sent[t]) + 1
    BY <1>0, <2>1, AppendProperties DEF TypeOK
  <2>3. issued' = [issued EXCEPT ![t] = @ + 1]
    BY <1>0, <2>1, <2>2 DEF TypeOK
  <2>4. UNCHANGED <<log, answered, confirmed>> /\ EndedSessions' = EndedSessions
    BY <1>7 DEF Call, tableVars, chanVars, EndedSessions, LiveSessions, Unused, histVars
  <2>5. Rpc!Issue(t)
    BY <2>3, <2>4 DEF Rpc!Issue
  <2> QED
    BY <1>4, <2>5
<1>8. ASSUME NEW c \in Clients, Receive(c)
      PROVE  Rpc!Next
  <2>0. PICK t \in Tokens : t = token[c]
    BY <1>8, ReceiveCounts
  <2>1. UNCHANGED <<sent, log, answered>> /\ EndedSessions' = EndedSessions
    BY <1>8 DEF Receive, tableVars, chanVars, EndedSessions, LiveSessions, Unused
  <2>2. CASE ~ReplyAccepted(c)
    <3>1. confirmed' = confirmed
      BY <1>8, <2>2, ReceiveCounts
    <3> QED
      BY <1>3, <2>1, <3>1 DEF Rpc!Next
  <2>3. CASE ReplyAccepted(c)
    <3>1. /\ answered[t] = confirmed[t] + 1
          /\ confirmed' = [confirmed EXCEPT ![t] = @ + 1]
      BY <1>8, <2>0, <2>3, ReceiveCounts
    <3>2. Rpc!Confirm(t)
      BY <2>1, <3>1 DEF Rpc!Confirm
    <3> QED
      BY <1>4, <3>2
  <2> QED
    BY <2>2, <2>3
<1>9. CASE Elsewhere
  <2>1. CASE sent' = sent /\ confirmed' = confirmed
    BY <1>3, <1>9, <2>1 DEF Elsewhere, Rpc!Next
  <2> QED
    BY <1>7, <1>8, <1>9, <2>1 DEF Elsewhere
<1> QED
  BY <1>5, <1>6, <1>9, Cases

(* The protocol implements RpcAbstract: whatever the network, the host and *)
(* restarts do, the calls of a session run in the order they were issued   *)
(* and at most once, none after its session has ended, and answers are     *)
(* accepted in order with no gap.                                          *)
THEOREM ProtocolImplementsRpc == Spec => RpcRefinement
<1>1. Init => Rpc!Init
  BY DEF Init, Rpc!Init, EndedSessions
<1>2. SessionInv /\ SessionInv' /\ [Next]_vars => [Rpc!Next]_Rpc!vars
  BY RpcStep DEF SessionInv
<1> QED
  BY <1>1, <1>2, SessionAlways, PTL DEF Spec, RpcRefinement, Rpc!Spec
=============================================================================
