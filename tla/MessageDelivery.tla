--------------------------- MODULE MessageDelivery ---------------------------
(***************************************************************************)
(* A text message from one user's window to another's: the sender's        *)
(* SendOffline call, the OfflineQueue on the server, and the recipient's   *)
(* PullOffline calls on the 2-second timer of BackendAdapter.              *)
(*                                                                         *)
(* The encrypted calls are SecureRpc's, reduced to what it guarantees: a   *)
(* session's frames run in the order of their numbers and at most once, a  *)
(* frame behind a gap is refused, and a client that has missed one answer  *)
(* accepts no later one.  So a session is the list of its frames that have *)
(* not run yet, and whether its client has missed an answer.               *)
(***************************************************************************)
EXTENDS OfflineQueue, FiniteSets

CONSTANTS
    Worker,     \* the thread of NetworkServer
    Cleaner,    \* a thread that calls RunOnce
    None,
    Writers,    \* bound: the users that send messages
    Readers,    \* bound: the users whose timer fires
    MaxLogins,  \* bound: sessions per user
    MaxUnrun    \* bound: frames of a session that have not run

ASSUME DeliveryAssumption ==
    /\ Procs = {Worker, Cleaner}
    /\ Writers \subseteq Users
    /\ Readers \subseteq Users
    /\ MaxLogins \in Nat \ {0}
    /\ MaxUnrun \in Nat \ {0}

VARIABLES
    place,      \* where the round trip of a client stands
    call,       \* what the client called, until the call returns
    session,    \* the session a client uses: the number of its login
    live,       \* sessions the server still knows
    unrun,      \* per session, its frames that have not run, oldest first
    missed,     \* sessions whose client has missed an answer
    begun,      \* sessions a frame of which the server has decrypted
    serving,    \* the frame the worker handles
    answer,     \* what waits in a client's socket
    shown,      \* history: messages offlineMessage was emitted for, in order
    verdict,    \* history: what sendText returned for each message
    composed,   \* history: the messages each session sent, in order
    faulted     \* history: users that lost a round trip

clientVars == <<place, call, session, live, unrun, missed, begun, serving,
                answer, shown, verdict, composed, faulted>>
vars == <<queueVars, clientVars>>

Sessions == Users \X (1..MaxLogins)
Current(u) == <<u, session[u]>>

Requests == [kind : {"pull"}] \cup [kind : {"push"}, to : Users, msg : Msgs]
Answers  == [ok : BOOLEAN, msgs : Seq(Queued)]
Served   == [sess : Sessions, req : Requests, waiting : BOOLEAN]

ASSUME NoneAssumption == None \notin Requests \cup Answers \cup Served

DeliveryTypeOK ==
    /\ TypeOK
    /\ place \in [Users -> {"idle", "sent", "working", "answered", "closed"}]
    /\ call \in [Users -> Requests \cup {None}]
    /\ \A u \in Users : /\ call[u] = None <=> place[u] = "idle"
                        /\ answer[u] = None <=> place[u] # "answered"
    /\ session \in [Users -> 1..MaxLogins]
    /\ live \subseteq Sessions
    /\ unrun \in [Sessions -> Seq(Requests)]
    /\ missed \subseteq Sessions
    /\ begun \subseteq Sessions
    /\ serving \in Served \cup {None}
    /\ answer \in [Users -> Answers \cup {None}]
    /\ shown \in [Users -> Seq(Msgs)]
    /\ verdict \in [Msgs -> {"none", "sent", "failed"}]
    /\ composed \in [Sessions -> Seq(Requests)]
    /\ faulted \subseteq Users

(* Every user has just logged in. *)
DeliveryInit ==
    /\ Init
    /\ place = [u \in Users |-> "idle"]
    /\ call = [u \in Users |-> None]
    /\ session = [u \in Users |-> 1]
    /\ live = {<<u, 1>> : u \in Users}
    /\ unrun = [s \in Sessions |-> << >>]
    /\ missed = {}
    /\ begun = {}
    /\ serving = None
    /\ answer = [u \in Users |-> None]
    /\ shown = [u \in Users |-> << >>]
    /\ verdict = [m \in Msgs |-> "none"]
    /\ composed = [s \in Sessions |-> << >>]
    /\ faulted = {}
-----------------------------------------------------------------------------
(* The client, one GUI thread *)

Transmit(u, req) ==
    /\ place[u] = "idle"
    /\ Len(unrun[Current(u)]) < MaxUnrun
    /\ place' = [place EXCEPT ![u] = "sent"]
    /\ call' = [call EXCEPT ![u] = req]
    /\ unrun' = [unrun EXCEPT ![Current(u)] = Append(@, req)]
    /\ UNCHANGED <<queueVars, session, live, missed, begun, serving, answer,
                   shown, verdict, faulted>>

(* sendText, up to the round trip of SendOffline. *)
SendText(u, to, m) ==
    LET req == [kind |-> "push", to |-> to, msg |-> m] IN
    /\ \A s \in Sessions : \A i \in 1..Len(composed[s]) : composed[s][i].msg # m
    /\ Transmit(u, req)
    /\ composed' = [composed EXCEPT ![Current(u)] = Append(@, req)]

(* pollOffline, up to the round trip of PullOffline. *)
Poll(u) == Transmit(u, [kind |-> "pull"]) /\ UNCHANGED composed

Return_StaleAnswer(u, v) ==     \* mutant: the buffer is not emptied
    /\ place' = [place EXCEPT ![u] = "idle"]
    /\ call' = [call EXCEPT ![u] = None]
    /\ UNCHANGED answer
    /\ verdict' = IF call[u].kind = "push"
                  THEN [verdict EXCEPT ![call[u].msg] = v] ELSE verdict

(* The call returns. *)
Return(u, v) ==
    /\ place' = [place EXCEPT ![u] = "idle"]
    /\ call' = [call EXCEPT ![u] = None]
    /\ answer' = [answer EXCEPT ![u] = None]
    /\ verdict' = IF call[u].kind = "push"
                  THEN [verdict EXCEPT ![call[u].msg] = v] ELSE verdict

Emitted(u) == shown[u] \o [i \in 1..Len(answer[u].msgs) |-> answer[u].msgs[i].id]

Receive_Shuffled(u) ==          \* mutant: the newest message is emitted first
    LET accepted == answer[u].ok /\ Current(u) \notin missed IN
    /\ place[u] = "answered"
    /\ Return(u, IF accepted THEN "sent" ELSE "failed")
    /\ shown' = IF accepted
                THEN [shown EXCEPT ![u] = @ \o Reverse(
                        [i \in 1..Len(answer[u].msgs) |-> answer[u].msgs[i].id])]
                ELSE shown
    /\ UNCHANGED <<queueVars, session, live, unrun, missed, begun, serving,
                   composed, faulted>>

(* The answer is decrypted with the next number, or refused for good after *)
(* a missed one; pollOffline emits every message of an answer in order.    *)
Receive(u) ==
    LET accepted == answer[u].ok /\ Current(u) \notin missed IN
    /\ place[u] = "answered"
    /\ Return(u, IF accepted THEN "sent" ELSE "failed")
    /\ shown' = IF accepted THEN [shown EXCEPT ![u] = Emitted(u)] ELSE shown
    /\ UNCHANGED <<queueVars, session, live, unrun, missed, begun, serving,
                   composed, faulted>>

(* The server closed the connection without an answer. *)
Refused(u) ==
    /\ place[u] = "closed"
    /\ Return(u, "failed")
    /\ UNCHANGED <<queueVars, session, live, unrun, missed, begun, serving,
                   shown, composed, faulted>>

(* TcpRoundTrip fails, wherever the frame or its answer is by then. *)
GiveUp(u) ==
    /\ place[u] \in {"sent", "working", "answered"}
    /\ Return(u, "failed")
    /\ missed' = IF place[u] = "answered" THEN missed \cup {Current(u)} ELSE missed
    /\ faulted' = faulted \cup {u}
    /\ UNCHANGED <<queueVars, session, live, unrun, begun, serving, shown,
                   composed>>

(* The user logs in again: new session, both numbers from zero; old frames *)
(* keep their session.                                                     *)
Relogin(u) ==
    /\ place[u] = "idle"
    /\ session[u] < MaxLogins
    /\ session' = [session EXCEPT ![u] = @ + 1]
    /\ live' = live \cup {<<u, session[u] + 1>>}
    /\ UNCHANGED <<queueVars, place, call, unrun, missed, begun, serving, answer,
                   shown, verdict, composed, faulted>>
-----------------------------------------------------------------------------
(* The server *)

(* The session's lifetime is over, or a host thread logged it out. *)
SessionEnds(s) ==
    /\ s \in live
    /\ live' = live \ {s}
    /\ UNCHANGED <<queueVars, place, call, session, unrun, missed, begun, serving,
                   answer, shown, verdict, composed, faulted>>

(* Its client still waits for the frame of session s that is next to run. *)
IsAwaited(s) ==
    /\ s = Current(s[1])
    /\ place[s[1]] = "sent"
    /\ Len(unrun[s]) = 1

(* The answer reaches the client if it still waits, or is missed. *)
Answer(job, waiting, ok, msgs) ==
    LET u == job.sess[1] IN
    /\ serving' = None
    /\ IF waiting
       THEN /\ place' = [place EXCEPT ![u] = "answered"]
            /\ answer' = [answer EXCEPT ![u] = [ok |-> ok, msgs |-> msgs]]
            /\ UNCHANGED missed
       ELSE /\ missed' = missed \cup {job.sess}
            /\ UNCHANGED <<place, answer>>
    /\ UNCHANGED <<call, session, live, begun, shown, verdict, composed, faulted>>

(* mutant: frames may run out of the order of their numbers *)
NextFrame_Any(s, i) == i \in 1..Len(unrun[s])

NextFrame(s, i) == i = 1 /\ unrun[s] # << >>

Run_OwnMailbox(s, i) ==         \* mutant: the sender's mailbox gets the message
    LET job == [sess |-> s, req |-> unrun[s][i], waiting |-> IsAwaited(s)] IN
    /\ serving = None
    /\ NextFrame(s, i)
    /\ s \in live
    /\ unrun' = [unrun EXCEPT ![s] = RemoveAt(@, i)]
    /\ IF job.req.kind = "push"
       THEN StartEnqueue(Worker, s[1], job.req.msg, 0)
       ELSE StartDrain(Worker, s[1])
    /\ serving' = job
    /\ begun' = begun \cup {s}
    /\ place' = IF job.waiting THEN [place EXCEPT ![s[1]] = "working"] ELSE place
    /\ UNCHANGED <<call, session, live, missed, answer, shown, verdict, composed,
                   faulted>>

(* OnData decrypts frame i and its handler looks the session up: a known   *)
(* session starts the queue operation, another is answered "unauthorized". *)
(* Nothing is decrypted for an unknown session whose channel still has to  *)
(* take its keys: the connection is closed.                                *)
Run(s, i) ==
    LET job == [sess |-> s, req |-> unrun[s][i], waiting |-> IsAwaited(s)]
        awaitedAt(where) == IF job.waiting THEN [place EXCEPT ![s[1]] = where]
                            ELSE place IN
    /\ serving = None
    /\ NextFrame(s, i)
    /\ unrun' = [unrun EXCEPT ![s] = RemoveAt(@, i)]
    /\ \/ /\ s \in live
          /\ IF job.req.kind = "push"
             THEN StartEnqueue(Worker, job.req.to, job.req.msg, 0)
             ELSE StartDrain(Worker, s[1])
          /\ serving' = job
          /\ begun' = begun \cup {s}
          /\ place' = awaitedAt("working")
          /\ UNCHANGED <<call, session, live, missed, answer, shown, verdict,
                         composed, faulted>>
       \/ /\ s \in begun \ live
          /\ Answer(job, job.waiting, FALSE, << >>)
          /\ UNCHANGED queueVars
       \/ /\ s \notin begun \cup live
          /\ place' = awaitedAt("closed")
          /\ UNCHANGED <<queueVars, call, session, live, missed, begun, serving,
                         answer, shown, verdict, composed, faulted>>

(* OnData refuses a frame behind a gap. *)
Refuse(u) ==
    /\ serving = None
    /\ place[u] = "sent"
    /\ ~IsAwaited(Current(u))
    /\ place' = [place EXCEPT ![u] = "closed"]
    /\ UNCHANGED <<queueVars, call, session, live, unrun, missed, begun, serving,
                   answer, shown, verdict, composed, faulted>>

StillWaits == serving.waiting /\ place[serving.sess[1]] = "working"

(* EnqueueOffline and PullOffline once the queue lets them. *)
FinishPush ==
    /\ Push(Worker)
    /\ Answer(serving, StillWaits, TRUE, << >>)
    /\ UNCHANGED unrun

(* mutant: the first message is left out of the answer *)
FinishPull_Truncated ==
    LET s == Fresh(messages[op[Worker].who], op[Worker].at) IN
    /\ Drain(Worker)
    /\ Answer(serving, StillWaits, TRUE, SubSeq(s, 2, Len(s)))
    /\ UNCHANGED unrun

FinishPull ==
    LET s == Fresh(messages[op[Worker].who], op[Worker].at) IN
    /\ Drain(Worker)
    /\ Answer(serving, StillWaits, TRUE, s)
    /\ UNCHANGED unrun

(* RunOnce cleans for the first time when five minutes have passed since   *)
(* Init; how long it waits after that is left open.                        *)
Clean ==
    /\ \/ now > 0 /\ StartCleanup(Cleaner)
       \/ CleanupExpired(Cleaner)
    /\ UNCHANGED clientVars

Clock == Tick /\ UNCHANGED clientVars
-----------------------------------------------------------------------------
DeliveryNext ==
    \/ \E u \in Users :
          \/ /\ u \in Writers
             /\ \E to \in Users \ {u}, m \in Msgs : SendText(u, to, m)
          \/ u \in Readers /\ Poll(u)
          \/ Receive(u)
          \/ Refused(u)
          \/ GiveUp(u)
          \/ Relogin(u)
          \/ Refuse(u)
    \/ \E s \in Sessions :
          \/ SessionEnds(s)
          \/ \E i \in 1..Len(unrun[s]) : Run(s, i)
    \/ FinishPush
    \/ FinishPull
    \/ Clean
    \/ Clock

DeliverySpec == DeliveryInit /\ [][DeliveryNext]_vars

(* The worker never stops serving and takes connections from a FIFO        *)
(* backlog; a GUI thread goes on when its call returns and its timer fires *)
(* again and again.                                                        *)
Fairness ==
    /\ WF_vars(FinishPush \/ FinishPull)
    /\ \A u \in Users :
        /\ WF_vars(u \in Readers /\ Poll(u))
        /\ WF_vars(Receive(u) \/ Refused(u))
        /\ SF_vars(Refuse(u) \/ \E n \in 1..MaxLogins :
                     <<u, n>> = Current(u) /\ IsAwaited(<<u, n>>) /\ Run(<<u, n>>, 1))

FairDeliverySpec == DeliverySpec /\ Fairness
-----------------------------------------------------------------------------
(* Properties *)

(* The messages a user sees are messages that were pushed for that user,   *)
(* each once and in the order they entered the queue, whatever calls were  *)
(* lost, run late or answered to nobody.                                   *)
ShownInOrder ==
    \A u \in Users :
        shown[u] = Kept([i \in 1..Len(pushed[u]) |-> pushed[u][i].id],
                        Range(shown[u]))

(* Two messages of one session to the same recipient enter the queue in    *)
(* the order they were sent, late frames included.                         *)
SenderOrderKept ==
    \A s \in Sessions : \A i, j \in 1..Len(composed[s]) :
        \A k, l \in 1..Len(pushed[composed[s][i].to]) :
            LET to == composed[s][i].to IN
            (/\ i < j
             /\ pushed[to][k].id = composed[s][i].msg
             /\ pushed[to][l].id = composed[s][j].msg) => k < l

(* The queue of the user the message was composed for has received it.     *)
InItsMailbox(m) ==
    \E s \in Sessions : \E i \in 1..Len(composed[s]) :
        /\ composed[s][i].msg = m
        /\ \E k \in 1..Len(pushed[composed[s][i].to]) :
              pushed[composed[s][i].to][k].id = m

(* sendText only says a message was sent when the recipient's queue has    *)
(* really received it.                                                     *)
SentMeansQueued ==
    \A m \in Msgs : verdict[m] = "sent" => InItsMailbox(m)

(* A message is drained for nobody only when a round trip of its recipient *)
(* broke: otherwise each one a Drain returned is shown, or in the answer   *)
(* its client is about to read.                                            *)
LossNeedsFault ==
    \A u \in Users \ faulted :
        [i \in 1..Len(returned[u]) |-> returned[u][i].msg.id]
          = shown[u] \o IF answer[u] = None THEN << >>
                        ELSE [i \in 1..Len(answer[u].msgs) |-> answer[u].msgs[i].id]

(* A message that entered the queue is shown to its recipient or expires,  *)
(* as long as the recipient's session lives and its round trips hold: the  *)
(* timer keeps polling and the worker keeps serving.                       *)
QueuedIsShown ==
    \A u \in Readers, m \in Msgs :
        (\E i \in 1..Len(pushed[u]) : pushed[u][i].id = m)
          ~> \/ m \in Range(shown[u])
             \/ \E q \in dropped : q.id = m
             \/ u \in faulted
             \/ Current(u) \notin live
=============================================================================
