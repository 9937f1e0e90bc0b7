---------------------------- MODULE OfflineQueue ----------------------------
(***************************************************************************)
(* OfflineQueue: the per-recipient mailbox of messages waiting to be       *)
(* pulled.  Each operation reads the clock first and takes the mutex       *)
(* afterwards, so it is two steps: by the time an operation holds the      *)
(* mutex, others may have run and its clock reading may be old.            *)
(***************************************************************************)
EXTENDS Integers, Sequences, SequencesExt, Filter

CONSTANTS
    Procs,       \* threads that use the queue
    Users,       \* recipients
    Msgs,        \* payloads; each is enqueued at most once
    Ttls,        \* ttl arguments callers pass; 0 asks for the default
    DefaultTtl,  \* default_ttl_, in ticks
    MaxNow       \* bound: ticks of the clock

ASSUME QueueAssumption ==
    /\ Ttls \subseteq Nat
    /\ DefaultTtl \in Nat
    /\ MaxNow \in Nat

VARIABLES
    messages,   \* messages_: per recipient, oldest first
    op,         \* the operation each thread is inside of
    now,        \* steady_clock
    made,       \* payloads handed to Enqueue so far
    asked,      \* history: the ttl argument of each payload
    pushed,     \* history: payloads pushed for each recipient, in order
    returned,   \* history: what Drain returned for each recipient, in order
    dropped     \* history: payloads removed as expired

queueVars == <<messages, op, now, made, asked, pushed, returned, dropped>>

Queued == [id : Msgs, born : Nat, ttl : Nat]

Ops == [kind : {"idle", "cleanup"}, at : Nat]
       \cup [kind : {"drain"}, who : Users, at : Nat]
       \cup [kind : {"enqueue"}, who : Users, msg : Queued]

Idle == [kind |-> "idle", at |-> 0]

TypeOK ==
    /\ messages \in [Users -> Seq(Queued)]
    /\ op \in [Procs -> Ops]
    /\ now \in Nat
    /\ made \subseteq Msgs
    /\ asked \in [Msgs -> Nat]
    /\ pushed \in [Users -> Seq(Queued)]
    /\ returned \in [Users -> Seq([msg : Queued, at : Nat])]
    /\ dropped \subseteq Queued

Init ==
    /\ messages = [u \in Users |-> << >>]
    /\ op = [p \in Procs |-> Idle]
    /\ now = 0
    /\ made = {}
    /\ asked = [m \in Msgs |-> 0]
    /\ pushed = [u \in Users |-> << >>]
    /\ returned = [u \in Users |-> << >>]
    /\ dropped = {}
-----------------------------------------------------------------------------
Begin(p, o) == op[p] = Idle /\ op' = [op EXCEPT ![p] = o]

(* A zero argument stands for the default. *)
Lifetime(ttl) == IF ttl = 0 THEN DefaultTtl ELSE ttl

(* Enqueue before the mutex: the message is stamped. *)
StartEnqueue(p, u, m, ttl) ==
    /\ m \notin made
    /\ Begin(p, [kind |-> "enqueue", who |-> u,
                 msg |-> [id |-> m, born |-> now, ttl |-> Lifetime(ttl)]])
    /\ made' = made \cup {m}
    /\ asked' = [asked EXCEPT ![m] = ttl]
    /\ UNCHANGED <<messages, now, pushed, returned, dropped>>

(* Enqueue under the mutex. *)
Push(p) ==
    /\ op[p].kind = "enqueue"
    /\ messages' = [messages EXCEPT ![op[p].who] = Append(@, op[p].msg)]
    /\ pushed' = [pushed EXCEPT ![op[p].who] = Append(@, op[p].msg)]
    /\ op' = [op EXCEPT ![p] = Idle]
    /\ UNCHANGED <<now, made, asked, returned, dropped>>

(* mutant: the age is unsigned, so a clock read before the stamp wraps *)
Stale_Unsigned(q, at) == (at - q.born) % 256 > q.ttl

(* The age test; the age is a signed duration, negative when the message   *)
(* was stamped after the clock was read.                                   *)
Stale(q, at) == at - q.born > q.ttl

StaleIn(s, at) == {q \in Range(s) : Stale(q, at)}

(* What Drain returns and, with the expired ones, removes. *)
Fresh(s, at) == Kept(s, {q \in Queued : ~Stale(q, at)})

StartDrain(p, u) ==
    /\ Begin(p, [kind |-> "drain", who |-> u, at |-> now])
    /\ UNCHANGED <<messages, now, made, asked, pushed, returned, dropped>>

Drained_Newest(p) ==            \* mutant: taken from the back
    LET u == op[p].who  s == Reverse(messages[u]) IN
    /\ messages' = [messages EXCEPT ![u] = << >>]
    /\ returned' = [returned EXCEPT ![u] = @ \o
                      [i \in 1..Len(Fresh(s, op[p].at)) |->
                         [msg |-> Fresh(s, op[p].at)[i], at |-> op[p].at]]]
    /\ dropped' = dropped \cup StaleIn(s, op[p].at)

Drained(p) ==
    LET u == op[p].who  s == messages[u] IN
    /\ messages' = [messages EXCEPT ![u] = << >>]
    /\ returned' = [returned EXCEPT ![u] = @ \o
                      [i \in 1..Len(Fresh(s, op[p].at)) |->
                         [msg |-> Fresh(s, op[p].at)[i], at |-> op[p].at]]]
    /\ dropped' = dropped \cup StaleIn(s, op[p].at)

Drain(p) ==
    /\ op[p].kind = "drain"
    /\ Drained(p)
    /\ op' = [op EXCEPT ![p] = Idle]
    /\ UNCHANGED <<now, made, asked, pushed>>

StartCleanup(p) ==
    /\ Begin(p, [kind |-> "cleanup", at |-> now])
    /\ UNCHANGED <<messages, now, made, asked, pushed, returned, dropped>>

(* CleanupExpired under the mutex: every recipient's expired messages,     *)
(* wherever they stand, since ttls differ.                                 *)
CleanupExpired(p) ==
    /\ op[p].kind = "cleanup"
    /\ messages' = [u \in Users |-> Fresh(messages[u], op[p].at)]
    /\ dropped' = dropped \cup
                    UNION {StaleIn(messages[u], op[p].at) : u \in Users}
    /\ op' = [op EXCEPT ![p] = Idle]
    /\ UNCHANGED <<now, made, asked, pushed, returned>>

Tick ==
    /\ now < MaxNow
    /\ now' = now + 1
    /\ UNCHANGED <<messages, op, made, asked, pushed, returned, dropped>>

Next ==
    \/ \E p \in Procs :
          \/ \E u \in Users, m \in Msgs, ttl \in Ttls :
                StartEnqueue(p, u, m, ttl)
          \/ Push(p)
          \/ \E u \in Users : StartDrain(p, u)
          \/ Drain(p)
          \/ StartCleanup(p)
          \/ CleanupExpired(p)
    \/ Tick

Spec == Init /\ [][Next]_queueVars
-----------------------------------------------------------------------------
(* Properties *)

(* Nothing is lost, doubled or overtaken, whichever threads drain, clean   *)
(* and push at once: what was pushed for a user, less what expired, is     *)
(* what Drain returned followed by what still waits, in the order pushed.  *)
PushOrderKept ==
    \A u \in Users :
        Kept(pushed[u], Queued \ dropped)
          = [i \in 1..Len(returned[u]) |-> returned[u][i].msg] \o messages[u]

(* The lifetime a sender asked for. *)
Promised(q) == IF asked[q.id] = 0 THEN DefaultTtl ELSE asked[q.id]

(* A message is only thrown away once it really has outlived the lifetime  *)
(* its sender asked for, although the clock was read before the mutex was  *)
(* taken and messages may be younger than that reading; and one that a     *)
(* Drain returns had not expired when the Drain was called, whatever       *)
(* waiting for the mutex then cost.                                        *)
LifetimesHonoured ==
    /\ \A q \in dropped : now - q.born > Promised(q)
    /\ \A u \in Users : \A r \in Range(returned[u]) :
          r.at - r.msg.born <= Promised(r.msg)
=============================================================================
