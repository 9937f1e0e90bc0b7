------------------------ MODULE MessageDeliveryProofs ------------------------
(***************************************************************************)
(* The queue and the deliveries through it.                                *)
(*                                                                         *)
(* OfflineQueue for every number of threads, recipients, messages and      *)
(* lifetimes: what was pushed and has not expired is what Drain returned   *)
(* followed by what still waits, in the order pushed, and nothing is       *)
(* dropped within its lifetime.                                            *)
(*                                                                         *)
(* MessageDelivery for every number of users, messages, sessions and       *)
(* frames under way: what a window shows, in which order, what "sent"      *)
(* means, and when a message can be lost.  AgreementInv says how the       *)
(* worker, its queue operation and the client that waits for it belong     *)
(* together; each theorem adds what it needs: SentInv what an answer       *)
(* promises, UnfaultedInv how sessions without a broken round trip stand,  *)
(* SeenInOrder that what was shown was returned before, FramesInv that     *)
(* frames run as they were composed.                                       *)
(***************************************************************************)
EXTENDS MessageDelivery, FilterProofs

(* The sequences of the model. *)
LEMMA StaleInIs ==
    ASSUME NEW s \in Seq(Queued), NEW at, NEW y
    PROVE  y \in StaleIn(s, at) <=> In(y, s) /\ Stale(y, at)
BY RangeIsIn DEF StaleIn

LEMMA FreshType ==
    ASSUME NEW s \in Seq(Queued), NEW at
    PROVE  /\ Fresh(s, at) \in Seq(Queued)
           /\ \A y : In(y, Fresh(s, at)) <=> In(y, s) /\ y \in Queued /\ ~Stale(y, at)
<1> DEFINE S == {q \in Queued : ~Stale(q, at)}
<1>1. Kept(s, S) \in Seq(Queued)
  BY KeptType
<1>2. \A y : In(y, Kept(s, S)) <=> In(y, s) /\ y \in S
  BY KeptIn
<1> QED
  BY <1>1, <1>2 DEF Fresh

Returns == [msg : Queued, at : Nat]

(* The messages of what Drain returned, and what a Drain at t adds. *)
Payloads(r) == [i \in 1..Len(r) |-> r[i].msg]
Dated(f, t) == [i \in 1..Len(f) |-> [msg |-> f[i], at |-> t]]

LEMMA PayloadsType ==
    ASSUME NEW r \in Seq(Returns)
    PROVE  Payloads(r) \in Seq(Queued) /\ Len(Payloads(r)) = Len(r)
<1>0. Len(r) \in Nat /\ \A i \in 1..Len(r) : r[i] \in Returns
  BY LenProperties, ElementOfSeq
<1>1. Len(r) \in Nat /\ \A i \in 1..Len(r) : r[i].msg \in Queued
  BY <1>0 DEF Returns
<1>2. Payloads(r) \in [1..Len(r) -> Queued]
  BY <1>1 DEF Payloads
<1> QED
  BY <1>1, <1>2

LEMMA DatedType ==
    ASSUME NEW f \in Seq(Queued), NEW t \in Nat
    PROVE  /\ Dated(f, t) \in Seq(Returns) /\ Len(Dated(f, t)) = Len(f)
           /\ Payloads(Dated(f, t)) = f
<1>1. Len(f) \in Nat /\ \A i \in 1..Len(f) : f[i] \in Queued
  BY LenProperties, ElementOfSeq
<1>2. Dated(f, t) \in [1..Len(f) -> Returns]
  BY <1>1 DEF Dated, Returns
<1>3. Dated(f, t) \in Seq(Returns) /\ Len(Dated(f, t)) = Len(f)
  BY <1>1, <1>2
<1>4. Payloads(Dated(f, t)) \in Seq(Queued) /\ Len(Payloads(Dated(f, t))) = Len(f)
  BY <1>3, PayloadsType
<1>5. \A i \in 1..Len(f) : Payloads(Dated(f, t))[i] = f[i]
  BY <1>3 DEF Payloads, Dated
<1>6. Payloads(Dated(f, t)) = f
  BY <1>4, <1>5, SeqEqual
<1> QED
  BY <1>3, <1>6

LEMMA PayloadsConcat ==
    ASSUME NEW r \in Seq(Returns), NEW s \in Seq(Returns)
    PROVE  Payloads(r \o s) = Payloads(r) \o Payloads(s)
<1>1. /\ r \o s \in Seq(Returns) /\ Len(r \o s) = Len(r) + Len(s)
      /\ Len(r) \in Nat /\ Len(s) \in Nat
      /\ \A i \in 1..(Len(r) + Len(s)) :
            (r \o s)[i] = IF i <= Len(r) THEN r[i] ELSE s[i - Len(r)]
  BY LenProperties, ConcatProperties
<1>2. /\ Payloads(r) \in Seq(Queued) /\ Len(Payloads(r)) = Len(r)
      /\ Payloads(s) \in Seq(Queued) /\ Len(Payloads(s)) = Len(s)
      /\ Payloads(r \o s) \in Seq(Queued) /\ Len(Payloads(r \o s)) = Len(r) + Len(s)
  BY <1>1, PayloadsType
<1>3. /\ Payloads(r) \o Payloads(s) \in Seq(Queued)
      /\ Len(Payloads(r) \o Payloads(s)) = Len(r) + Len(s)
      /\ \A i \in 1..(Len(r) + Len(s)) :
            (Payloads(r) \o Payloads(s))[i] =
               IF i <= Len(r) THEN Payloads(r)[i] ELSE Payloads(s)[i - Len(r)]
  BY <1>2, ConcatProperties
<1>4. \A i \in 1..(Len(r) + Len(s)) :
         Payloads(r \o s)[i] = (Payloads(r) \o Payloads(s))[i]
  <2> SUFFICES ASSUME NEW i \in 1..(Len(r) + Len(s))
               PROVE  Payloads(r \o s)[i] = (Payloads(r) \o Payloads(s))[i]
    OBVIOUS
  <2>1. Payloads(r \o s)[i] = (r \o s)[i].msg
    BY <1>1 DEF Payloads
  <2>2. CASE i <= Len(r)
    <3>1. i \in 1..Len(r) /\ Payloads(r)[i] = r[i].msg
      BY <1>1, <2>2 DEF Payloads
    <3> QED
      BY <1>1, <1>3, <2>1, <2>2, <3>1
  <2>3. CASE ~(i <= Len(r))
    <3>1. i - Len(r) \in 1..Len(s)
      BY <1>1, <2>3
    <3>2. Payloads(s)[i - Len(r)] = s[i - Len(r)].msg
      BY <3>1 DEF Payloads
    <3> QED
      BY <1>1, <1>3, <2>1, <2>3, <3>2
  <2> QED
    BY <2>2, <2>3
<1> QED
  BY <1>2, <1>3, <1>4, SeqEqual
-----------------------------------------------------------------------------
(* The inductive invariant. *)

(* A message carries the lifetime its sender asked for and a stamp that is *)
(* not ahead of the clock.                                                 *)
Stamped(q) == q.id \in made /\ q.ttl = Promised(q) /\ q.born <= now

OpsStamped ==
    \A p \in Procs :
        IF op[p].kind = "enqueue" THEN Stamped(op[p].msg) ELSE op[p].at <= now

PushedStamped ==
    \A u \in Users : \A q : In(q, pushed[u]) => Stamped(q)

(* No payload is pushed twice, whoever pushes it and for whomever. *)
PushedOnce ==
    \A u, v \in Users : \A i \in 1..Len(pushed[u]), j \in 1..Len(pushed[v]) :
        pushed[u][i].id = pushed[v][j].id => u = v /\ i = j

PendingOnce ==
    \A p \in Procs : op[p].kind = "enqueue" =>
        /\ \A u \in Users : \A q : In(q, pushed[u]) => q.id # op[p].msg.id
        /\ \A r \in Procs :
              op[r].kind = "enqueue" /\ op[r].msg.id = op[p].msg.id => r = p

DroppedPushed ==
    \A q \in dropped : \E u \in Users : In(q, pushed[u])

Traced == OpsStamped /\ PushedStamped /\ PushedOnce /\ PendingOnce /\ DroppedPushed

QueueInv == TypeOK /\ Traced /\ PushOrderKept /\ LifetimesHonoured

LEMMA OpTypes ==
    ASSUME TypeOK, NEW p \in Procs
    PROVE  /\ op[p].kind = "enqueue" => op[p].who \in Users /\ op[p].msg \in Queued
           /\ op[p].kind = "drain" => op[p].who \in Users /\ op[p].at \in Nat
           /\ op[p].kind = "cleanup" => op[p].at \in Nat
<1>1. op[p] \in Ops
  BY DEF TypeOK
<1> QED
  BY <1>1 DEF Ops

LEMMA InitQueueInv == QueueAssumption /\ Init => QueueInv
<1> SUFFICES ASSUME Init PROVE QueueInv
  OBVIOUS
<1> USE DEF Init
<1>1. TypeOK
  <2>1. \A X : << >> \in Seq(X)
    BY EmptySeq
  <2>2. Idle \in Ops
    BY DEF Idle, Ops
  <2> QED
    BY <2>1, <2>2 DEF TypeOK
<1>2. \A u \in Users : pushed[u] = << >> /\ Len(pushed[u]) = 0 /\ \A q : ~In(q, pushed[u])
  BY EmptySeq DEF In
<1>3. Traced
  <2>1. OpsStamped
    BY DEF OpsStamped, Idle
  <2>2. PushedStamped
    BY <1>2 DEF PushedStamped
  <2>3. PushedOnce
    BY <1>2 DEF PushedOnce
  <2>4. PendingOnce
    BY DEF PendingOnce, Idle
  <2>5. DroppedPushed
    BY DEF DroppedPushed
  <2> QED
    BY <2>1, <2>2, <2>3, <2>4, <2>5 DEF Traced
<1>4. PushOrderKept
  <2> SUFFICES ASSUME NEW u \in Users
               PROVE  Kept(pushed[u], Queued \ dropped) = Payloads(returned[u]) \o messages[u]
    BY DEF PushOrderKept, Payloads
  <2>1. returned[u] = << >> /\ messages[u] = << >> /\ pushed[u] = << >>
    OBVIOUS
  <2>2. Payloads(<< >>) = << >>
    BY EmptySeq DEF Payloads
  <2>3. << >> \in Seq(Queued)
    BY EmptySeq
  <2>4. << >> \o << >> = << >>
    BY <2>3, ConcatEmptySeq
  <2> QED
    BY <2>1, <2>2, <2>4, KeptEmpty
<1>5. LifetimesHonoured
  <2> SUFFICES ASSUME NEW u \in Users PROVE Range(returned[u]) = {}
    BY DEF LifetimesHonoured
  <2>1. << >> \in Seq(Returns) /\ Len(<< >>) = 0
    BY EmptySeq
  <2>2. \A y : y \in Range(<< >>) <=> In(y, << >>)
    BY <2>1, RangeIsIn
  <2>3. \A y : ~In(y, << >>)
    BY <2>1 DEF In
  <2> QED
    BY <2>2, <2>3
<1> QED
  BY <1>1, <1>3, <1>4, <1>5 DEF QueueInv
-----------------------------------------------------------------------------
(* What the invariant says of the messages of one user. *)
LEMMA UserTypes ==
    ASSUME TypeOK, NEW u \in Users
    PROVE  /\ messages[u] \in Seq(Queued) /\ pushed[u] \in Seq(Queued)
           /\ returned[u] \in Seq(Returns)
           /\ Payloads(returned[u]) \in Seq(Queued)
<1>1. returned[u] \in Seq(Returns)
  BY DEF TypeOK, Returns
<1> QED
  BY <1>1, PayloadsType DEF TypeOK

LEMMA InQueued == \A s \in Seq(Queued) : \A y : In(y, s) => y \in Queued
BY ElementOfSeq DEF In

LEMMA OrderOf ==
    ASSUME PushOrderKept, NEW u \in Users
    PROVE  Kept(pushed[u], Queued \ dropped) = Payloads(returned[u]) \o messages[u]
BY DEF PushOrderKept, Payloads

LEMMA PushedInjective ==
    ASSUME PushedOnce, NEW u \in Users
    PROVE  Injective(pushed[u])
BY DEF PushedOnce, Injective

LEMMA HeldArePushed ==
    ASSUME QueueInv, NEW u \in Users
    PROVE  \A y : In(y, messages[u]) \/ In(y, Payloads(returned[u])) =>
              In(y, pushed[u]) /\ y \notin dropped /\ y \in Queued /\ Stamped(y)
<1>1. /\ messages[u] \in Seq(Queued) /\ pushed[u] \in Seq(Queued)
      /\ Payloads(returned[u]) \in Seq(Queued)
  BY UserTypes DEF QueueInv
<1>2. \A y : In(y, Kept(pushed[u], Queued \ dropped))
                <=> In(y, pushed[u]) /\ y \in Queued \ dropped
  BY <1>1, KeptIn
<1>3. \A y : In(y, Payloads(returned[u]) \o messages[u])
                <=> In(y, Payloads(returned[u])) \/ In(y, messages[u])
  BY <1>1, InConcat
<1>4. Kept(pushed[u], Queued \ dropped) = Payloads(returned[u]) \o messages[u]
  BY OrderOf DEF QueueInv
<1>5. \A y : In(y, pushed[u]) => Stamped(y)
  BY DEF QueueInv, Traced, PushedStamped
<1> QED
  BY <1>2, <1>3, <1>4, <1>5

LEMMA ReturnedArePayloads ==
    ASSUME TypeOK, NEW u \in Users, NEW r \in Range(returned[u])
    PROVE  r \in Returns /\ In(r.msg, Payloads(returned[u]))
<1>1. returned[u] \in Seq(Returns)
  BY UserTypes
<1>2. PICK i \in 1..Len(returned[u]) : returned[u][i] = r
  BY <1>1, RangeIsIn DEF In
<1>3. Len(Payloads(returned[u])) = Len(returned[u])
  BY <1>1, PayloadsType
<1>4. Payloads(returned[u])[i] = r.msg
  BY <1>2 DEF Payloads
<1>5. r \in Returns
  BY <1>1, <1>2, ElementOfSeq
<1> QED
  BY <1>2, <1>3, <1>4, <1>5 DEF In

LEMMA DroppedAreStamped ==
    ASSUME QueueInv, NEW q \in dropped
    PROVE  q \in Queued /\ Stamped(q)
BY DEF QueueInv, TypeOK, Traced, DroppedPushed, PushedStamped

(* A step may add made payloads and let time pass. *)
Later ==
    /\ made \subseteq made'
    /\ now <= now'
    /\ \A m \in made : asked'[m] = asked[m]

LEMMA StampsStay ==
    ASSUME QueueInv, Later, now' \in Nat, NEW q \in Queued, Stamped(q)
    PROVE  Stamped(q)' /\ Promised(q)' = Promised(q)
<1>1. q.born \in Nat /\ now \in Nat
  BY DEF Queued, QueueInv, TypeOK
<1> QED
  BY <1>1 DEF Stamped, Later, Promised

(* A step that only begins an operation, or lets time pass, keeps all that *)
(* is said of the messages.                                                *)
LEMMA MessagesStay ==
    ASSUME QueueInv, Later, now' \in Nat,
           UNCHANGED <<messages, pushed, returned, dropped>>
    PROVE  PushedStamped' /\ PushedOnce' /\ DroppedPushed' /\ PushOrderKept'
           /\ LifetimesHonoured'
<1>1. PushedStamped'
  <2> SUFFICES ASSUME NEW u \in Users, NEW q, In(q, pushed[u]) PROVE Stamped(q)'
    BY DEF PushedStamped
  <2>1. q \in Queued /\ Stamped(q)
    BY UserTypes, InQueued DEF QueueInv, Traced, PushedStamped
  <2> QED
    BY <2>1, StampsStay
<1>2. PushedOnce' /\ DroppedPushed'
  BY DEF QueueInv, Traced, PushedOnce, DroppedPushed
<1>3. PushOrderKept'
  BY DEF QueueInv, PushOrderKept
<1>4. \A q \in dropped' : (now - q.born > Promised(q))'
  <2> SUFFICES ASSUME NEW q \in dropped PROVE now' - q.born > Promised(q)'
    OBVIOUS
  <2>1. q \in Queued /\ Stamped(q)
    BY DroppedAreStamped
  <2>2. Promised(q)' = Promised(q) /\ q.born \in Nat /\ now \in Nat /\ now <= now'
    BY <2>1, StampsStay DEF Queued, QueueInv, TypeOK, Later
  <2>3. now - q.born > Promised(q)
    BY DEF QueueInv, LifetimesHonoured
  <2>4. Promised(q) \in Nat
    BY <2>1 DEF Stamped, Queued
  <2> QED
    BY <2>2, <2>3, <2>4
<1>5. \A u \in Users : \A r \in Range(returned'[u]) :
         r.at - r.msg.born <= Promised(r.msg)'
  <2> SUFFICES ASSUME NEW u \in Users, NEW r \in Range(returned[u])
               PROVE  r.at - r.msg.born <= Promised(r.msg)'
    OBVIOUS
  <2>1. r.msg \in Queued /\ Stamped(r.msg)
    BY ReturnedArePayloads, HeldArePushed DEF QueueInv
  <2>2. r.at - r.msg.born <= Promised(r.msg)
    BY DEF QueueInv, LifetimesHonoured
  <2> QED
    BY <2>1, <2>2, StampsStay
<1> QED
  BY <1>1, <1>2, <1>3, <1>4, <1>5 DEF LifetimesHonoured
-----------------------------------------------------------------------------
(* The steps that begin an operation. *)
LEMMA StartEnqueueKeepsInv ==
    ASSUME QueueInv, QueueAssumption, NEW p \in Procs, NEW u \in Users,
           NEW m \in Msgs, NEW ttl \in Nat, StartEnqueue(p, u, m, ttl)
    PROVE  QueueInv'
<1>q. PICK q : q = [id |-> m, born |-> now, ttl |-> Lifetime(ttl)]
  OBVIOUS
<1>o. PICK o : o = [kind |-> "enqueue", who |-> u, msg |-> q]
  OBVIOUS
<1>1. /\ m \notin made /\ op[p] = Idle /\ op' = [op EXCEPT ![p] = o]
      /\ made' = made \cup {m} /\ asked' = [asked EXCEPT ![m] = ttl]
      /\ UNCHANGED <<messages, now, pushed, returned, dropped>>
  BY <1>q, <1>o DEF StartEnqueue, Begin
<1>2. TypeOK /\ now \in Nat /\ made \subseteq Msgs /\ asked \in [Msgs -> Nat]
      /\ op \in [Procs -> Ops]
  BY DEF QueueInv, TypeOK
<1>3. q \in Queued
  BY <1>q, <1>2 DEF Queued, Lifetime, QueueAssumption
<1>4. o \in Ops /\ o.kind = "enqueue" /\ o.msg = q /\ q.id = m
  BY <1>q, <1>o, <1>3 DEF Ops
<1>5. Later /\ now' \in Nat
  BY <1>1, <1>2 DEF Later
<1>6. TypeOK'
  <2>1. op' \in [Procs -> Ops]
    BY <1>1, <1>2, <1>4
  <2>2. asked' \in [Msgs -> Nat]
    BY <1>1, <1>2
  <2> QED
    BY <1>1, <1>2, <2>1, <2>2 DEF TypeOK
<1>7. op'[p] = o /\ \A r \in Procs \ {p} : op'[r] = op[r]
  BY <1>1, <1>2
<1>8. Stamped(q)'
  BY <1>q, <1>1, <1>2 DEF Stamped, Promised, Lifetime
<1>9. ASSUME NEW r \in Procs, r # p, op[r].kind = "enqueue"
      PROVE  Stamped(op[r].msg) /\ op[r].msg \in Queued /\ op[r].msg.id # m
  <2>1. Stamped(op[r].msg) /\ op[r].msg \in Queued
    BY <1>2, <1>9, OpTypes DEF QueueInv, Traced, OpsStamped
  <2> QED
    BY <1>1, <2>1 DEF Stamped
<1>10. OpsStamped'
  <2> SUFFICES ASSUME NEW r \in Procs
               PROVE  IF op'[r].kind = "enqueue" THEN Stamped(op[r].msg)'
                      ELSE op'[r].at <= now'
    BY DEF OpsStamped
  <2>1. CASE r = p
    <3>1. op'[r] = o /\ o.msg = q
      BY <1>4, <1>7, <2>1
    <3> QED
      BY <1>4, <1>8, <3>1 DEF Stamped, Promised
  <2>2. CASE r # p /\ op[r].kind = "enqueue"
    <3>1. PICK x \in Queued : x = op[r].msg /\ Stamped(x)
      BY <1>9, <2>2
    <3>2. Stamped(x)'
      BY <1>5, <3>1, StampsStay
    <3>3. op'[r].kind = "enqueue" /\ op'[r].msg = x
      BY <1>7, <2>2, <3>1
    <3> QED
      BY <3>2, <3>3 DEF Stamped, Promised
  <2>3. CASE r # p /\ op[r].kind # "enqueue"
    <3>1. op[r].at <= now
      BY <2>3 DEF QueueInv, Traced, OpsStamped
    <3> QED
      BY <1>1, <1>7, <2>3, <3>1
  <2> QED
    BY <2>1, <2>2, <2>3
<1>11. \A v \in Users : \A x : In(x, pushed[v]) => x.id # m
  BY <1>1 DEF QueueInv, Traced, PushedStamped, Stamped
<1>12. PendingOnce'
  <2> SUFFICES ASSUME NEW r \in Procs, op'[r].kind = "enqueue"
               PROVE  /\ \A v \in Users : \A x :
                            In(x, pushed[v]) => x.id # op'[r].msg.id
                      /\ \A w \in Procs :
                            op'[w].kind = "enqueue" /\ op'[w].msg.id = op'[r].msg.id => w = r
    BY <1>1 DEF PendingOnce
  <2>1. CASE r = p
    <3>1. op'[r].msg.id = m
      BY <1>4, <1>7, <2>1
    <3>2. \A w \in Procs \ {p} : op'[w].kind = "enqueue" => op'[w].msg.id # m
      BY <1>7, <1>9
    <3> QED
      BY <1>11, <2>1, <3>1, <3>2
  <2>2. CASE r # p
    <3>1. op'[r] = op[r] /\ op[r].kind = "enqueue" /\ op[r].msg.id # m
      BY <1>7, <1>9, <2>2
    <3>2. \A w \in Procs \ {p} :
             op'[w].kind = "enqueue" /\ op'[w].msg.id = op[r].msg.id => w = r
      BY <1>7, <3>1 DEF QueueInv, Traced, PendingOnce
    <3>3. op'[p].msg.id = m
      BY <1>4, <1>7
    <3>4. \A v \in Users : \A x : In(x, pushed[v]) => x.id # op[r].msg.id
      BY <3>1 DEF QueueInv, Traced, PendingOnce
    <3> QED
      BY <3>1, <3>2, <3>3, <3>4
  <2> QED
    BY <2>1, <2>2
<1>13. UNCHANGED <<messages, pushed, returned, dropped>>
  BY <1>1
<1>14. PushedStamped' /\ PushedOnce' /\ DroppedPushed' /\ PushOrderKept'
       /\ LifetimesHonoured'
  BY <1>5, <1>13, MessagesStay
<1> QED
  BY <1>6, <1>10, <1>12, <1>14 DEF QueueInv, Traced

LEMMA BeginKeepsInv ==
    ASSUME QueueInv, NEW p \in Procs, NEW o \in Ops, Begin(p, o),
           o.kind # "enqueue", o.at <= now,
           UNCHANGED <<messages, now, made, asked, pushed, returned, dropped>>
    PROVE  QueueInv'
<1>1. op' = [op EXCEPT ![p] = o] /\ op \in [Procs -> Ops] /\ now \in Nat
  BY DEF Begin, QueueInv, TypeOK
<1>2. op'[p] = o /\ \A r \in Procs \ {p} : op'[r] = op[r]
  BY <1>1
<1>3. TypeOK'
  BY <1>1 DEF QueueInv, TypeOK
<1>4. \A q : Stamped(q)' <=> Stamped(q)
  BY DEF Stamped, Promised
<1>5. OpsStamped'
  BY <1>2, <1>4 DEF OpsStamped, QueueInv, Traced
<1>6. PendingOnce'
  BY <1>2 DEF PendingOnce, QueueInv, Traced
<1>7. Later /\ now' \in Nat
  BY <1>1 DEF Later
<1>8. PushedStamped' /\ PushedOnce' /\ DroppedPushed' /\ PushOrderKept'
      /\ LifetimesHonoured'
  BY <1>7, MessagesStay
<1> QED
  BY <1>3, <1>5, <1>6, <1>8 DEF QueueInv, Traced

LEMMA StartDrainKeepsInv ==
    ASSUME QueueInv, NEW p \in Procs, NEW u \in Users, StartDrain(p, u)
    PROVE  QueueInv'
<1> DEFINE o == [kind |-> "drain", who |-> u, at |-> now]
<1>1. o \in Ops /\ o.kind # "enqueue" /\ o.at <= now
  BY DEF Ops, QueueInv, TypeOK
<1>2. Begin(p, o) /\ UNCHANGED <<messages, now, made, asked, pushed, returned, dropped>>
  BY DEF StartDrain
<1> HIDE DEF o
<1> QED
  BY <1>1, <1>2, BeginKeepsInv

LEMMA StartCleanupKeepsInv ==
    ASSUME QueueInv, NEW p \in Procs, StartCleanup(p)
    PROVE  QueueInv'
<1> DEFINE o == [kind |-> "cleanup", at |-> now]
<1>1. o \in Ops /\ o.kind # "enqueue" /\ o.at <= now
  BY DEF Ops, QueueInv, TypeOK
<1>2. Begin(p, o) /\ UNCHANGED <<messages, now, made, asked, pushed, returned, dropped>>
  BY DEF StartCleanup
<1> HIDE DEF o
<1> QED
  BY <1>1, <1>2, BeginKeepsInv

LEMMA TickKeepsInv ==
    ASSUME QueueInv, Tick
    PROVE  QueueInv'
<1>1. now \in Nat /\ now' = now + 1 /\ UNCHANGED <<messages, op, made, asked, pushed, returned, dropped>>
  BY DEF Tick, QueueInv, TypeOK
<1>2. Later /\ now' \in Nat
  BY <1>1 DEF Later
<1>3. TypeOK'
  <2>1. now + 1 \in Nat /\ TypeOK
    BY <1>1 DEF QueueInv
  <2> QED
    BY <1>1, <2>1 DEF TypeOK
<1>4. OpsStamped'
  <2> SUFFICES ASSUME NEW r \in Procs
               PROVE  IF op[r].kind = "enqueue" THEN Stamped(op[r].msg)'
                      ELSE op[r].at <= now'
    BY <1>1 DEF OpsStamped
  <2>1. CASE op[r].kind = "enqueue"
    <3>1. PICK x \in Queued : x = op[r].msg /\ Stamped(x)
      BY <2>1, OpTypes DEF QueueInv, Traced, OpsStamped
    <3>2. Stamped(x)'
      BY <1>2, <3>1, StampsStay
    <3> QED
      BY <1>1, <2>1, <3>1, <3>2 DEF Stamped, Promised
  <2>2. CASE op[r].kind # "enqueue"
    <3>1. op[r].at <= now /\ op[r].at \in Nat
      <4>1. op[r] \in Ops
        BY DEF QueueInv, TypeOK
      <4>2. op[r].at \in Nat
        BY <2>2, <4>1 DEF Ops
      <4> QED
        BY <2>2, <4>2 DEF QueueInv, Traced, OpsStamped
    <3> QED
      BY <1>1, <2>2, <3>1
  <2> QED
    BY <2>1, <2>2
<1>5. PendingOnce'
  BY <1>1 DEF PendingOnce, QueueInv, Traced
<1>6. UNCHANGED <<messages, pushed, returned, dropped>>
  BY <1>1
<1>7. PushedStamped' /\ PushedOnce' /\ DroppedPushed' /\ PushOrderKept'
      /\ LifetimesHonoured'
  BY <1>2, <1>6, MessagesStay
<1> QED
  BY <1>3, <1>4, <1>5, <1>7 DEF QueueInv, Traced
-----------------------------------------------------------------------------
(* The steps under the mutex. *)
LEMMA PushKeepsInv ==
    ASSUME QueueInv, NEW p \in Procs, Push(p)
    PROVE  QueueInv'
<1>1. PICK u \in Users, q \in Queued : u = op[p].who /\ q = op[p].msg
  BY OpTypes DEF QueueInv, Push
<1>2. /\ op[p].kind = "enqueue"
      /\ messages' = [messages EXCEPT ![u] = Append(@, q)]
      /\ pushed' = [pushed EXCEPT ![u] = Append(@, q)]
      /\ op' = [op EXCEPT ![p] = Idle]
      /\ UNCHANGED <<now, made, asked, returned, dropped>>
  BY <1>1 DEF Push
<1>3. TypeOK /\ now \in Nat /\ op \in [Procs -> Ops]
      /\ messages \in [Users -> Seq(Queued)] /\ pushed \in [Users -> Seq(Queued)]
  BY DEF QueueInv, TypeOK
<1>4. /\ Append(messages[u], q) \in Seq(Queued) /\ Append(pushed[u], q) \in Seq(Queued)
      /\ messages[u] \in Seq(Queued) /\ pushed[u] \in Seq(Queued)
  BY <1>3, AppendProperties
<1>5. /\ op'[p] = Idle /\ \A r \in Procs \ {p} : op'[r] = op[r]
      /\ messages'[u] = Append(messages[u], q)
      /\ pushed'[u] = Append(pushed[u], q)
      /\ \A v \in Users \ {u} : messages'[v] = messages[v] /\ pushed'[v] = pushed[v]
  BY <1>2, <1>3
<1>6. TypeOK'
  <2>1. Idle \in Ops
    BY DEF Idle, Ops
  <2>2. op' \in [Procs -> Ops]
    BY <1>2, <1>3, <2>1
  <2>3. messages' \in [Users -> Seq(Queued)] /\ pushed' \in [Users -> Seq(Queued)]
    BY <1>2, <1>3, <1>4
  <2> QED
    BY <1>2, <1>3, <2>2, <2>3 DEF TypeOK
<1>7. /\ Stamped(q)
      /\ \A v \in Users : \A x : In(x, pushed[v]) => x.id # q.id
      /\ \A r \in Procs \ {p} : op[r].kind = "enqueue" => op[r].msg.id # q.id
  BY <1>1, <1>2 DEF QueueInv, Traced, OpsStamped, PendingOnce
<1>8. q \notin dropped
  BY <1>7 DEF QueueInv, Traced, DroppedPushed
<1>9. \A x : Stamped(x)' <=> Stamped(x)
  BY <1>2 DEF Stamped, Promised
<1>10. \A v \in Users : \A x : In(x, pushed'[v]) <=> In(x, pushed[v]) \/ (v = u /\ x = q)
  <2>1. \A x : In(x, Append(pushed[u], q)) <=> In(x, pushed[u]) \/ x = q
    BY <1>4, InAppend
  <2> QED
    BY <1>5, <2>1
<1>11. OpsStamped'
  <2>1. Idle.kind # "enqueue" /\ Idle.at <= now
    BY <1>3 DEF Idle
  <2> QED
    BY <1>2, <1>5, <1>9, <2>1 DEF OpsStamped, QueueInv, Traced
<1>12. PushedStamped'
  BY <1>7, <1>9, <1>10 DEF PushedStamped, QueueInv, Traced
<1>13. PushedOnce'
  <2>1. /\ Len(pushed[u]) \in Nat /\ Len(pushed'[u]) = Len(pushed[u]) + 1
        /\ pushed'[u][Len(pushed[u]) + 1] = q
        /\ \A i \in 1..Len(pushed[u]) : pushed'[u][i] = pushed[u][i]
    BY <1>4, <1>5, LenProperties, AppendProperties
  <2>2. ASSUME NEW v \in Users, NEW i \in 1..Len(pushed'[v])
        PROVE  \/ v = u /\ i = Len(pushed[u]) + 1 /\ pushed'[v][i] = q
               \/ /\ i \in 1..Len(pushed[v]) /\ pushed'[v][i] = pushed[v][i]
                  /\ pushed[v][i].id # q.id
    <3>1. \A j \in 1..Len(pushed[v]) : pushed[v][j].id # q.id
      BY <1>7 DEF In
    <3>2. CASE v = u
      <4>1. i \in 1..Len(pushed[u]) \/ i = Len(pushed[u]) + 1
        BY <2>1, <2>2, <3>2
      <4> QED
        BY <2>1, <3>1, <3>2, <4>1
    <3>3. CASE v # u
      BY <1>5, <3>1, <3>3
    <3> QED
      BY <3>2, <3>3
  <2> SUFFICES ASSUME NEW v \in Users, NEW w \in Users, NEW i \in 1..Len(pushed'[v]),
                      NEW j \in 1..Len(pushed'[w]), pushed'[v][i].id = pushed'[w][j].id
               PROVE  v = w /\ i = j
    BY DEF PushedOnce
  <2>3. CASE v = u /\ i = Len(pushed[u]) + 1
    BY <2>1, <2>2, <2>3
  <2>4. CASE w = u /\ j = Len(pushed[u]) + 1
    BY <2>1, <2>2, <2>4
  <2>5. CASE ~(v = u /\ i = Len(pushed[u]) + 1) /\ ~(w = u /\ j = Len(pushed[u]) + 1)
    <3>1. i \in 1..Len(pushed[v]) /\ j \in 1..Len(pushed[w])
          /\ pushed[v][i].id = pushed[w][j].id
      BY <2>2, <2>5
    <3> QED
      BY <3>1 DEF QueueInv, Traced, PushedOnce
  <2> QED
    BY <2>3, <2>4, <2>5
<1>14. PendingOnce'
  <2> SUFFICES ASSUME NEW r \in Procs, op'[r].kind = "enqueue"
               PROVE  /\ \A v \in Users : \A x :
                            In(x, pushed'[v]) => x.id # op'[r].msg.id
                      /\ \A w \in Procs :
                            op'[w].kind = "enqueue" /\ op'[w].msg.id = op'[r].msg.id => w = r
    BY DEF PendingOnce
  <2>1. op'[p].kind # "enqueue"
    BY <1>5 DEF Idle
  <2>2. r # p /\ op'[r] = op[r] /\ op[r].kind = "enqueue"
    BY <1>5, <2>1
  <2>3. op[r].msg.id # q.id
    BY <1>7, <2>2
  <2>4. /\ \A v \in Users : \A x : In(x, pushed[v]) => x.id # op[r].msg.id
        /\ \A w \in Procs :
              op[w].kind = "enqueue" /\ op[w].msg.id = op[r].msg.id => w = r
    BY <2>2 DEF QueueInv, Traced, PendingOnce
  <2>5. \A v \in Users : \A x : In(x, pushed'[v]) => x.id # op'[r].msg.id
    BY <1>10, <2>2, <2>3, <2>4
  <2>6. ASSUME NEW w \in Procs, op'[w].kind = "enqueue", op'[w].msg.id = op'[r].msg.id
        PROVE  w = r
    BY <1>5, <2>1, <2>2, <2>4, <2>6
  <2> QED
    BY <2>5, <2>6
<1>15. DroppedPushed'
  BY <1>2, <1>10 DEF DroppedPushed, QueueInv, Traced
<1>16. PushOrderKept'
  <2> SUFFICES ASSUME NEW v \in Users
               PROVE  Kept(pushed'[v], Queued \ dropped) = Payloads(returned[v]) \o messages'[v]
    BY <1>2 DEF PushOrderKept, Payloads
  <2>1. Kept(pushed[v], Queued \ dropped) = Payloads(returned[v]) \o messages[v]
    BY OrderOf DEF QueueInv
  <2>2. CASE v = u
    <3>1. Kept(Append(pushed[u], q), Queued \ dropped)
             = Append(Kept(pushed[u], Queued \ dropped), q)
      <4>1. pushed[u] \in Seq(Queued) /\ q \in Queued \ dropped
        BY <1>4, <1>8
      <4> QED
        BY <4>1, KeptAppend
    <3>2. Payloads(returned[u]) \in Seq(Queued)
      BY <1>3, UserTypes
    <3>3. Append(Payloads(returned[u]) \o messages[u], q)
             = Payloads(returned[u]) \o Append(messages[u], q)
      <4>1. PICK a \in Seq(Queued), b \in Seq(Queued) :
               a = Payloads(returned[u]) /\ b = messages[u]
        BY <1>4, <3>2
      <4>2. Append(a \o b, q) = a \o Append(b, q)
        OBVIOUS
      <4> QED
        BY <4>1, <4>2
    <3> QED
      BY <1>5, <2>1, <2>2, <3>1, <3>3
  <2>3. CASE v # u
    BY <1>5, <2>1, <2>3
  <2> QED
    BY <2>2, <2>3
<1>17. LifetimesHonoured'
  BY <1>2 DEF LifetimesHonoured, QueueInv, Promised
<1> QED
  BY <1>6, <1>11, <1>12, <1>13, <1>14, <1>15, <1>16, <1>17 DEF QueueInv, Traced

(* The messages that are in no queue any more are neither read nor counted *)
(* by what remains: taking out D, which holds of u's messages the stale    *)
(* ones only, leaves the fresh ones in their place.                        *)
LEMMA ExpiryKeepsOrder ==
    ASSUME QueueInv, NEW u \in Users, NEW at, NEW D,
           \A y : In(y, pushed[u]) => (y \in D <=> y \in StaleIn(messages[u], at))
    PROVE  Kept(pushed[u], Queued \ (dropped \cup D))
              = Payloads(returned[u]) \o Fresh(messages[u], at)
<1> DEFINE r == Payloads(returned[u])
           s == messages[u]
           W == Queued \ dropped
           F == Queued \ D
<1>1. s \in Seq(Queued) /\ pushed[u] \in Seq(Queued) /\ r \in Seq(Queued)
  BY UserTypes DEF QueueInv
<1>2. Kept(pushed[u], W) = r \o s
  BY OrderOf DEF QueueInv
<1>3. \A y : In(y, s) \/ In(y, r) => In(y, pushed[u]) /\ y \in Queued
  BY HeldArePushed
<1>4. \A y : y \in StaleIn(s, at) <=> In(y, s) /\ Stale(y, at)
  BY <1>1, StaleInIs
<1>5. Injective(r \o s)
  <2>1. Injective(pushed[u])
    BY PushedInjective DEF QueueInv, Traced
  <2>2. Injective(Kept(pushed[u], W))
    BY <1>1, <2>1, KeptInjective
  <2> QED
    BY <1>2, <2>2
<1>6. \A y : In(y, r) => ~In(y, s)
  BY <1>1, <1>5, InjectiveConcat
<1> HIDE DEF r, s, W, F
<1>7. Kept(pushed[u], W \cap F) = Kept(r, F) \o Kept(s, F)
  <2>1. Kept(Kept(pushed[u], W), F) = Kept(pushed[u], W \cap F)
    BY <1>1, KeptKept
  <2>2. Kept(r \o s, F) = Kept(r, F) \o Kept(s, F)
    BY <1>1, KeptConcat
  <2> QED
    BY <1>2, <2>1, <2>2
<1>8. Kept(r, F) = r
  <2>1. \A y : In(y, r) => y \in F
    BY <1>3, <1>4, <1>6 DEF F, s
  <2> QED
    BY <1>1, <2>1, KeptAll
<1>9. Kept(s, F) = Fresh(s, at)
  <2>1. \A y : In(y, s) => (y \in F <=> y \in {q \in Queued : ~Stale(q, at)})
    BY <1>3, <1>4 DEF F, s
  <2> QED
    BY <1>1, <2>1, KeptSame DEF Fresh
<1>10. W \cap F = Queued \ (dropped \cup D)
  BY DEF W, F
<1> QED
  BY <1>7, <1>8, <1>9, <1>10 DEF r, s

LEMMA NotShared ==
    ASSUME PushedOnce, NEW u \in Users, NEW v \in Users, u # v, NEW y, In(y, pushed[u])
    PROVE  ~In(y, pushed[v])
BY DEF PushedOnce, In

LEMMA StaleWasPushed ==
    ASSUME QueueInv, NEW u \in Users, NEW at \in Nat, at <= now,
           NEW y \in StaleIn(messages[u], at)
    PROVE  y \in Queued /\ In(y, pushed[u]) /\ now - y.born > Promised(y)
<1>1. messages[u] \in Seq(Queued) /\ now \in Nat
  BY UserTypes DEF QueueInv, TypeOK
<1>2. In(y, messages[u]) /\ Stale(y, at)
  BY <1>1, StaleInIs
<1>3. y \in Queued /\ In(y, pushed[u]) /\ Stamped(y)
  BY <1>2, HeldArePushed
<1>4. y.born \in Nat /\ y.ttl \in Nat /\ y.ttl = Promised(y)
  BY <1>3 DEF Queued, Stamped
<1> QED
  BY <1>1, <1>2, <1>3, <1>4 DEF Stale

LEMMA EndKeepsTraces ==
    ASSUME QueueInv, NEW p \in Procs, op' = [op EXCEPT ![p] = Idle],
           UNCHANGED <<now, made, asked, pushed>>
    PROVE  /\ op' \in [Procs -> Ops] /\ \A x : Promised(x)' = Promised(x)
           /\ OpsStamped' /\ PushedStamped' /\ PushedOnce' /\ PendingOnce'
<1>1. op \in [Procs -> Ops] /\ now \in Nat
  BY DEF QueueInv, TypeOK
<1>2. Idle \in Ops /\ Idle.kind # "enqueue" /\ Idle.at <= now
  BY <1>1 DEF Idle, Ops
<1>3. op' \in [Procs -> Ops]
  BY <1>1, <1>2
<1>4. op'[p] = Idle /\ \A r \in Procs \ {p} : op'[r] = op[r]
  BY <1>1
<1>5. \A x : Promised(x)' = Promised(x) /\ (Stamped(x)' <=> Stamped(x))
  BY DEF Stamped, Promised
<1>6. OpsStamped'
  BY <1>2, <1>4, <1>5 DEF OpsStamped, QueueInv, Traced
<1>7. PushedStamped'
  BY <1>5 DEF PushedStamped, QueueInv, Traced
<1>8. PushedOnce'
  BY DEF PushedOnce, QueueInv, Traced
<1>9. PendingOnce'
  BY <1>2, <1>4 DEF PendingOnce, QueueInv, Traced
<1> QED
  BY <1>3, <1>5, <1>6, <1>7, <1>8, <1>9

LEMMA DrainReturns ==
    ASSUME TypeOK, NEW p \in Procs, Drain(p), NEW u \in Users, u = op[p].who
    PROVE  /\ Payloads(returned'[u]) = Payloads(returned[u]) \o Fresh(messages[u], op[p].at)
           /\ \A v \in Users \ {u} : returned'[v] = returned[v]
<1>1. PICK at \in Nat : at = op[p].at
  BY OpTypes DEF Drain
<1>2. PICK f \in Seq(Queued) : f = Fresh(messages[u], at)
  BY UserTypes, FreshType
<1>3. returned' = [returned EXCEPT ![u] = @ \o Dated(f, at)]
  BY <1>1, <1>2 DEF Drain, Drained, Dated
<1>4. returned \in [Users -> Seq(Returns)] /\ returned[u] \in Seq(Returns)
      /\ Dated(f, at) \in Seq(Returns) /\ Payloads(Dated(f, at)) = f
  BY DatedType DEF TypeOK, Returns
<1>5. /\ returned'[u] = returned[u] \o Dated(f, at)
      /\ \A v \in Users \ {u} : returned'[v] = returned[v]
  BY <1>3, <1>4
<1>6. Payloads(returned[u] \o Dated(f, at))
         = Payloads(returned[u]) \o Payloads(Dated(f, at))
  BY <1>4, PayloadsConcat
<1> QED
  BY <1>1, <1>2, <1>4, <1>5, <1>6

LEMMA DrainKeepsInv ==
    ASSUME QueueInv, NEW p \in Procs, Drain(p)
    PROVE  QueueInv'
<1>1. PICK u \in Users, at \in Nat : u = op[p].who /\ at = op[p].at
  BY OpTypes DEF QueueInv, Drain
<1>2. PICK f \in Seq(Queued) : f = Fresh(messages[u], at)
  BY UserTypes, FreshType DEF QueueInv
<1>3. PICK D : D = StaleIn(messages[u], at)
  OBVIOUS
<1>4. /\ op[p].kind = "drain"
      /\ messages' = [messages EXCEPT ![u] = << >>]
      /\ returned' = [returned EXCEPT ![u] = @ \o Dated(f, at)]
      /\ dropped' = dropped \cup D
      /\ op' = [op EXCEPT ![p] = Idle]
      /\ UNCHANGED <<now, made, asked, pushed>>
  BY <1>1, <1>2, <1>3 DEF Drain, Drained, Dated
<1>5. TypeOK /\ now \in Nat /\ messages \in [Users -> Seq(Queued)]
      /\ returned \in [Users -> Seq(Returns)] /\ dropped \subseteq Queued
  BY DEF QueueInv, TypeOK, Returns
<1>6. at <= now
  BY <1>1, <1>4 DEF QueueInv, Traced, OpsStamped
<1>7. \A y \in D : y \in Queued /\ In(y, pushed[u]) /\ now - y.born > Promised(y)
  BY <1>3, <1>6, StaleWasPushed
<1>8. /\ returned[u] \in Seq(Returns) /\ Dated(f, at) \in Seq(Returns)
      /\ returned[u] \o Dated(f, at) \in Seq(Returns) /\ << >> \in Seq(Queued)
  BY <1>5, DatedType, ConcatProperties, EmptySeq
<1>9. /\ messages'[u] = << >> /\ returned'[u] = returned[u] \o Dated(f, at)
      /\ \A v \in Users \ {u} : messages'[v] = messages[v] /\ returned'[v] = returned[v]
  BY <1>4, <1>5
<1>10. /\ op' \in [Procs -> Ops] /\ \A x : Promised(x)' = Promised(x)
       /\ OpsStamped' /\ PushedStamped' /\ PushedOnce' /\ PendingOnce'
  BY <1>4, EndKeepsTraces
<1>11. TypeOK'
  <2>1. messages' \in [Users -> Seq(Queued)]
    BY <1>4, <1>5, <1>8
  <2>2. returned' \in [Users -> Seq(Returns)]
    BY <1>4, <1>5, <1>8
  <2>3. dropped' \subseteq Queued
    BY <1>4, <1>5, <1>7
  <2> QED
    BY <1>4, <1>5, <1>10, <2>1, <2>2, <2>3 DEF TypeOK, Returns
<1>12. DroppedPushed'
  BY <1>4, <1>7 DEF DroppedPushed, QueueInv, Traced
<1>13. PushOrderKept'
  <2> SUFFICES ASSUME NEW v \in Users
               PROVE  Kept(pushed[v], Queued \ (dropped \cup D))
                         = Payloads(returned'[v]) \o messages'[v]
    BY <1>4 DEF PushOrderKept, Payloads
  <2>1. CASE v = u
    <3>1. Kept(pushed[u], Queued \ (dropped \cup D)) = Payloads(returned[u]) \o f
      BY <1>2, <1>3, ExpiryKeepsOrder
    <3>2. Payloads(returned'[u]) = Payloads(returned[u]) \o f
      BY <1>1, <1>2, <1>5, DrainReturns
    <3>3. Payloads(returned'[u]) \in Seq(Queued)
      <4>1. Payloads(returned[u]) \in Seq(Queued)
        BY <1>5, UserTypes
      <4> QED
        BY <3>2, <4>1, ConcatProperties
    <3>4. Payloads(returned'[u]) \o << >> = Payloads(returned'[u])
      BY <3>3, ConcatEmptySeq
    <3> QED
      BY <1>9, <2>1, <3>1, <3>2, <3>4
  <2>2. CASE v # u
    <3>1. \A y : In(y, pushed[v]) =>
             (y \in Queued \ (dropped \cup D) <=> y \in Queued \ dropped)
      BY <1>7, <2>2, NotShared DEF QueueInv, Traced
    <3>2. Kept(pushed[v], Queued \ (dropped \cup D)) = Kept(pushed[v], Queued \ dropped)
      <4>1. pushed[v] \in Seq(Queued)
        BY <1>5, UserTypes
      <4> QED
        BY <3>1, <4>1, KeptSame
    <3>3. Kept(pushed[v], Queued \ dropped) = Payloads(returned[v]) \o messages[v]
      BY OrderOf DEF QueueInv
    <3> QED
      BY <1>9, <2>2, <3>2, <3>3
  <2> QED
    BY <2>1, <2>2
<1>14. \A q \in dropped' : now - q.born > Promised(q)
  BY <1>4, <1>7 DEF QueueInv, LifetimesHonoured
<1>15. \A v \in Users : \A r \in Range(returned'[v]) : r.at - r.msg.born <= Promised(r.msg)
  <2> SUFFICES ASSUME NEW v \in Users, NEW r \in Range(returned'[v]), r \notin Range(returned[v])
               PROVE  r.at - r.msg.born <= Promised(r.msg)
    BY DEF QueueInv, LifetimesHonoured
  <2>1. v = u
    BY <1>9
  <2>2. r \in Range(returned[u] \o Dated(f, at))
    BY <1>9, <2>1
  <2>3. In(r, returned[u]) \/ In(r, Dated(f, at))
    BY <1>8, <2>2, RangeIsIn, InConcat
  <2>4. ~In(r, returned[u])
    BY <1>8, <2>1, RangeIsIn
  <2>5. PICK i \in 1..Len(Dated(f, at)) : Dated(f, at)[i] = r
    BY <2>3, <2>4 DEF In
  <2>6. i \in 1..Len(f) /\ r.msg = f[i] /\ r.at = at
    BY <2>5, DatedType DEF Dated
  <2>7. In(f[i], messages[u]) /\ ~Stale(f[i], at) /\ f[i] \in Queued
    <3>1. In(f[i], f)
      BY <2>6 DEF In
    <3>2. messages[u] \in Seq(Queued)
      BY <1>5, UserTypes
    <3>3. \A y : In(y, Fresh(messages[u], at))
                    <=> In(y, messages[u]) /\ y \in Queued /\ ~Stale(y, at)
      BY <3>2, FreshType
    <3> QED
      BY <1>2, <3>1, <3>3
  <2>8. Stamped(f[i])
    BY <2>7, HeldArePushed
  <2>9. f[i].born \in Nat /\ f[i].ttl \in Nat /\ f[i].ttl = Promised(f[i])
    BY <2>7, <2>8 DEF Queued, Stamped
  <2> QED
    BY <2>6, <2>7, <2>9 DEF Stale
<1>16. LifetimesHonoured'
  BY <1>4, <1>10, <1>14, <1>15 DEF LifetimesHonoured
<1> QED
  BY <1>10, <1>11, <1>12, <1>13, <1>16 DEF QueueInv, Traced

LEMMA CleanupKeepsInv ==
    ASSUME QueueInv, NEW p \in Procs, CleanupExpired(p)
    PROVE  QueueInv'
<1>1. PICK at \in Nat : at = op[p].at
  BY OpTypes DEF QueueInv, CleanupExpired
<1>2. PICK D : D = UNION {StaleIn(messages[u], at) : u \in Users}
  OBVIOUS
<1>3. /\ op[p].kind = "cleanup"
      /\ messages' = [u \in Users |-> Fresh(messages[u], at)]
      /\ dropped' = dropped \cup D
      /\ op' = [op EXCEPT ![p] = Idle]
      /\ UNCHANGED <<now, made, asked, pushed, returned>>
  BY <1>1, <1>2 DEF CleanupExpired
<1>4. TypeOK /\ now \in Nat /\ dropped \subseteq Queued
  BY DEF QueueInv, TypeOK
<1>5. at <= now
  BY <1>1, <1>3 DEF QueueInv, Traced, OpsStamped
<1>6. \A u \in Users : \A y \in StaleIn(messages[u], at) :
         y \in Queued /\ In(y, pushed[u]) /\ now - y.born > Promised(y)
  BY <1>5, StaleWasPushed
<1>7. /\ op' \in [Procs -> Ops] /\ \A x : Promised(x)' = Promised(x)
      /\ OpsStamped' /\ PushedStamped' /\ PushedOnce' /\ PendingOnce'
  BY <1>3, EndKeepsTraces
<1>8. TypeOK'
  <2>1. \A u \in Users : Fresh(messages[u], at) \in Seq(Queued)
    BY <1>4, UserTypes, FreshType
  <2>2. messages' \in [Users -> Seq(Queued)]
    BY <1>3, <2>1
  <2>3. dropped' \subseteq Queued
    BY <1>2, <1>3, <1>4, <1>6
  <2> QED
    BY <1>3, <1>4, <1>7, <2>2, <2>3 DEF TypeOK
<1>9. DroppedPushed'
  BY <1>2, <1>3, <1>6 DEF DroppedPushed, QueueInv, Traced
<1>10. PushOrderKept'
  <2> SUFFICES ASSUME NEW u \in Users
               PROVE  Kept(pushed[u], Queued \ (dropped \cup D))
                         = Payloads(returned[u]) \o messages'[u]
    BY <1>3 DEF PushOrderKept, Payloads
  <2>1. ASSUME NEW y, In(y, pushed[u]), y \in D
        PROVE  y \in StaleIn(messages[u], at)
    <3>1. PICK v \in Users : y \in StaleIn(messages[v], at)
      BY <1>2, <2>1
    <3>2. In(y, pushed[v])
      BY <1>6, <3>1
    <3>3. v = u
      BY <2>1, <3>2, NotShared DEF QueueInv, Traced
    <3> QED
      BY <3>1, <3>3
  <2>2. \A y : In(y, pushed[u]) => (y \in D <=> y \in StaleIn(messages[u], at))
    BY <1>2, <2>1
  <2>3. Kept(pushed[u], Queued \ (dropped \cup D))
           = Payloads(returned[u]) \o Fresh(messages[u], at)
    BY <2>2, ExpiryKeepsOrder
  <2> QED
    BY <1>3, <2>3
<1>11. LifetimesHonoured'
  <2>1. \A q \in dropped' : now - q.born > Promised(q)
    BY <1>2, <1>3, <1>6 DEF QueueInv, LifetimesHonoured
  <2> QED
    BY <1>3, <1>7, <2>1 DEF QueueInv, LifetimesHonoured
<1> QED
  BY <1>7, <1>8, <1>9, <1>10, <1>11 DEF QueueInv, Traced
-----------------------------------------------------------------------------
LEMMA StutterKeepsInv ==
    ASSUME QueueInv, UNCHANGED queueVars
    PROVE  QueueInv'
<1>1. UNCHANGED <<messages, op, now, made, asked, pushed, returned, dropped>>
  BY DEF queueVars
<1>2. TypeOK'
  BY <1>1 DEF QueueInv, TypeOK
<1>3. Later /\ now' \in Nat
  BY <1>1 DEF Later, QueueInv, TypeOK
<1>4. PushedStamped' /\ PushedOnce' /\ DroppedPushed' /\ PushOrderKept'
      /\ LifetimesHonoured'
  BY <1>1, <1>3, MessagesStay
<1>5. \A x : Stamped(x)' <=> Stamped(x)
  BY <1>1 DEF Stamped, Promised
<1>6. OpsStamped'
  BY <1>1, <1>5 DEF OpsStamped, QueueInv, Traced
<1>7. PendingOnce'
  BY <1>1 DEF PendingOnce, QueueInv, Traced
<1> QED
  BY <1>2, <1>4, <1>6, <1>7 DEF QueueInv, Traced

LEMMA NextKeepsInv ==
    ASSUME QueueInv, QueueAssumption, [Next]_queueVars
    PROVE  QueueInv'
<1>1. ASSUME NEW p \in Procs, NEW u \in Users, NEW m \in Msgs, NEW ttl \in Ttls,
             StartEnqueue(p, u, m, ttl)
      PROVE  QueueInv'
  <2>1. ttl \in Nat
    BY DEF QueueAssumption
  <2> QED
    BY <1>1, <2>1, StartEnqueueKeepsInv
<1>2. ASSUME NEW p \in Procs, Push(p)
      PROVE  QueueInv'
  BY <1>2, PushKeepsInv
<1>3. ASSUME NEW p \in Procs, NEW u \in Users, StartDrain(p, u)
      PROVE  QueueInv'
  BY <1>3, StartDrainKeepsInv
<1>4. ASSUME NEW p \in Procs, Drain(p)
      PROVE  QueueInv'
  BY <1>4, DrainKeepsInv
<1>5. ASSUME NEW p \in Procs, StartCleanup(p)
      PROVE  QueueInv'
  BY <1>5, StartCleanupKeepsInv
<1>6. ASSUME NEW p \in Procs, CleanupExpired(p)
      PROVE  QueueInv'
  BY <1>6, CleanupKeepsInv
<1>7. CASE Tick
  BY <1>7, TickKeepsInv
<1>8. CASE UNCHANGED queueVars
  BY <1>8, StutterKeepsInv
<1> QED
  BY <1>1, <1>2, <1>3, <1>4, <1>5, <1>6, <1>7, <1>8 DEF Next

LEMMA QueueInvAlways == Spec => []QueueInv
<1>1. QueueInv /\ [Next]_queueVars => QueueInv'
  BY QueueAssumption, NextKeepsInv
<1> QED
  BY InitQueueInv, QueueAssumption, <1>1, PTL DEF Spec

(* Every variable keeps its type: the threads' operations, the queues and  *)
(* their histories.                                                        *)
THEOREM QueueTypes == Spec => []TypeOK
<1>1. QueueInv => TypeOK
  BY DEF QueueInv
<1> QED
  BY QueueInvAlways, <1>1, PTL

(* Whichever threads push, drain and clean at once, and however old the    *)
(* clock reading each of them holds: no message is lost, doubled or        *)
(* overtaken in the queue of its recipient.                                *)
THEOREM PushOrderAlwaysKept == Spec => []PushOrderKept
<1>1. QueueInv => PushOrderKept
  BY DEF QueueInv
<1> QED
  BY QueueInvAlways, <1>1, PTL

(* Expiry honours the lifetime the sender asked for on both sides: nothing *)
(* is dropped before it has run out, nothing is returned after.            *)
THEOREM LifetimesAlwaysHonoured == Spec => []LifetimesHonoured
<1>1. QueueInv => LifetimesHonoured
  BY DEF QueueInv
<1> QED
  BY QueueInvAlways, <1>1, PTL

-----------------------------------------------------------------------------
-----------------------------------------------------------------------------
(* The worker's queue operation is the one of the frame it serves, and a   *)
(* client that waits for an answer waits for that of its last frame.       *)
Busy ==
    /\ serving # None =>
         /\ serving.req.kind = "push" =>
              /\ op[Worker].kind = "enqueue" /\ op[Worker].who = serving.req.to
              /\ op[Worker].msg.id = serving.req.msg
         /\ serving.req.kind = "pull" =>
              op[Worker].kind = "drain" /\ op[Worker].who = serving.sess[1]
    /\ serving = None => op[Worker].kind \notin {"enqueue", "drain"}

Waiting ==
    \A u \in Users :
        /\ place[u] = "working" =>
             /\ serving # None /\ serving.waiting
             /\ serving.sess = Current(u) /\ serving.req = call[u]
        /\ place[u] = "sent" =>
             /\ unrun[Current(u)] # << >>
             /\ unrun[Current(u)][Len(unrun[Current(u)])] = call[u]

(* The two halves of DeliveryTypeOK beside the queue's and begun's. *)
ClientTypes ==
    /\ place \in [Users -> {"idle", "sent", "working", "answered", "closed"}]
    /\ call \in [Users -> Requests \cup {None}]
    /\ \A u \in Users : /\ call[u] = None <=> place[u] = "idle"
                        /\ answer[u] = None <=> place[u] # "answered"
    /\ answer \in [Users -> Answers \cup {None}]
    /\ shown \in [Users -> Seq(Msgs)]
    /\ verdict \in [Msgs -> {"none", "sent", "failed"}]

SessionTypes ==
    /\ session \in [Users -> 1..MaxLogins]
    /\ live \subseteq Sessions
    /\ unrun \in [Sessions -> Seq(Requests)]
    /\ missed \subseteq Sessions
    /\ serving \in Served \cup {None}
    /\ composed \in [Sessions -> Seq(Requests)]
    /\ faulted \subseteq Users

LEMMA TypesAre ==
    DeliveryTypeOK <=> TypeOK /\ ClientTypes /\ SessionTypes /\ begun \subseteq Sessions
BY DEF DeliveryTypeOK, ClientTypes, SessionTypes

LEMMA RequestFields ==
    \A r \in Requests : /\ r.kind \in {"pull", "push"}
                        /\ r.kind = "push" => r.to \in Users /\ r.msg \in Msgs
BY DEF Requests

LEMMA SessionFields ==
    /\ \A s \in Sessions : s[1] \in Users
    /\ SessionTypes => \A u \in Users : Current(u) \in Sessions
BY DEF Sessions, Current, SessionTypes

LEMMA ServedFields ==
    \A j \in Served : /\ j.sess \in Sessions /\ j.sess[1] \in Users
                      /\ j.req \in Requests /\ j.waiting \in BOOLEAN
BY SessionFields DEF Served

LEMMA WorkerIsProc == Worker \in Procs /\ Cleaner \in Procs
BY DeliveryAssumption DEF DeliveryAssumption

(* What the steps of an answered, refused or abandoned call do. *)
LEMMA ReturnTypes ==
    ASSUME ClientTypes, NEW u \in Users, place[u] # "idle", NEW v \in {"sent", "failed"},
           Return(u, v), shown' \in [Users -> Seq(Msgs)]
    PROVE  ClientTypes'
<1>1. /\ place' = [place EXCEPT ![u] = "idle"] /\ call' = [call EXCEPT ![u] = None]
      /\ answer' = [answer EXCEPT ![u] = None]
  BY DEF Return
<1>2. verdict' \in [Msgs -> {"none", "sent", "failed"}]
  <2>1. call[u] \in Requests /\ verdict \in [Msgs -> {"none", "sent", "failed"}]
    BY DEF ClientTypes
  <2>2. CASE call[u].kind = "push"
    <3>1. verdict' = [verdict EXCEPT ![call[u].msg] = v]
      BY <2>2 DEF Return
    <3> QED
      BY <2>1, <3>1
  <2>3. CASE call[u].kind # "push"
    BY <2>1, <2>3 DEF Return
  <2> QED
    BY <2>2, <2>3
<1>3. place' \in [Users -> {"idle", "sent", "working", "answered", "closed"}]
  BY <1>1 DEF ClientTypes
<1>4. call' \in [Users -> Requests \cup {None}]
  BY <1>1 DEF ClientTypes
<1>5. answer' \in [Users -> Answers \cup {None}]
  BY <1>1 DEF ClientTypes
<1>6. \A w \in Users : /\ call'[w] = None <=> place'[w] = "idle"
                       /\ answer'[w] = None <=> place'[w] # "answered"
  <2> SUFFICES ASSUME NEW w \in Users
               PROVE  /\ call'[w] = None <=> place'[w] = "idle"
                      /\ answer'[w] = None <=> place'[w] # "answered"
    OBVIOUS
  <2>1. CASE w = u
    BY <1>1, <2>1 DEF ClientTypes
  <2>2. CASE w # u
    <3>1. call'[w] = call[w] /\ place'[w] = place[w] /\ answer'[w] = answer[w]
      BY <1>1, <2>2 DEF ClientTypes
    <3> QED
      BY <3>1 DEF ClientTypes
  <2> QED
    BY <2>1, <2>2
<1> QED
  BY <1>2, <1>3, <1>4, <1>5, <1>6 DEF ClientTypes

LEMMA AnswerTypes ==
    ASSUME ClientTypes, SessionTypes, NEW job \in Served, NEW waiting \in BOOLEAN,
           NEW ok \in BOOLEAN, NEW msgs \in Seq(Queued),
           waiting => place[job.sess[1]] \in {"sent", "working"},
           Answer(job, waiting, ok, msgs)
    PROVE  /\ ClientTypes' /\ serving' = None /\ missed' \subseteq Sessions
           /\ UNCHANGED <<call, session, live, shown, verdict, composed, faulted>>
<1>1. job.sess \in Sessions /\ job.sess[1] \in Users
  BY ServedFields
<1>2. serving' = None /\ UNCHANGED <<call, session, live, shown, verdict, composed, faulted>>
  BY DEF Answer
<1>3. CASE ~waiting
  <2>1. missed' = missed \cup {job.sess} /\ UNCHANGED <<place, answer>>
    BY <1>3 DEF Answer
  <2> QED
    BY <1>1, <1>2, <2>1 DEF ClientTypes, SessionTypes
<1>4. CASE waiting
  <2>1. PICK u \in Users, a \in Answers :
           u = job.sess[1] /\ a = [ok |-> ok, msgs |-> msgs]
    BY <1>1 DEF Answers
  <2>2. /\ place' = [place EXCEPT ![u] = "answered"]
        /\ answer' = [answer EXCEPT ![u] = a] /\ missed' = missed
    BY <1>4, <2>1 DEF Answer
  <2>3. a \in Answers /\ a # None /\ place[u] \in {"sent", "working"}
    BY <1>4, <2>1, NoneAssumption DEF NoneAssumption
  <2>4. place' \in [Users -> {"idle", "sent", "working", "answered", "closed"}]
    BY <2>2 DEF ClientTypes
  <2>5. answer' \in [Users -> Answers \cup {None}]
    BY <2>2, <2>3 DEF ClientTypes
  <2>6. \A w \in Users : /\ call'[w] = None <=> place'[w] = "idle"
                         /\ answer'[w] = None <=> place'[w] # "answered"
    <3> SUFFICES ASSUME NEW w \in Users
                 PROVE  /\ call'[w] = None <=> place'[w] = "idle"
                        /\ answer'[w] = None <=> place'[w] # "answered"
      OBVIOUS
    <3>1. CASE w = u
      <4>1. place'[u] = "answered" /\ answer'[u] = a /\ call'[u] = call[u]
        BY <1>2, <2>2 DEF ClientTypes
      <4>2. call[u] # None
        BY <2>3 DEF ClientTypes
      <4> QED
        BY <2>3, <3>1, <4>1, <4>2
    <3>2. CASE w # u
      <4>1. place'[w] = place[w] /\ answer'[w] = answer[w] /\ call'[w] = call[w]
        BY <1>2, <2>2, <3>2 DEF ClientTypes
      <4> QED
        BY <4>1 DEF ClientTypes
    <3> QED
      BY <3>1, <3>2
  <2> QED
    BY <1>2, <2>2, <2>4, <2>5, <2>6 DEF ClientTypes, SessionTypes
<1> QED
  BY <1>3, <1>4

LEMMA HeadRemoved ==
    ASSUME NEW X, NEW s \in Seq(X), s # << >>
    PROVE  /\ RemoveAt(s, 1) \in Seq(X) /\ Len(RemoveAt(s, 1)) = Len(s) - 1
           /\ \A i \in 1..(Len(s) - 1) : RemoveAt(s, 1)[i] = s[i + 1]
<1>1. PICK n \in Nat \ {0} : n = Len(s)
  BY EmptySeq
<1>2. \A i \in 2..n : s[i] \in X
  BY <1>1, ElementOfSeq
<1>3. PICK t : t = SubSeq(s, 2, n)
  OBVIOUS
<1>4. /\ t \in Seq(X) /\ Len(t) = IF 2 <= n THEN n - 2 + 1 ELSE 0
      /\ \A i \in 1..(n - 2 + 1) : t[i] = s[2 + i - 1]
  BY <1>2, <1>3, SubSeqProperties
<1>5. Len(t) = n - 1 /\ \A i \in 1..(n - 1) : t[i] = s[i + 1]
  <2>1. Len(t) = n - 1
    BY <1>4
  <2>2. ASSUME NEW i \in 1..(n - 1)
        PROVE  t[i] = s[i + 1]
    <3>1. i \in 1..(n - 2 + 1) /\ 2 + i - 1 = i + 1
      OBVIOUS
    <3> QED
      BY <1>4, <3>1
  <2> QED
    BY <2>1, <2>2
<1>6. RemoveAt(s, 1) = t
  <2>1. RemoveAt(s, 1) = SubSeq(s, 1, 0) \o SubSeq(s, 2, n)
    BY <1>1 DEF RemoveAt
  <2>2. SubSeq(s, 1, 0) = << >>
    BY SubSeqEmpty
  <2>3. << >> \o t = t
    BY <1>4, ConcatEmptySeq
  <2> QED
    BY <1>3, <2>1, <2>2, <2>3
<1> QED
  BY <1>1, <1>4, <1>5, <1>6
-----------------------------------------------------------------------------
(* The client's steps keep the types and the agreement with the worker. *)
AgreementInv == ClientTypes /\ SessionTypes /\ Busy /\ Waiting

LEMMA TransmitKeeps ==
    ASSUME AgreementInv, NEW u \in Users, NEW req \in Requests, Transmit(u, req),
           composed' \in [Sessions -> Seq(Requests)]
    PROVE  AgreementInv'
<1>1. PICK c \in Sessions : c = Current(u)
  BY SessionFields DEF AgreementInv
<1>2. /\ place[u] = "idle"
      /\ place' = [place EXCEPT ![u] = "sent"] /\ call' = [call EXCEPT ![u] = req]
      /\ unrun' = [unrun EXCEPT ![c] = Append(@, req)]
      /\ UNCHANGED <<queueVars, session, live, missed, serving, answer, shown,
                     verdict, faulted>>
  BY <1>1 DEF Transmit
<1>3. /\ Append(unrun[c], req) \in Seq(Requests) /\ Append(unrun[c], req) # << >>
      /\ Append(unrun[c], req)[Len(Append(unrun[c], req))] = req
  <2>1. unrun[c] \in Seq(Requests)
    BY DEF AgreementInv, SessionTypes
  <2>2. Len(unrun[c]) + 1 = Len(Append(unrun[c], req))
    BY <2>1, AppendProperties
  <2> QED
    BY <2>1, <2>2, AppendProperties
<1>4. /\ unrun'[c] = Append(unrun[c], req)
      /\ \A t \in Sessions \ {c} : unrun'[t] = unrun[t]
      /\ unrun' \in [Sessions -> Seq(Requests)]
  BY <1>2, <1>3 DEF AgreementInv, SessionTypes
<1>5. /\ place'[u] = "sent" /\ call'[u] = req
      /\ \A w \in Users \ {u} : place'[w] = place[w] /\ call'[w] = call[w]
      /\ \A w \in Users : Current(w)' = Current(w)
  BY <1>2 DEF AgreementInv, ClientTypes, Current
<1>6. ClientTypes'
  <2>1. /\ place' \in [Users -> {"idle", "sent", "working", "answered", "closed"}]
        /\ call' \in [Users -> Requests \cup {None}]
    BY <1>2 DEF AgreementInv, ClientTypes
  <2>2. \A w \in Users : /\ call'[w] = None <=> place'[w] = "idle"
                         /\ answer'[w] = None <=> place'[w] # "answered"
    BY <1>2, <1>5, NoneAssumption DEF AgreementInv, ClientTypes, NoneAssumption
  <2> QED
    BY <1>2, <2>1, <2>2 DEF AgreementInv, ClientTypes
<1>7. SessionTypes'
  BY <1>2, <1>4 DEF AgreementInv, SessionTypes
<1>8. Busy'
  BY <1>2 DEF AgreementInv, Busy, queueVars
<1>9. Waiting'
  <2> SUFFICES ASSUME NEW w \in Users
               PROVE  /\ place'[w] = "working" =>
                           /\ serving' # None /\ serving'.waiting
                           /\ serving'.sess = Current(w)' /\ serving'.req = call'[w]
                      /\ place'[w] = "sent" =>
                           /\ unrun'[Current(w)'] # << >>
                           /\ unrun'[Current(w)'][Len(unrun'[Current(w)'])] = call'[w]
    BY DEF Waiting
  <2>1. CASE w = u
    BY <1>1, <1>3, <1>4, <1>5, <2>1
  <2>2. CASE w # u
    <3>1. Current(w) # c /\ Current(w) \in Sessions
      BY <1>1, <2>2, SessionFields DEF Current, AgreementInv
    <3>2. unrun'[Current(w)'] = unrun[Current(w)] /\ Current(w)' = Current(w)
      BY <1>4, <1>5, <3>1
    <3>3. /\ place'[w] = place[w] /\ call'[w] = call[w] /\ serving' = serving
      BY <1>2, <1>5, <2>2
    <3>4. /\ place[w] = "working" =>
               /\ serving # None /\ serving.waiting
               /\ serving.sess = Current(w) /\ serving.req = call[w]
          /\ place[w] = "sent" =>
               /\ unrun[Current(w)] # << >>
               /\ unrun[Current(w)][Len(unrun[Current(w)])] = call[w]
      BY DEF AgreementInv, Waiting
    <3> QED
      BY <3>2, <3>3, <3>4
  <2> QED
    BY <2>1, <2>2
<1> QED
  BY <1>6, <1>7, <1>8, <1>9 DEF AgreementInv

LEMMA ReturnKeeps ==
    ASSUME AgreementInv, NEW u \in Users, place[u] # "idle",
           NEW v \in {"sent", "failed"}, Return(u, v), shown' \in [Users -> Seq(Msgs)],
           missed' \subseteq Sessions, faulted' \subseteq Users,
           UNCHANGED <<queueVars, session, live, unrun, serving, composed>>
    PROVE  AgreementInv'
<1>1. ClientTypes'
  BY ReturnTypes DEF AgreementInv
<1>2. SessionTypes'
  BY DEF AgreementInv, SessionTypes
<1>3. Busy'
  BY DEF AgreementInv, Busy, queueVars
<1>4. /\ place'[u] = "idle"
      /\ \A w \in Users \ {u} : place'[w] = place[w] /\ call'[w] = call[w]
      /\ \A w \in Users : Current(w)' = Current(w)
  BY DEF AgreementInv, ClientTypes, Return, Current
<1>5. Waiting'
  BY <1>4 DEF AgreementInv, Waiting
<1> QED
  BY <1>1, <1>2, <1>3, <1>5 DEF AgreementInv

LEMMA EmittedType ==
    ASSUME ClientTypes, NEW u \in Users, place[u] = "answered"
    PROVE  Emitted(u) \in Seq(Msgs)
<1>1. PICK s \in Seq(Queued) : s = answer[u].msgs
  BY DEF ClientTypes, Answers
<1>2. Len(s) \in Nat /\ \A i \in 1..Len(s) : s[i] \in Queued
  BY LenProperties, ElementOfSeq
<1>3. \A i \in 1..Len(s) : s[i].id \in Msgs
  BY <1>2 DEF Queued
<1>4. PICK d : d = [i \in 1..Len(s) |-> s[i].id]
  OBVIOUS
<1>5. d \in Seq(Msgs)
  BY <1>2, <1>3, <1>4
<1>6. shown[u] \in Seq(Msgs)
  BY DEF ClientTypes
<1>7. Emitted(u) = shown[u] \o d
  BY <1>1, <1>4 DEF Emitted
<1> QED
  BY <1>5, <1>6, <1>7, ConcatProperties

LEMMA ReceiveKeeps ==
    ASSUME AgreementInv, NEW u \in Users, Receive(u)
    PROVE  AgreementInv'
<1>1. PICK v \in {"sent", "failed"} : Return(u, v)
  <2>1. \/ answer[u].ok /\ Current(u) \notin missed /\ Return(u, "sent")
        \/ ~(answer[u].ok /\ Current(u) \notin missed) /\ Return(u, "failed")
    BY DEF Receive
  <2> QED
    BY <2>1
<1>2. /\ place[u] = "answered"
      /\ shown' = shown \/ shown' = [shown EXCEPT ![u] = Emitted(u)]
      /\ UNCHANGED <<queueVars, session, live, unrun, missed, serving, composed, faulted>>
  BY DEF Receive
<1>3. shown' \in [Users -> Seq(Msgs)]
  <2>1. Emitted(u) \in Seq(Msgs)
    BY <1>2, EmittedType DEF AgreementInv
  <2> QED
    BY <1>2, <2>1 DEF AgreementInv, ClientTypes
<1>4. missed' \subseteq Sessions /\ faulted' \subseteq Users
  BY <1>2 DEF AgreementInv, SessionTypes
<1> QED
  BY <1>1, <1>2, <1>3, <1>4, ReturnKeeps

LEMMA RefusedKeeps ==
    ASSUME AgreementInv, NEW u \in Users, Refused(u)
    PROVE  AgreementInv'
<1>1. /\ place[u] = "closed" /\ Return(u, "failed")
      /\ UNCHANGED <<queueVars, session, live, unrun, missed, serving, shown,
                     composed, faulted>>
  BY DEF Refused
<1>2. /\ shown' \in [Users -> Seq(Msgs)] /\ missed' \subseteq Sessions
      /\ faulted' \subseteq Users
  BY <1>1 DEF AgreementInv, ClientTypes, SessionTypes
<1> QED
  BY <1>1, <1>2, ReturnKeeps

LEMMA GiveUpKeeps ==
    ASSUME AgreementInv, NEW u \in Users, GiveUp(u)
    PROVE  AgreementInv'
<1>1. /\ place[u] \in {"sent", "working", "answered"} /\ Return(u, "failed")
      /\ missed' = missed \/ missed' = missed \cup {Current(u)}
      /\ faulted' = faulted \cup {u}
      /\ UNCHANGED <<queueVars, session, live, unrun, serving, shown, composed>>
  BY DEF GiveUp
<1>2. /\ shown' \in [Users -> Seq(Msgs)] /\ missed' \subseteq Sessions
      /\ faulted' \subseteq Users
  BY <1>1, SessionFields DEF AgreementInv, ClientTypes, SessionTypes
<1> QED
  BY <1>1, <1>2, ReturnKeeps

LEMMA ReloginKeeps ==
    ASSUME AgreementInv, NEW u \in Users, Relogin(u)
    PROVE  AgreementInv'
<1>1. /\ place[u] = "idle" /\ session[u] < MaxLogins
      /\ session' = [session EXCEPT ![u] = @ + 1]
      /\ live' = live \cup {<<u, session[u] + 1>>}
      /\ UNCHANGED <<queueVars, place, call, unrun, missed, serving, answer, shown,
                     verdict, composed, faulted>>
  BY DEF Relogin
<1>2. ClientTypes'
  BY <1>1 DEF AgreementInv, ClientTypes
<1>3. SessionTypes'
  <2>1. session[u] \in 1..MaxLogins /\ MaxLogins \in Nat
    BY DeliveryAssumption DEF DeliveryAssumption, AgreementInv, SessionTypes
  <2>2. session[u] + 1 \in 1..MaxLogins
    BY <1>1, <2>1
  <2>3. session' \in [Users -> 1..MaxLogins]
    BY <1>1, <2>2 DEF AgreementInv, SessionTypes
  <2>4. live' \subseteq Sessions
    BY <1>1, <2>2 DEF AgreementInv, SessionTypes, Sessions
  <2> QED
    BY <1>1, <2>3, <2>4 DEF AgreementInv, SessionTypes
<1>4. Busy'
  BY <1>1 DEF AgreementInv, Busy, queueVars
<1>5. \A w \in Users \ {u} : Current(w)' = Current(w)
  BY <1>1 DEF AgreementInv, SessionTypes, Current
<1>6. Waiting'
  BY <1>1, <1>5 DEF AgreementInv, Waiting
<1> QED
  BY <1>2, <1>3, <1>4, <1>6 DEF AgreementInv

LEMMA RefuseKeeps ==
    ASSUME AgreementInv, NEW u \in Users, Refuse(u)
    PROVE  AgreementInv'
<1>1. /\ place[u] = "sent" /\ place' = [place EXCEPT ![u] = "closed"]
      /\ UNCHANGED <<queueVars, call, session, live, unrun, missed, serving,
                     answer, shown, verdict, composed, faulted>>
  BY DEF Refuse
<1>2. place'[u] = "closed" /\ \A w \in Users \ {u} : place'[w] = place[w]
  BY <1>1 DEF AgreementInv, ClientTypes
<1>3. ClientTypes'
  <2>1. place' \in [Users -> {"idle", "sent", "working", "answered", "closed"}]
    BY <1>1 DEF AgreementInv, ClientTypes
  <2>2. \A w \in Users : /\ call'[w] = None <=> place'[w] = "idle"
                         /\ answer'[w] = None <=> place'[w] # "answered"
    BY <1>1, <1>2 DEF AgreementInv, ClientTypes
  <2> QED
    BY <1>1, <2>1, <2>2 DEF AgreementInv, ClientTypes
<1>4. SessionTypes'
  BY <1>1 DEF AgreementInv, SessionTypes
<1>5. Busy'
  BY <1>1 DEF AgreementInv, Busy, queueVars
<1>6. \A w \in Users : Current(w)' = Current(w)
  BY <1>1 DEF Current
<1>7. Waiting'
  BY <1>1, <1>2, <1>6 DEF AgreementInv, Waiting
<1> QED
  BY <1>3, <1>4, <1>5, <1>7 DEF AgreementInv

(* Steps that move nothing these speak of: the clock, the cleaner, the end *)
(* of a session.                                                           *)
Quiet ==
    /\ live' \subseteq Sessions
    /\ \/ op'[Worker] = op[Worker]
       \/ {op[Worker].kind, op'[Worker].kind} \cap {"enqueue", "drain"} = {}
    /\ UNCHANGED <<made, asked, pushed, returned>>
    /\ UNCHANGED <<place, call, session, unrun, missed, serving, answer, shown,
                   verdict, composed, faulted>>

LEMMA QuietKeeps ==
    ASSUME AgreementInv, Quiet
    PROVE  AgreementInv'
<1>1. ClientTypes'
  BY DEF AgreementInv, ClientTypes, Quiet
<1>2. SessionTypes'
  BY DEF AgreementInv, SessionTypes, Quiet
<1>3. Busy'
  <2>1. CASE op'[Worker] = op[Worker]
    BY <2>1 DEF AgreementInv, Busy, Quiet
  <2>2. CASE {op[Worker].kind, op'[Worker].kind} \cap {"enqueue", "drain"} = {}
    <3>1. serving = None
      <4>1. serving # None => serving.req \in Requests
        BY ServedFields DEF AgreementInv, SessionTypes
      <4> QED
        BY <2>2, <4>1, RequestFields DEF AgreementInv, Busy
    <3> QED
      BY <2>2, <3>1 DEF Busy, Quiet
  <2> QED
    BY <2>1, <2>2 DEF Quiet
<1>4. \A w \in Users : Current(w)' = Current(w)
  BY DEF Current, Quiet
<1>5. Waiting'
  BY <1>4 DEF AgreementInv, Waiting, Quiet
<1> QED
  BY <1>1, <1>2, <1>3, <1>5 DEF AgreementInv

LEMMA QuietSteps ==
    ASSUME AgreementInv, TypeOK,
           \/ \E s \in Sessions : SessionEnds(s)
           \/ Clean \/ Clock \/ UNCHANGED vars
    PROVE  Quiet
<1>1. CASE \E s \in Sessions : SessionEnds(s)
  BY <1>1 DEF SessionEnds, Quiet, AgreementInv, SessionTypes, queueVars
<1>2. CASE Clean
  <2>1. /\ live' \subseteq Sessions
        /\ UNCHANGED <<place, call, session, unrun, missed, serving, answer, shown,
                       verdict, composed, faulted>>
    BY <1>2 DEF Clean, clientVars, AgreementInv, SessionTypes
  <2>2. UNCHANGED <<made, asked, pushed, returned>>
    BY <1>2 DEF Clean, StartCleanup, CleanupExpired
  <2>3. \E o : /\ op' = [op EXCEPT ![Cleaner] = o]
               /\ {op[Cleaner].kind, o.kind} \cap {"enqueue", "drain"} = {}
    BY <1>2 DEF Clean, StartCleanup, CleanupExpired, Begin, Idle
  <2>4. \/ op'[Worker] = op[Worker]
        \/ {op[Worker].kind, op'[Worker].kind} \cap {"enqueue", "drain"} = {}
    BY <2>3, WorkerIsProc DEF TypeOK
  <2> QED
    BY <2>1, <2>2, <2>4 DEF Quiet
<1>3. CASE Clock
  BY <1>3 DEF Clock, Tick, clientVars, Quiet, AgreementInv, SessionTypes
<1>4. CASE UNCHANGED vars
  BY <1>4 DEF vars, queueVars, clientVars, Quiet, AgreementInv, SessionTypes
<1> QED
  BY <1>1, <1>2, <1>3, <1>4
-----------------------------------------------------------------------------
(* The server's steps do. *)

(* What is left of the frames of s when the first has run. *)
LEMMA RunTakesFirst ==
    ASSUME AgreementInv, NEW s \in Sessions, NEW i, Run(s, i)
    PROVE  /\ serving = None /\ unrun[s] \in Seq(Requests) /\ Len(unrun[s]) \in Nat \ {0}
           /\ unrun[s][1] \in Requests
           /\ unrun' \in [Sessions -> Seq(Requests)]
           /\ \A t \in Sessions \ {s} : unrun'[t] = unrun[t]
           /\ Len(unrun'[s]) = Len(unrun[s]) - 1
           /\ \A a \in 1..(Len(unrun[s]) - 1) : unrun'[s][a] = unrun[s][a + 1]
<1>1. i = 1 /\ serving = None /\ unrun[s] # << >>
      /\ unrun' = [unrun EXCEPT ![s] = RemoveAt(@, 1)]
  BY DEF Run, NextFrame
<1>2. unrun \in [Sessions -> Seq(Requests)] /\ unrun[s] \in Seq(Requests)
  BY DEF AgreementInv, SessionTypes
<1>3. /\ RemoveAt(unrun[s], 1) \in Seq(Requests)
      /\ Len(RemoveAt(unrun[s], 1)) = Len(unrun[s]) - 1
      /\ \A a \in 1..(Len(unrun[s]) - 1) : RemoveAt(unrun[s], 1)[a] = unrun[s][a + 1]
  BY <1>1, <1>2, HeadRemoved
<1>4. Len(unrun[s]) \in Nat \ {0}
  BY <1>1, <1>2, EmptySeq
<1>5. unrun[s][1] \in Requests
  <2>1. 1 \in 1..Len(unrun[s])
    BY <1>4
  <2> QED
    BY <1>2, <2>1, ElementOfSeq
<1>6. /\ unrun'[s] = RemoveAt(unrun[s], 1)
      /\ \A t \in Sessions \ {s} : unrun'[t] = unrun[t]
      /\ unrun' \in [Sessions -> Seq(Requests)]
  BY <1>1, <1>2, <1>3
<1> QED
  BY <1>1, <1>2, <1>3, <1>4, <1>5, <1>6

(* What is left of a Run that closes the connection. *)
RunCloses(s, job) ==
    /\ place' = IF job.waiting THEN [place EXCEPT ![s[1]] = "closed"] ELSE place
    /\ UNCHANGED <<queueVars, call, session, live, missed, serving, answer,
                   shown, verdict, composed, faulted>>

(* What a Run does to the worker and the client, by cases. *)
LEMMA RunCases ==
    ASSUME AgreementInv, NEW s \in Sessions, NEW i, Run(s, i)
    PROVE  \E job \in Served :
              /\ job.sess = s /\ job.req = unrun[s][1] /\ job.waiting = IsAwaited(s)
              /\ \/ /\ s \in live
                    /\ \/ /\ job.req.kind = "push"
                          /\ StartEnqueue(Worker, job.req.to, job.req.msg, 0)
                       \/ job.req.kind = "pull" /\ StartDrain(Worker, s[1])
                    /\ serving' = job
                    /\ place' = IF job.waiting THEN [place EXCEPT ![s[1]] = "working"]
                                ELSE place
                    /\ UNCHANGED <<call, session, live, missed, answer, shown,
                                   verdict, composed, faulted>>
                 \/ Answer(job, job.waiting, FALSE, << >>) /\ UNCHANGED queueVars
                 \/ RunCloses(s, job)
<1>1. i = 1 /\ unrun[s][1] \in Requests
  BY RunTakesFirst DEF Run, NextFrame
<1>2. PICK job : job = [sess |-> s, req |-> unrun[s][1], waiting |-> IsAwaited(s)]
  OBVIOUS
<1>3. IsAwaited(s) \in BOOLEAN
  BY DEF IsAwaited
<1>4. job \in Served
  BY <1>1, <1>2, <1>3 DEF Served
<1>5. job.sess = s /\ job.req = unrun[s][1] /\ job.waiting = IsAwaited(s)
  BY <1>2
<1>6. job.req.kind \in {"pull", "push"}
  BY <1>1, <1>5, RequestFields
<1>7. CASE s \in live
  <2>1. /\ IF job.req.kind = "push"
           THEN StartEnqueue(Worker, job.req.to, job.req.msg, 0)
           ELSE StartDrain(Worker, s[1])
        /\ serving' = job
        /\ place' = IF job.waiting THEN [place EXCEPT ![s[1]] = "working"] ELSE place
        /\ UNCHANGED <<call, session, live, missed, answer, shown,
                       verdict, composed, faulted>>
    BY <1>1, <1>2, <1>7 DEF Run
  <2>2. \/ /\ job.req.kind = "push"
           /\ StartEnqueue(Worker, job.req.to, job.req.msg, 0)
        \/ job.req.kind = "pull" /\ StartDrain(Worker, s[1])
    BY <1>6, <2>1
  <2> QED
    BY <1>4, <1>5, <1>7, <2>1, <2>2
<1>8. CASE s \in begun \ live
  <2>1. Answer(job, job.waiting, FALSE, << >>) /\ UNCHANGED queueVars
    BY <1>1, <1>2, <1>8 DEF Run
  <2> QED
    BY <1>4, <1>5, <2>1
<1>9. CASE s \notin begun \cup live
  <2>1. RunCloses(s, job)
    BY <1>1, <1>2, <1>9 DEF Run, RunCloses
  <2> QED
    BY <1>4, <1>5, <2>1
<1> QED
  BY <1>7, <1>8, <1>9

(* Once a frame is being served nobody's Run interferes: a client that is  *)
(* not its own still waits for its own last frame.                         *)
LEMMA RunKeepsSent ==
    ASSUME AgreementInv, NEW s \in Sessions, NEW i, Run(s, i), NEW v \in Users,
           place[v] = "sent", ~(v = s[1] /\ IsAwaited(s)), session' = session, call' = call
    PROVE  /\ unrun'[Current(v)'] # << >>
           /\ unrun'[Current(v)'][Len(unrun'[Current(v)'])] = call'[v]
<1>1. /\ unrun[Current(v)] # << >>
      /\ unrun[Current(v)][Len(unrun[Current(v)])] = call[v]
      /\ Current(v)' = Current(v)
  BY DEF AgreementInv, Waiting, Current
<1>2. PICK c \in Sessions : c = Current(v) /\ c[1] = v
  BY SessionFields DEF AgreementInv, Current
<1>3. CASE c # s
  <2>1. unrun'[c] = unrun[c]
    BY <1>3, RunTakesFirst
  <2> QED
    BY <1>1, <1>2, <2>1
<1>4. CASE c = s
  <2>1. PICK n \in Nat \ {0} : n = Len(unrun[s])
    BY RunTakesFirst
  <2>2. n # 1
    BY <1>2, <1>4, <2>1 DEF IsAwaited
  <2>3. /\ unrun'[s] \in Seq(Requests) /\ Len(unrun'[s]) = n - 1
        /\ \A a \in 1..(n - 1) : unrun'[s][a] = unrun[s][a + 1]
    BY <2>1, RunTakesFirst
  <2>4. n - 1 \in 1..(n - 1) /\ (n - 1) + 1 = n
    BY <2>2
  <2>5. unrun'[s][n - 1] = unrun[s][n] /\ Len(unrun'[s]) # 0
    BY <2>3, <2>4
  <2>6. unrun'[s] # << >>
    BY <2>3, <2>5, EmptySeq
  <2> QED
    BY <1>1, <1>2, <1>4, <2>1, <2>3, <2>5, <2>6
<1> QED
  BY <1>3, <1>4

LEMMA RunKeeps ==
    ASSUME AgreementInv, TypeOK, NEW s \in Sessions, NEW i, Run(s, i)
    PROVE  AgreementInv'
<1>1. /\ serving = None
      /\ unrun' \in [Sessions -> Seq(Requests)]
      /\ \A v \in Users : place[v] # "working"
  BY RunTakesFirst DEF AgreementInv, Waiting
<1>2. PICK u \in Users : u = s[1]
  BY SessionFields
<1>3. IsAwaited(s) => place[u] = "sent" /\ s = Current(u) /\ Len(unrun[s]) = 1
  BY <1>2 DEF IsAwaited
<1>4. PICK job \in Served :
         /\ job.sess = s /\ job.req = unrun[s][1] /\ job.waiting = IsAwaited(s)
         /\ \/ /\ s \in live
               /\ \/ /\ job.req.kind = "push"
                     /\ StartEnqueue(Worker, job.req.to, job.req.msg, 0)
                  \/ job.req.kind = "pull" /\ StartDrain(Worker, s[1])
               /\ serving' = job
               /\ place' = IF job.waiting THEN [place EXCEPT ![s[1]] = "working"]
                           ELSE place
               /\ UNCHANGED <<call, session, live, missed, answer, shown,
                              verdict, composed, faulted>>
            \/ Answer(job, job.waiting, FALSE, << >>) /\ UNCHANGED queueVars
            \/ RunCloses(s, job)
  BY RunCases
<1>5. job # None /\ job.req \in Requests /\ job.sess[1] = u
  BY <1>2, <1>4, NoneAssumption, ServedFields DEF NoneAssumption
<1>6. ASSUME /\ \/ /\ job.req.kind = "push"
                   /\ StartEnqueue(Worker, job.req.to, job.req.msg, 0)
                \/ job.req.kind = "pull" /\ StartDrain(Worker, u)
             /\ serving' = job
             /\ place' = IF job.waiting THEN [place EXCEPT ![u] = "working"] ELSE place
             /\ UNCHANGED <<call, session, live, missed, answer, shown,
                            verdict, composed, faulted>>
      PROVE  AgreementInv'
  <2>1. /\ \/ /\ job.req.kind = "push"
              /\ StartEnqueue(Worker, job.req.to, job.req.msg, 0)
           \/ job.req.kind = "pull" /\ StartDrain(Worker, u)
        /\ serving' = job
        /\ place' = IF job.waiting THEN [place EXCEPT ![u] = "working"] ELSE place
        /\ UNCHANGED <<call, session, live, missed, answer, shown,
                       verdict, composed, faulted>>
    BY <1>6
  <2>2. /\ \A v \in Users \ {u} : place'[v] = place[v]
        /\ job.waiting => place'[u] = "working"
        /\ ~job.waiting => place' = place
    BY <2>1 DEF AgreementInv, ClientTypes
  <2>3. place' \in [Users -> {"idle", "sent", "working", "answered", "closed"}]
    BY <2>1 DEF AgreementInv, ClientTypes
  <2>4. ClientTypes'
    <3>1. \A v \in Users : /\ call'[v] = None <=> place'[v] = "idle"
                           /\ answer'[v] = None <=> place'[v] # "answered"
      <4> SUFFICES ASSUME NEW v \in Users
                   PROVE  /\ call[v] = None <=> place'[v] = "idle"
                          /\ answer[v] = None <=> place'[v] # "answered"
        BY <2>1
      <4>1. /\ call[v] = None <=> place[v] = "idle"
            /\ answer[v] = None <=> place[v] # "answered"
        BY DEF AgreementInv, ClientTypes
      <4>2. \/ place'[v] = place[v]
            \/ place[v] = "sent" /\ place'[v] = "working"
        BY <1>3, <1>4, <2>2
      <4> QED
        BY <4>1, <4>2
    <3> QED
      BY <2>1, <2>3, <3>1 DEF AgreementInv, ClientTypes
  <2>5. SessionTypes'
    BY <1>1, <2>1 DEF AgreementInv, SessionTypes
  <2>6. Busy'
    <3>1. op \in [Procs -> Ops]
      BY DEF TypeOK
    <3>2. CASE job.req.kind = "push"
      <4>1. PICK t \in Users, m \in Msgs : t = job.req.to /\ m = job.req.msg
        BY <1>5, <3>2, RequestFields
      <4>2. StartEnqueue(Worker, t, m, 0)
        BY <2>1, <3>2, <4>1
      <4>3. op'[Worker].kind = "enqueue" /\ op'[Worker].who = t /\ op'[Worker].msg.id = m
        BY <3>1, <4>2, WorkerIsProc DEF StartEnqueue, Begin
      <4> QED
        BY <1>5, <2>1, <3>2, <4>1, <4>3 DEF Busy
    <3>3. CASE job.req.kind = "pull"
      <4>1. StartDrain(Worker, u)
        BY <2>1, <3>3
      <4>2. op'[Worker].kind = "drain" /\ op'[Worker].who = u
        BY <3>1, <4>1, WorkerIsProc DEF StartDrain, Begin
      <4> QED
        BY <1>5, <2>1, <3>3, <4>2 DEF Busy
    <3> QED
      BY <2>1, <3>2, <3>3
  <2>7. Waiting'
    <3> SUFFICES ASSUME NEW v \in Users
                 PROVE  /\ place'[v] = "working" =>
                             /\ serving' # None /\ serving'.waiting
                             /\ serving'.sess = Current(v)' /\ serving'.req = call'[v]
                        /\ place'[v] = "sent" =>
                             /\ unrun'[Current(v)'] # << >>
                             /\ unrun'[Current(v)'][Len(unrun'[Current(v)'])] = call'[v]
      BY DEF Waiting
    <3>1. ASSUME place'[v] = "working"
          PROVE  /\ serving' # None /\ serving'.waiting
                 /\ serving'.sess = Current(v)' /\ serving'.req = call'[v]
      <4>1. v = u /\ job.waiting
        BY <1>1, <2>2, <3>1
      <4>2. place[u] = "sent" /\ s = Current(u) /\ Len(unrun[s]) = 1
        BY <1>3, <1>4, <4>1
      <4>3. unrun[s][1] = call[u]
        BY <4>2 DEF AgreementInv, Waiting
      <4>4. Current(u)' = Current(u)
        BY <2>1 DEF Current
      <4> QED
        BY <1>4, <1>5, <2>1, <4>1, <4>2, <4>3, <4>4
    <3>2. ASSUME place'[v] = "sent"
          PROVE  /\ unrun'[Current(v)'] # << >>
                 /\ unrun'[Current(v)'][Len(unrun'[Current(v)'])] = call'[v]
      <4>1. place[v] = "sent" /\ ~(v = s[1] /\ IsAwaited(s))
        BY <1>2, <1>4, <2>2, <3>2
      <4>2. session' = session /\ call' = call
        BY <2>1
      <4> QED
        BY <4>1, <4>2, RunKeepsSent
    <3> QED
      BY <3>1, <3>2
  <2> QED
    BY <2>4, <2>5, <2>6, <2>7 DEF AgreementInv
<1>7. ASSUME Answer(job, job.waiting, FALSE, << >>), UNCHANGED queueVars
      PROVE  AgreementInv'
  <2>1. Answer(job, job.waiting, FALSE, << >>) /\ UNCHANGED queueVars
    BY <1>7
  <2>2. << >> \in Seq(Queued) /\ job.waiting \in BOOLEAN
        /\ (job.waiting => place[job.sess[1]] \in {"sent", "working"})
    BY <1>3, <1>4, <1>5, EmptySeq, ServedFields
  <2>3. /\ ClientTypes' /\ serving' = None /\ missed' \subseteq Sessions
        /\ UNCHANGED <<call, session, live, shown, verdict, composed, faulted>>
    BY <2>1, <2>2, AnswerTypes DEF AgreementInv
  <2>4. SessionTypes'
    BY <1>1, <2>3 DEF AgreementInv, SessionTypes
  <2>5. Busy'
    BY <1>1, <2>1, <2>3 DEF AgreementInv, Busy, queueVars
  <2>6. /\ \A v \in Users \ {u} : place'[v] = place[v]
        /\ job.waiting => place'[u] = "answered"
        /\ ~job.waiting => place' = place
    BY <1>5, <2>1 DEF Answer, AgreementInv, ClientTypes
  <2>7. Waiting'
    <3> SUFFICES ASSUME NEW v \in Users
                 PROVE  /\ place'[v] # "working"
                        /\ place'[v] = "sent" =>
                             /\ unrun'[Current(v)'] # << >>
                             /\ unrun'[Current(v)'][Len(unrun'[Current(v)'])] = call'[v]
      BY DEF Waiting
    <3>1. place'[v] # "working"
      BY <1>1, <2>6
    <3>2. ASSUME place'[v] = "sent"
          PROVE  /\ unrun'[Current(v)'] # << >>
                 /\ unrun'[Current(v)'][Len(unrun'[Current(v)'])] = call'[v]
      <4>1. place[v] = "sent" /\ ~(v = s[1] /\ IsAwaited(s))
        BY <1>2, <1>4, <2>6, <3>2
      <4>2. session' = session /\ call' = call
        BY <2>3
      <4> QED
        BY <4>1, <4>2, RunKeepsSent
    <3> QED
      BY <3>1, <3>2
  <2> QED
    BY <2>3, <2>4, <2>5, <2>7 DEF AgreementInv
<1>8. ASSUME RunCloses(s, job)
      PROVE  AgreementInv'
  <2>1. /\ place' = IF job.waiting THEN [place EXCEPT ![u] = "closed"] ELSE place
        /\ UNCHANGED <<queueVars, call, session, live, missed, serving, answer,
                       shown, verdict, composed, faulted>>
    BY <1>2, <1>8 DEF RunCloses
  <2>2. /\ \A v \in Users \ {u} : place'[v] = place[v]
        /\ job.waiting => place'[u] = "closed"
        /\ ~job.waiting => place' = place
        /\ place' \in [Users -> {"idle", "sent", "working", "answered", "closed"}]
    BY <2>1 DEF AgreementInv, ClientTypes
  <2>3. \A v \in Users : \/ place'[v] = place[v]
                         \/ place[v] = "sent" /\ place'[v] = "closed"
    BY <1>3, <1>4, <2>2
  <2>4. ClientTypes'
    <3>1. \A v \in Users : /\ call'[v] = None <=> place'[v] = "idle"
                           /\ answer'[v] = None <=> place'[v] # "answered"
      BY <2>1, <2>3 DEF AgreementInv, ClientTypes
    <3> QED
      BY <2>1, <2>2, <3>1 DEF AgreementInv, ClientTypes
  <2>5. SessionTypes'
    BY <1>1, <2>1 DEF AgreementInv, SessionTypes
  <2>6. Busy'
    BY <2>1 DEF AgreementInv, Busy, queueVars
  <2>7. Waiting'
    <3> SUFFICES ASSUME NEW v \in Users
                 PROVE  /\ place'[v] # "working"
                        /\ place'[v] = "sent" =>
                             /\ unrun'[Current(v)'] # << >>
                             /\ unrun'[Current(v)'][Len(unrun'[Current(v)'])] = call'[v]
      BY DEF Waiting
    <3>1. place'[v] # "working"
      BY <1>1, <2>3
    <3>2. ASSUME place'[v] = "sent"
          PROVE  /\ unrun'[Current(v)'] # << >>
                 /\ unrun'[Current(v)'][Len(unrun'[Current(v)'])] = call'[v]
      <4>1. place[v] = "sent" /\ ~(v = s[1] /\ IsAwaited(s))
        BY <1>2, <1>4, <2>2, <3>2
      <4>2. session' = session /\ call' = call
        BY <2>1
      <4> QED
        BY <4>1, <4>2, RunKeepsSent
    <3> QED
      BY <3>1, <3>2
  <2> QED
    BY <2>4, <2>5, <2>6, <2>7 DEF AgreementInv
<1> QED
  BY <1>2, <1>4, <1>6, <1>7, <1>8

LEMMA FinishKeeps ==
    ASSUME AgreementInv, TypeOK, serving # None, NEW f \in Seq(Queued),
           Answer(serving, StillWaits, TRUE, f), op' = [op EXCEPT ![Worker] = Idle],
           UNCHANGED unrun
    PROVE  AgreementInv'
<1>1. PICK job \in Served : job = serving
  BY DEF AgreementInv, SessionTypes
<1>2. PICK u \in Users : u = job.sess[1]
  BY ServedFields
<1>3. PICK w \in BOOLEAN : w = StillWaits
  <2>1. StillWaits \in BOOLEAN
    BY <1>1, ServedFields DEF StillWaits
  <2> QED
    BY <2>1
<1>4. w <=> job.waiting /\ place[u] = "working"
  BY <1>1, <1>2, <1>3 DEF StillWaits
<1>5. Answer(job, w, TRUE, f)
  BY <1>1, <1>3 DEF Answer
<1>6. /\ ClientTypes' /\ serving' = None /\ missed' \subseteq Sessions
      /\ UNCHANGED <<call, session, live, shown, verdict, composed, faulted>>
  BY <1>2, <1>4, <1>5, AnswerTypes DEF AgreementInv
<1>7. SessionTypes'
  BY <1>6 DEF AgreementInv, SessionTypes
<1>8. Busy'
  <2>1. op'[Worker] = Idle
    BY WorkerIsProc DEF TypeOK
  <2> QED
    BY <1>6, <2>1 DEF Busy, Idle
<1>9. /\ \A v \in Users \ {u} : place'[v] = place[v]
      /\ w => place'[u] = "answered"
      /\ ~w => place' = place
  BY <1>2, <1>5 DEF Answer, AgreementInv, ClientTypes
<1>10. Waiting'
  <2> SUFFICES ASSUME NEW v \in Users
               PROVE  /\ place'[v] # "working"
                      /\ place'[v] = "sent" =>
                           /\ unrun'[Current(v)'] # << >>
                           /\ unrun'[Current(v)'][Len(unrun'[Current(v)'])] = call'[v]
    BY DEF Waiting
  <2>1. place'[v] # "working"
    <3> SUFFICES ASSUME place'[v] = "working" PROVE FALSE
      OBVIOUS
    <3>1. place[v] = "working"
      BY <1>9
    <3>2. job.waiting /\ job.sess = Current(v)
      BY <1>1, <3>1 DEF AgreementInv, Waiting
    <3>3. v = u
      BY <1>2, <3>2 DEF Current
    <3> QED
      BY <1>4, <1>9, <3>1, <3>2, <3>3
  <2>2. Current(v)' = Current(v)
    BY <1>6 DEF Current
  <2>3. place'[v] = "sent" => place[v] = "sent"
    BY <1>9
  <2> QED
    BY <1>6, <2>1, <2>2, <2>3 DEF AgreementInv, Waiting
<1> QED
  BY <1>6, <1>7, <1>8, <1>10 DEF AgreementInv

CoreInv == QueueInv /\ AgreementInv

LEMMA FinishFacts ==
    ASSUME CoreInv, FinishPush \/ FinishPull
    PROVE  /\ serving # None /\ serving \in Served
           /\ op' = [op EXCEPT ![Worker] = Idle] /\ UNCHANGED <<made, unrun>>
           /\ \/ /\ FinishPush /\ Push(Worker) /\ serving.req.kind = "push"
                 /\ Answer(serving, StillWaits, TRUE, << >>)
              \/ /\ FinishPull /\ Drain(Worker) /\ serving.req.kind = "pull"
                 /\ op[Worker].who = serving.sess[1]
                 /\ Answer(serving, StillWaits, TRUE,
                           Fresh(messages[op[Worker].who], op[Worker].at))
<1>1. op[Worker].kind \in {"enqueue", "drain"}
  BY DEF FinishPush, FinishPull, Push, Drain
<1>2. serving # None /\ serving \in Served
  BY <1>1 DEF CoreInv, AgreementInv, Busy, SessionTypes
<1>3. serving.req.kind \in {"pull", "push"}
  BY <1>2, ServedFields, RequestFields
<1>4. CASE FinishPush
  <2>1. Push(Worker) /\ Answer(serving, StillWaits, TRUE, << >>) /\ UNCHANGED unrun
    BY <1>4 DEF FinishPush
  <2>2. op[Worker].kind = "enqueue" /\ op' = [op EXCEPT ![Worker] = Idle] /\ made' = made
    BY <2>1 DEF Push
  <2>3. serving.req.kind = "push"
    BY <1>2, <1>3, <2>2 DEF CoreInv, AgreementInv, Busy
  <2> QED
    BY <1>2, <1>4, <2>1, <2>2, <2>3
<1>5. CASE FinishPull
  <2>1. /\ Drain(Worker) /\ UNCHANGED unrun
        /\ Answer(serving, StillWaits, TRUE,
                  Fresh(messages[op[Worker].who], op[Worker].at))
    BY <1>5 DEF FinishPull
  <2>2. op[Worker].kind = "drain" /\ op' = [op EXCEPT ![Worker] = Idle] /\ made' = made
    BY <2>1 DEF Drain
  <2>3. serving.req.kind = "pull" /\ op[Worker].who = serving.sess[1]
    BY <1>2, <1>3, <2>2 DEF CoreInv, AgreementInv, Busy
  <2> QED
    BY <1>2, <1>5, <2>1, <2>2, <2>3
<1> QED
  BY <1>4, <1>5

LEMMA FinishTypes ==
    ASSUME CoreInv, FinishPush \/ FinishPull
    PROVE  \E f \in Seq(Queued) : Answer(serving, StillWaits, TRUE, f)
<1>1. << >> \in Seq(Queued)
  BY EmptySeq
<1>2. ASSUME Drain(Worker)
      PROVE  Fresh(messages[op[Worker].who], op[Worker].at) \in Seq(Queued)
  <2>1. op[Worker].who \in Users
    BY <1>2, WorkerIsProc, OpTypes DEF Drain, CoreInv, QueueInv
  <2>2. messages[op[Worker].who] \in Seq(Queued)
    BY <2>1, UserTypes DEF CoreInv, QueueInv
  <2> QED
    BY <2>2, FreshType
<1> QED
  BY <1>1, <1>2, FinishFacts

LEMMA QueueSteps ==
    ASSUME CoreInv, [DeliveryNext]_vars
    PROVE  QueueInv'
<1> USE QueueAssumption DEF CoreInv
<1>1. ASSUME UNCHANGED queueVars
      PROVE  QueueInv'
  BY <1>1, StutterKeepsInv
<1>2. ASSUME NEW u \in Users, NEW to \in Users, NEW m \in Msgs, SendText(u, to, m)
      PROVE  QueueInv'
  BY <1>1, <1>2 DEF SendText, Transmit
<1>3. ASSUME NEW u \in Users,
             Poll(u) \/ Receive(u) \/ Refused(u) \/ GiveUp(u) \/ Relogin(u) \/ Refuse(u)
      PROVE  QueueInv'
  BY <1>1, <1>3 DEF Poll, Transmit, Receive, Refused, GiveUp, Relogin, Refuse
<1>4. ASSUME NEW s \in Sessions, SessionEnds(s)
      PROVE  QueueInv'
  BY <1>1, <1>4 DEF SessionEnds
<1>5. ASSUME NEW s \in Sessions, NEW i, Run(s, i)
      PROVE  QueueInv'
  <2>1. PICK job \in Served :
           \/ /\ job.req.kind = "push"
              /\ StartEnqueue(Worker, job.req.to, job.req.msg, 0)
           \/ StartDrain(Worker, s[1])
           \/ UNCHANGED queueVars
    BY <1>5, RunCases DEF CoreInv, RunCloses
  <2>2. CASE job.req.kind = "push" /\ StartEnqueue(Worker, job.req.to, job.req.msg, 0)
    <3>1. PICK t \in Users, m \in Msgs : t = job.req.to /\ m = job.req.msg
      BY <2>2, ServedFields, RequestFields
    <3>2. StartEnqueue(Worker, t, m, 0)
      BY <2>2, <3>1
    <3> QED
      BY <3>2, WorkerIsProc, StartEnqueueKeepsInv
  <2>3. CASE StartDrain(Worker, s[1])
    BY <2>3, SessionFields, WorkerIsProc, StartDrainKeepsInv
  <2>4. CASE UNCHANGED queueVars
    BY <1>1, <2>4
  <2> QED
    BY <2>1, <2>2, <2>3, <2>4
<1>6. ASSUME FinishPush
      PROVE  QueueInv'
  BY <1>6, WorkerIsProc, PushKeepsInv DEF FinishPush
<1>7. ASSUME FinishPull
      PROVE  QueueInv'
  BY <1>7, WorkerIsProc, DrainKeepsInv DEF FinishPull
<1>8. ASSUME Clean
      PROVE  QueueInv'
  BY <1>8, WorkerIsProc, StartCleanupKeepsInv, CleanupKeepsInv DEF Clean
<1>9. ASSUME Clock
      PROVE  QueueInv'
  BY <1>9, TickKeepsInv DEF Clock
<1>10. ASSUME UNCHANGED vars
       PROVE  QueueInv'
  BY <1>1, <1>10 DEF vars
<1> QED
  BY <1>2, <1>3, <1>4, <1>5, <1>6, <1>7, <1>8, <1>9, <1>10 DEF DeliveryNext

LEMMA CoreStep ==
    ASSUME CoreInv, [DeliveryNext]_vars
    PROVE  CoreInv'
<1>1. QueueInv'
  BY QueueSteps
<1>2. AgreementInv /\ TypeOK
  BY DEF CoreInv, QueueInv
<1>3. ASSUME NEW u \in Users, NEW to \in Users, NEW m \in Msgs, SendText(u, to, m)
      PROVE  AgreementInv'
  <2>1. PICK req \in Requests : req = [kind |-> "push", to |-> to, msg |-> m]
    BY DEF Requests
  <2>2. Transmit(u, req) /\ composed' = [composed EXCEPT ![Current(u)] = Append(@, req)]
    BY <1>3, <2>1 DEF SendText
  <2>3. composed' \in [Sessions -> Seq(Requests)]
    <3>1. Current(u) \in Sessions /\ composed \in [Sessions -> Seq(Requests)]
      BY <1>2, SessionFields DEF AgreementInv, SessionTypes
    <3>2. Append(composed[Current(u)], req) \in Seq(Requests)
      BY <3>1, AppendProperties
    <3> QED
      BY <2>2, <3>1, <3>2
  <2> QED
    BY <1>2, <2>2, <2>3, TransmitKeeps
<1>4. ASSUME NEW u \in Users, Poll(u)
      PROVE  AgreementInv'
  <2>1. PICK req \in Requests : req = [kind |-> "pull"]
    BY DEF Requests
  <2>2. Transmit(u, req) /\ composed' = composed
    BY <1>4, <2>1 DEF Poll
  <2>3. composed' \in [Sessions -> Seq(Requests)]
    BY <1>2, <2>2 DEF AgreementInv, SessionTypes
  <2> QED
    BY <1>2, <2>2, <2>3, TransmitKeeps
<1>5. ASSUME NEW u \in Users, Receive(u)
      PROVE  AgreementInv'
  BY <1>2, <1>5, ReceiveKeeps
<1>6. ASSUME NEW u \in Users, Refused(u)
      PROVE  AgreementInv'
  BY <1>2, <1>6, RefusedKeeps
<1>7. ASSUME NEW u \in Users, GiveUp(u)
      PROVE  AgreementInv'
  BY <1>2, <1>7, GiveUpKeeps
<1>8. ASSUME NEW u \in Users, Relogin(u)
      PROVE  AgreementInv'
  BY <1>2, <1>8, ReloginKeeps
<1>9. ASSUME NEW u \in Users, Refuse(u)
      PROVE  AgreementInv'
  BY <1>2, <1>9, RefuseKeeps
<1>10. ASSUME NEW s \in Sessions, NEW i, Run(s, i)
       PROVE  AgreementInv'
  BY <1>2, <1>10, RunKeeps
<1>11. ASSUME FinishPush \/ FinishPull
       PROVE  AgreementInv'
  BY <1>2, <1>11, FinishFacts, FinishTypes, FinishKeeps
<1>12. ASSUME \/ \E s \in Sessions : SessionEnds(s)
              \/ Clean \/ Clock \/ UNCHANGED vars
       PROVE  AgreementInv'
  BY <1>2, <1>12, QuietSteps, QuietKeeps
<1>13. AgreementInv'
  BY <1>3, <1>4, <1>5, <1>6, <1>7, <1>8, <1>9, <1>10, <1>11, <1>12 DEF DeliveryNext
<1> QED
  BY <1>1, <1>13 DEF CoreInv

LEMMA CoreInit == DeliveryInit => CoreInv
<1> SUFFICES ASSUME DeliveryInit PROVE CoreInv
  OBVIOUS
<1>1. QueueInv
  BY InitQueueInv, QueueAssumption DEF DeliveryInit
<1>2. \A X : << >> \in Seq(X)
  BY EmptySeq
<1>3. ClientTypes
  BY <1>2 DEF DeliveryInit, ClientTypes
<1>4. SessionTypes
  <2>1. 1 \in 1..MaxLogins
    BY DeliveryAssumption DEF DeliveryAssumption
  <2> QED
    BY <1>2, <2>1 DEF DeliveryInit, SessionTypes, Sessions
<1>5. Busy
  BY WorkerIsProc DEF DeliveryInit, Init, Busy, Idle
<1>6. Waiting
  BY DEF DeliveryInit, Waiting
<1> QED
  BY <1>1, <1>3, <1>4, <1>5, <1>6 DEF CoreInv, AgreementInv

LEMMA CoreAlways == DeliverySpec => []CoreInv
<1>1. CoreInv /\ [DeliveryNext]_vars => CoreInv'
  BY CoreStep
<1> QED
  BY CoreInit, <1>1, PTL DEF DeliverySpec

LEMMA BegunAlways == DeliverySpec => [](begun \subseteq Sessions)
<1>1. DeliveryInit => begun \subseteq Sessions
  BY DEF DeliveryInit
<1>2. begun \subseteq Sessions /\ [DeliveryNext]_vars => (begun \subseteq Sessions)'
  <2> SUFFICES ASSUME begun \subseteq Sessions, [DeliveryNext]_vars
               PROVE  begun' \subseteq Sessions
    OBVIOUS
  <2>1. ASSUME NEW s \in Sessions, NEW i, Run(s, i)
        PROVE  begun' \subseteq Sessions
    BY <2>1 DEF Run, Answer
  <2>2. ASSUME FinishPush \/ FinishPull \/ Clean \/ Clock \/ UNCHANGED vars
        PROVE  begun' = begun
    BY <2>2 DEF FinishPush, FinishPull, Answer, Clean, Clock, clientVars, vars
  <2>3. ASSUME NEW u \in Users,
               \/ \E to \in Users, m \in Msgs : SendText(u, to, m)
               \/ Poll(u) \/ Receive(u) \/ Refused(u)
               \/ GiveUp(u) \/ Relogin(u) \/ Refuse(u)
        PROVE  begun' = begun
    BY <2>3 DEF SendText, Poll, Transmit, Receive, Refused, GiveUp, Relogin, Refuse
  <2>4. ASSUME NEW s \in Sessions, SessionEnds(s)
        PROVE  begun' = begun
    BY <2>4 DEF SessionEnds
  <2> QED
    BY <2>1, <2>2, <2>3, <2>4 DEF DeliveryNext
<1> QED
  BY <1>1, <1>2, PTL DEF DeliverySpec

(* Every variable of the delivery keeps its type; a call is under way      *)
(* exactly when its client is not idle, and an answer lies in a socket     *)
(* exactly while its client has not read it.                               *)
THEOREM DeliveryTypes == DeliverySpec => []DeliveryTypeOK
<1>1. CoreInv /\ begun \subseteq Sessions => DeliveryTypeOK
  BY TypesAre DEF CoreInv, QueueInv, AgreementInv
<1> QED
  BY CoreAlways, BegunAlways, <1>1, PTL
-----------------------------------------------------------------------------
(* Who composed a message for whom, which mailbox received it, and what a  *)
(* positive answer to a push says.                                         *)
Composed(m, w) ==
    \E s \in Sessions : \E i \in 1..Len(composed[s]) :
        composed[s][i].msg = m /\ composed[s][i].to = w

HasEntered(m, w) == \E k \in 1..Len(pushed[w]) : pushed[w][k].id = m

HasArrived(m) == \E w \in Users : Composed(m, w) /\ HasEntered(m, w)

AnswersTrue ==
    \A u \in Users : answer[u] # None =>
        /\ ~answer[u].ok => answer[u].msgs = << >>
        /\ (answer[u].ok /\ call[u].kind = "push") => HasEntered(call[u].msg, call[u].to)

CallsComposed ==
    \A u \in Users :
        (call[u] # None /\ call[u].kind = "push") => Composed(call[u].msg, call[u].to)

SentHaveArrived == \A m \in Msgs : verdict[m] = "sent" => HasArrived(m)

SentInv == AnswersTrue /\ CallsComposed /\ SentHaveArrived

LEMMA AppendedAt ==
    ASSUME NEW f \in [Sessions -> Seq(Requests)], NEW c \in Sessions, NEW r \in Requests,
           NEW g, g = [f EXCEPT ![c] = Append(@, r)]
    PROVE  /\ \A s \in Sessions : /\ Len(f[s]) \in Nat
                                  /\ \A a \in 1..Len(f[s]) : g[s][a] = f[s][a]
           /\ \A s \in Sessions \ {c} : g[s] = f[s]
           /\ Len(g[c]) = Len(f[c]) + 1 /\ g[c][Len(f[c]) + 1] = r
<1>1. \A s \in Sessions \ {c} : g[s] = f[s]
  OBVIOUS
<1>2. g[c] = Append(f[c], r)
  OBVIOUS
<1>3. \A s \in Sessions : f[s] \in Seq(Requests) /\ Len(f[s]) \in Nat
  BY LenProperties
<1>4. /\ Len(Append(f[c], r)) = Len(f[c]) + 1 /\ Append(f[c], r)[Len(f[c]) + 1] = r
      /\ \A a \in 1..Len(f[c]) : Append(f[c], r)[a] = f[c][a]
  BY <1>3, AppendProperties
<1>5. \A s \in Sessions : \A a \in 1..Len(f[s]) : g[s][a] = f[s][a]
  BY <1>1, <1>2, <1>4
<1> QED
  BY <1>1, <1>2, <1>3, <1>4, <1>5

(* What was composed stays composed, what was received stays received. *)
ComposedGrows ==
    \A s \in Sessions : \A i \in 1..Len(composed[s]) :
        i \in 1..Len(composed'[s]) /\ composed'[s][i] = composed[s][i]

LEMMA ComposedStays ==
    ASSUME ComposedGrows, NEW m, NEW w, Composed(m, w)
    PROVE  Composed(m, w)'
BY DEF ComposedGrows, Composed

LEMMA EnteredStays ==
    ASSUME QueueInv, \/ UNCHANGED pushed
                     \/ \E p \in Procs : Push(p),
           NEW m, NEW u \in Users, HasEntered(m, u)
    PROVE  HasEntered(m, u)'
<1>1. CASE UNCHANGED pushed
  BY <1>1 DEF HasEntered
<1>2. CASE \E p \in Procs : Push(p)
  <2>1. PICK p \in Procs : Push(p)
    BY <1>2
  <2>2. PICK w \in Users, q \in Queued : w = op[p].who /\ q = op[p].msg
    BY <2>1, OpTypes DEF QueueInv, Push
  <2>3. /\ pushed \in [Users -> Seq(Queued)]
        /\ pushed' = [pushed EXCEPT ![w] = Append(@, q)]
    BY <2>1, <2>2 DEF Push, QueueInv, TypeOK
  <2>4. PICK i \in 1..Len(pushed[u]) : pushed[u][i].id = m
    BY DEF HasEntered
  <2>5. CASE u = w
    <3>1. /\ Len(pushed[u]) \in Nat /\ pushed'[u] = Append(pushed[u], q)
          /\ Len(Append(pushed[u], q)) = Len(pushed[u]) + 1
          /\ Append(pushed[u], q)[i] = pushed[u][i]
      BY <2>3, <2>5, LenProperties, AppendProperties
    <3>2. i \in 1..Len(pushed'[u]) /\ pushed'[u][i].id = m
      BY <2>4, <3>1
    <3> QED
      BY <3>2 DEF HasEntered
  <2>6. CASE u # w
    <3>1. pushed'[u] = pushed[u]
      BY <2>3, <2>6
    <3> QED
      BY <2>4, <3>1 DEF HasEntered
  <2> QED
    BY <2>5, <2>6
<1> QED
  BY <1>1, <1>2

LEMMA ArrivedStays ==
    ASSUME QueueInv, ComposedGrows,
           \/ UNCHANGED pushed
           \/ \E p \in Procs : Push(p),
           NEW m, HasArrived(m)
    PROVE  HasArrived(m)'
<1>1. PICK w \in Users : Composed(m, w) /\ HasEntered(m, w)
  BY DEF HasArrived
<1>2. Composed(m, w)'
  BY <1>1, ComposedStays
<1>3. HasEntered(m, w)'
  BY <1>1, EnteredStays
<1> QED
  BY <1>2, <1>3 DEF HasArrived

LEMMA PushEnters ==
    ASSUME QueueInv, NEW p \in Procs, Push(p),
           NEW m, m = op[p].msg.id, NEW w, w = op[p].who
    PROVE  HasEntered(m, w)'
<1>1. w \in Users /\ \E q \in Queued : q = op[p].msg
  BY OpTypes DEF QueueInv, Push
<1>2. PICK q \in Queued : q = op[p].msg
  BY <1>1
<1>3. /\ pushed \in [Users -> Seq(Queued)]
      /\ pushed' = [pushed EXCEPT ![w] = Append(@, q)]
  BY <1>2 DEF Push, QueueInv, TypeOK
<1>4. /\ Len(pushed[w]) \in Nat /\ pushed'[w] = Append(pushed[w], q)
      /\ Len(Append(pushed[w], q)) = Len(pushed[w]) + 1
      /\ Append(pushed[w], q)[Len(pushed[w]) + 1] = q
  BY <1>1, <1>2, <1>3, LenProperties, AppendProperties
<1>5. Len(pushed[w]) + 1 \in 1..Len(pushed'[w])
  BY <1>4
<1> QED
  BY <1>2, <1>4, <1>5 DEF HasEntered

LEMMA TransmitKeepsSent ==
    ASSUME CoreInv, SentInv, NEW u \in Users, NEW req \in Requests, Transmit(u, req),
           \/ req.kind = "pull" /\ composed' = composed
           \/ composed' = [composed EXCEPT ![Current(u)] = Append(@, req)]
    PROVE  SentInv'
<1>1. /\ place[u] = "idle" /\ call' = [call EXCEPT ![u] = req]
      /\ UNCHANGED <<pushed, answer, verdict>>
  BY DEF Transmit, queueVars
<1>2. answer[u] = None /\ call \in [Users -> Requests \cup {None}]
  BY <1>1 DEF CoreInv, AgreementInv, ClientTypes
<1>3. PICK c \in Sessions : c = Current(u)
  BY SessionFields DEF CoreInv, AgreementInv
<1>4. composed \in [Sessions -> Seq(Requests)]
  BY DEF CoreInv, AgreementInv, SessionTypes
<1>5. ComposedGrows /\ (req.kind = "push" => Composed(req.msg, req.to)')
  <2>1. CASE req.kind = "pull" /\ composed' = composed
    BY <2>1 DEF ComposedGrows
  <2>2. CASE composed' = [composed EXCEPT ![c] = Append(@, req)]
    <3>1. /\ \A s \in Sessions : /\ Len(composed[s]) \in Nat
                                 /\ \A i \in 1..Len(composed[s]) :
                                       composed'[s][i] = composed[s][i]
          /\ \A s \in Sessions \ {c} : composed'[s] = composed[s]
          /\ Len(composed'[c]) = Len(composed[c]) + 1
          /\ composed'[c][Len(composed[c]) + 1] = req
      BY <1>4, <2>2, AppendedAt
    <3>2. ComposedGrows
      BY <3>1 DEF ComposedGrows
    <3>3. Len(composed[c]) + 1 \in 1..Len(composed'[c])
      BY <3>1
    <3>4. Composed(req.msg, req.to)'
      BY <3>1, <3>3 DEF Composed
    <3> QED
      BY <3>2, <3>4
  <2> QED
    BY <1>3, <2>1, <2>2
<1>6. \A w \in Users \ {u} : call'[w] = call[w]
  BY <1>1, <1>2
<1>7. AnswersTrue'
  <2> SUFFICES ASSUME NEW w \in Users, answer[w] # None
               PROVE  /\ ~answer[w].ok => answer[w].msgs = << >>
                      /\ (answer[w].ok /\ call'[w].kind = "push")
                           => HasEntered(call'[w].msg, call'[w].to)
    BY <1>1 DEF AnswersTrue, HasEntered
  <2>1. w # u /\ call'[w] = call[w]
    BY <1>2, <1>6
  <2> QED
    BY <2>1 DEF SentInv, AnswersTrue
<1>8. CallsComposed'
  <2> SUFFICES ASSUME NEW w \in Users, call'[w] # None, call'[w].kind = "push"
               PROVE  \E m, x : m = call'[w].msg /\ x = call'[w].to /\ Composed(m, x)'
    BY DEF CallsComposed, Composed
  <2>1. CASE w = u
    BY <1>1, <1>2, <1>5, <2>1
  <2>2. CASE w # u
    <3>1. call'[w] = call[w]
      BY <1>6, <2>2
    <3>2. PICK m, x : m = call[w].msg /\ x = call[w].to
      OBVIOUS
    <3>3. Composed(m, x)
      BY <3>1, <3>2 DEF SentInv, CallsComposed
    <3>4. Composed(m, x)'
      BY <1>5, <3>3, ComposedStays
    <3> QED
      BY <3>1, <3>2, <3>4
  <2> QED
    BY <2>1, <2>2
<1>9. SentHaveArrived'
  <2>1. ASSUME NEW m \in Msgs, verdict[m] = "sent"
        PROVE  HasArrived(m)'
    <3>1. HasArrived(m)
      BY <2>1 DEF SentInv, SentHaveArrived
    <3> QED
      BY <1>1, <1>5, <3>1, ArrivedStays DEF CoreInv
  <2> QED
    BY <1>1, <2>1 DEF SentHaveArrived
<1> QED
  BY <1>7, <1>8, <1>9 DEF SentInv

LEMMA ReturnKeepsSent ==
    ASSUME CoreInv, SentInv, NEW u \in Users, place[u] # "idle",
           NEW v \in {"sent", "failed"}, Return(u, v), UNCHANGED <<pushed, composed>>,
           v = "sent" => answer[u] # None /\ answer[u].ok
    PROVE  SentInv'
<1>1. /\ call' = [call EXCEPT ![u] = None] /\ answer' = [answer EXCEPT ![u] = None]
      /\ verdict' = IF call[u].kind = "push"
                    THEN [verdict EXCEPT ![call[u].msg] = v] ELSE verdict
  BY DEF Return
<1>2. /\ call \in [Users -> Requests \cup {None}] /\ call[u] \in Requests
      /\ answer \in [Users -> Answers \cup {None}]
      /\ verdict \in [Msgs -> {"none", "sent", "failed"}]
      /\ call[u] # None
  BY DEF CoreInv, AgreementInv, ClientTypes
<1>3. \A w \in Users \ {u} : call'[w] = call[w] /\ answer'[w] = answer[w]
  BY <1>1, <1>2
<1>4. call'[u] = None /\ answer'[u] = None
  BY <1>1, <1>2
<1>5. AnswersTrue'
  BY <1>3, <1>4 DEF SentInv, AnswersTrue, HasEntered
<1>6. CallsComposed'
  BY <1>3, <1>4 DEF SentInv, CallsComposed, Composed
<1>7. ASSUME NEW m \in Msgs, verdict'[m] = "sent"
      PROVE  HasArrived(m)
  <2>1. CASE verdict[m] = "sent"
    BY <2>1 DEF SentInv, SentHaveArrived
  <2>2. CASE verdict[m] # "sent"
    <3>1. call[u].kind = "push" /\ call[u].msg = m /\ v = "sent"
      BY <1>1, <1>2, <1>7, <2>2
    <3>2. PICK w \in Users : w = call[u].to
      BY <1>2, <3>1, RequestFields
    <3>3. HasEntered(m, w)
      BY <3>1, <3>2 DEF SentInv, AnswersTrue
    <3>4. Composed(m, w)
      BY <1>2, <3>1, <3>2 DEF SentInv, CallsComposed
    <3> QED
      BY <3>3, <3>4 DEF HasArrived
  <2> QED
    BY <2>1, <2>2
<1>8. \A m : HasArrived(m)' <=> HasArrived(m)
  BY DEF HasArrived, Composed, HasEntered
<1> QED
  BY <1>5, <1>6, <1>7, <1>8 DEF SentInv, SentHaveArrived

(* The answer of the worker to job, given when it is true. *)
LEMMA AnswerKeepsSent ==
    ASSUME CoreInv, SentInv, NEW job \in Served, NEW waiting \in BOOLEAN,
           NEW ok \in BOOLEAN, NEW msgs, Answer(job, waiting, ok, msgs),
           \/ UNCHANGED pushed
           \/ \E p \in Procs : Push(p),
           ~ok => msgs = << >>,
           (waiting /\ ok /\ call[job.sess[1]].kind = "push")
              => \E m, x : /\ m = call[job.sess[1]].msg /\ x = call[job.sess[1]].to
                           /\ HasEntered(m, x)'
    PROVE  SentInv'
<1>1. PICK u \in Users : u = job.sess[1]
  BY ServedFields
<1>2. UNCHANGED <<call, verdict, composed>>
  BY DEF Answer
<1>3. answer \in [Users -> Answers \cup {None}] /\ call \in [Users -> Requests \cup {None}]
  BY DEF CoreInv, AgreementInv, ClientTypes
<1>4. \A w \in Users \ {u} : answer'[w] = answer[w]
  BY <1>1, <1>3 DEF Answer
<1>5. SentHaveArrived'
  <2>1. ASSUME NEW m \in Msgs, verdict[m] = "sent"
        PROVE  HasArrived(m)'
    <3>1. HasArrived(m) /\ ComposedGrows
      BY <1>2, <2>1 DEF SentInv, SentHaveArrived, ComposedGrows
    <3> QED
      BY <3>1, ArrivedStays DEF CoreInv
  <2> QED
    BY <1>2, <2>1 DEF SentHaveArrived
<1>6. CallsComposed'
  BY <1>2 DEF SentInv, CallsComposed, Composed
<1>7. ASSUME NEW w \in Users, answer[w] # None, answer[w].ok, call[w].kind = "push"
      PROVE  \E m, x : m = call[w].msg /\ x = call[w].to /\ HasEntered(m, x)'
  <2>1. call[w] \in Requests
    BY <1>3, <1>7 DEF CoreInv, AgreementInv, ClientTypes
  <2>2. PICK m \in Msgs, x \in Users : m = call[w].msg /\ x = call[w].to
    BY <1>7, <2>1, RequestFields
  <2>3. HasEntered(m, x)
    BY <1>7, <2>2 DEF SentInv, AnswersTrue
  <2>4. HasEntered(m, x)'
    BY <2>3, EnteredStays DEF CoreInv
  <2> QED
    BY <2>2, <2>4
<1>8. ASSUME NEW w \in Users, answer'[w] # None
      PROVE  /\ ~answer'[w].ok => answer'[w].msgs = << >>
             /\ (answer'[w].ok /\ call[w].kind = "push")
                   => \E m, x : m = call[w].msg /\ x = call[w].to /\ HasEntered(m, x)'
  <2>1. CASE waiting /\ w = u
    <3>1. answer'[u].ok = ok /\ answer'[u].msgs = msgs
      BY <1>1, <1>3, <2>1 DEF Answer
    <3> QED
      BY <1>1, <2>1, <3>1
  <2>2. CASE ~(waiting /\ w = u)
    <3>1. answer'[w] = answer[w]
      BY <1>4, <2>2 DEF Answer
    <3>2. ~answer[w].ok => answer[w].msgs = << >>
      BY <1>8, <3>1 DEF SentInv, AnswersTrue
    <3> QED
      BY <1>7, <1>8, <3>1, <3>2
  <2> QED
    BY <2>1, <2>2
<1>9. AnswersTrue'
  BY <1>2, <1>8 DEF AnswersTrue, HasEntered
<1> QED
  BY <1>5, <1>6, <1>9 DEF SentInv

LEMMA SentStays ==
    ASSUME SentInv, UNCHANGED <<call, answer, verdict, pushed, composed>>
    PROVE  SentInv'
BY DEF SentInv, AnswersTrue, CallsComposed, SentHaveArrived, HasArrived, Composed, HasEntered

LEMMA SentStep ==
    ASSUME CoreInv, SentInv, [DeliveryNext]_vars
    PROVE  SentInv'
<1>1. AgreementInv /\ TypeOK /\ QueueInv
  BY DEF CoreInv, QueueInv
<1>2. ASSUME NEW u \in Users, NEW to \in Users, NEW m \in Msgs, SendText(u, to, m)
      PROVE  SentInv'
  <2>1. PICK req \in Requests : req = [kind |-> "push", to |-> to, msg |-> m]
    BY DEF Requests
  <2>2. Transmit(u, req) /\ composed' = [composed EXCEPT ![Current(u)] = Append(@, req)]
    BY <1>2, <2>1 DEF SendText
  <2> QED
    BY <2>2, TransmitKeepsSent
<1>3. ASSUME NEW u \in Users, Poll(u)
      PROVE  SentInv'
  <2>1. PICK req \in Requests : req = [kind |-> "pull"]
    BY DEF Requests
  <2>2. Transmit(u, req) /\ composed' = composed
    BY <1>3, <2>1 DEF Poll
  <2> QED
    BY <2>1, <2>2, TransmitKeepsSent
<1>4. ASSUME NEW u \in Users, Receive(u)
      PROVE  SentInv'
  <2>1. /\ place[u] = "answered" /\ UNCHANGED <<pushed, composed>>
        /\ \/ answer[u].ok /\ Return(u, "sent")
           \/ Return(u, "failed")
    BY <1>4 DEF Receive, queueVars
  <2>2. answer[u] # None
    BY <1>1, <2>1 DEF AgreementInv, ClientTypes
  <2>3. CASE answer[u].ok /\ Return(u, "sent")
    BY <2>1, <2>2, <2>3, ReturnKeepsSent
  <2>4. CASE Return(u, "failed")
    BY <2>1, <2>4, ReturnKeepsSent
  <2> QED
    BY <2>1, <2>3, <2>4
<1>5. ASSUME NEW u \in Users, Refused(u) \/ GiveUp(u)
      PROVE  SentInv'
  <2>1. place[u] # "idle" /\ Return(u, "failed") /\ UNCHANGED <<pushed, composed>>
    BY <1>5 DEF Refused, GiveUp, queueVars
  <2> QED
    BY <2>1, ReturnKeepsSent
<1>6. ASSUME NEW u \in Users, Relogin(u) \/ Refuse(u)
      PROVE  SentInv'
  BY <1>6, SentStays DEF Relogin, Refuse, queueVars
<1>7. ASSUME NEW s \in Sessions, NEW i, Run(s, i)
      PROVE  SentInv'
  <2>1. PICK job \in Served :
           \/ /\ \/ StartEnqueue(Worker, job.req.to, job.req.msg, 0)
                 \/ StartDrain(Worker, s[1])
              /\ UNCHANGED <<call, answer, verdict, composed>>
           \/ Answer(job, job.waiting, FALSE, << >>) /\ UNCHANGED queueVars
           \/ UNCHANGED <<call, answer, verdict, pushed, composed>>
    BY <1>1, <1>7, RunCases DEF RunCloses, queueVars
  <2>2. CASE /\ \/ StartEnqueue(Worker, job.req.to, job.req.msg, 0)
                \/ StartDrain(Worker, s[1])
             /\ UNCHANGED <<call, answer, verdict, composed>>
    BY <2>2, SentStays DEF StartEnqueue, StartDrain
  <2>3. CASE Answer(job, job.waiting, FALSE, << >>) /\ UNCHANGED queueVars
    <3>1. UNCHANGED pushed /\ job.waiting \in BOOLEAN
      BY <2>3, ServedFields DEF queueVars
    <3> QED
      BY <2>3, <3>1, AnswerKeepsSent
  <2> QED
    BY <2>1, <2>2, <2>3, SentStays
<1>8. ASSUME FinishPush \/ FinishPull
      PROVE  SentInv'
  <2>1. PICK job \in Served : job = serving
    BY <1>8, FinishFacts
  <2>2. PICK w \in BOOLEAN : w = StillWaits
    <3>1. StillWaits \in BOOLEAN
      BY <2>1, ServedFields DEF StillWaits
    <3> QED
      BY <3>1
  <2>3. PICK f : f = Fresh(messages[op[Worker].who], op[Worker].at)
    OBVIOUS
  <2>4. \/ Push(Worker) /\ job.req.kind = "push" /\ Answer(job, w, TRUE, << >>)
        \/ Drain(Worker) /\ job.req.kind = "pull" /\ Answer(job, w, TRUE, f)
    BY <1>8, <2>1, <2>2, <2>3, FinishFacts DEF Answer
  <2>5. w => call[job.sess[1]] = job.req
    BY <1>1, <2>1, <2>2, ServedFields DEF StillWaits, AgreementInv, Waiting
  <2>6. CASE Push(Worker) /\ job.req.kind = "push" /\ Answer(job, w, TRUE, << >>)
    <3>1. job.req.msg = op[Worker].msg.id /\ job.req.to = op[Worker].who
      BY <1>1, <1>8, <2>1, <2>6, FinishFacts DEF AgreementInv, Busy
    <3>2. PICK m, x : m = op[Worker].msg.id /\ x = op[Worker].who
      OBVIOUS
    <3>3. HasEntered(m, x)'
      BY <1>1, <2>6, <3>2, WorkerIsProc, PushEnters
    <3>4. w => m = call[job.sess[1]].msg /\ x = call[job.sess[1]].to
      BY <2>5, <3>1, <3>2
    <3> QED
      BY <2>6, <3>3, <3>4, WorkerIsProc, AnswerKeepsSent
  <2>7. CASE Drain(Worker) /\ job.req.kind = "pull" /\ Answer(job, w, TRUE, f)
    <3>1. UNCHANGED pushed
      BY <2>7 DEF Drain
    <3>2. ~(w /\ call[job.sess[1]].kind = "push")
      BY <2>5, <2>7
    <3> QED
      BY <2>7, <3>1, <3>2, AnswerKeepsSent
  <2> QED
    BY <2>4, <2>6, <2>7
<1>9. ASSUME \/ \E s \in Sessions : SessionEnds(s)
             \/ Clean \/ Clock \/ UNCHANGED vars
      PROVE  SentInv'
  BY <1>1, <1>9, QuietSteps, SentStays DEF Quiet
<1> QED
  BY <1>2, <1>3, <1>4, <1>5, <1>6, <1>7, <1>8, <1>9 DEF DeliveryNext

(* However calls, answers and the worker interleave and whatever is lost:  *)
(* sendText reports a message as sent only when it is in the queue of its  *)
(* recipient.                                                              *)
THEOREM SentAlwaysQueued == DeliverySpec => []SentMeansQueued
<1>1. DeliveryInit => SentInv
  BY DEF DeliveryInit, SentInv, AnswersTrue, CallsComposed, SentHaveArrived
<1>2. CoreInv /\ SentInv /\ [DeliveryNext]_vars => SentInv'
  BY SentStep
<1>3. SentInv => SentMeansQueued
  BY DEF SentInv, SentHaveArrived, HasArrived, Composed, HasEntered,
         SentMeansQueued, InItsMailbox
<1> QED
  BY CoreAlways, <1>1, <1>2, <1>3, PTL DEF DeliverySpec
-----------------------------------------------------------------------------
(* The ids of messages, which tell the pushed ones apart. *)
Ids(s) == [i \in 1..Len(s) |-> s[i].id]

LEMMA IdsType ==
    ASSUME NEW s \in Seq(Queued)
    PROVE  Ids(s) \in Seq(Msgs) /\ Len(Ids(s)) = Len(s)
<1>1. Len(s) \in Nat /\ \A i \in 1..Len(s) : s[i] \in Queued
  BY LenProperties, ElementOfSeq
<1>2. \A i \in 1..Len(s) : s[i].id \in Msgs
  BY <1>1 DEF Queued
<1>3. Ids(s) \in [1..Len(s) -> Msgs]
  BY <1>2 DEF Ids
<1> QED
  BY <1>1, <1>3

LEMMA IdsEmpty == Ids(<< >>) = << >>
<1>1. << >> \in Seq(Queued) /\ Len(<< >>) = 0
  BY EmptySeq
<1>2. Ids(<< >>) \in Seq(Msgs) /\ Len(Ids(<< >>)) = 0
  BY <1>1, IdsType
<1> QED
  BY <1>2, EmptySeq

LEMMA IdsConcat ==
    ASSUME NEW r \in Seq(Queued), NEW s \in Seq(Queued)
    PROVE  Ids(r \o s) = Ids(r) \o Ids(s)
<1>1. /\ r \o s \in Seq(Queued) /\ Len(r \o s) = Len(r) + Len(s)
      /\ Len(r) \in Nat /\ Len(s) \in Nat
      /\ \A i \in 1..(Len(r) + Len(s)) :
            (r \o s)[i] = IF i <= Len(r) THEN r[i] ELSE s[i - Len(r)]
  BY LenProperties, ConcatProperties
<1>2. /\ Ids(r) \in Seq(Msgs) /\ Len(Ids(r)) = Len(r)
      /\ Ids(s) \in Seq(Msgs) /\ Len(Ids(s)) = Len(s)
      /\ Ids(r \o s) \in Seq(Msgs) /\ Len(Ids(r \o s)) = Len(r) + Len(s)
  BY <1>1, IdsType
<1>3. /\ Ids(r) \o Ids(s) \in Seq(Msgs) /\ Len(Ids(r) \o Ids(s)) = Len(r) + Len(s)
      /\ \A i \in 1..(Len(r) + Len(s)) :
            (Ids(r) \o Ids(s))[i] = IF i <= Len(r) THEN Ids(r)[i] ELSE Ids(s)[i - Len(r)]
  BY <1>2, ConcatProperties
<1>4. \A i \in 1..(Len(r) + Len(s)) : Ids(r \o s)[i] = (Ids(r) \o Ids(s))[i]
  <2> SUFFICES ASSUME NEW i \in 1..(Len(r) + Len(s))
               PROVE  Ids(r \o s)[i] = (Ids(r) \o Ids(s))[i]
    OBVIOUS
  <2>1. Ids(r \o s)[i] = (r \o s)[i].id
    BY <1>1 DEF Ids
  <2>2. CASE i <= Len(r)
    <3>1. i \in 1..Len(r) /\ Ids(r)[i] = r[i].id
      BY <1>1, <2>2 DEF Ids
    <3> QED
      BY <1>1, <1>3, <2>1, <2>2, <3>1
  <2>3. CASE ~(i <= Len(r))
    <3>1. i - Len(r) \in 1..Len(s)
      BY <1>1, <2>3
    <3>2. Ids(s)[i - Len(r)] = s[i - Len(r)].id
      BY <3>1 DEF Ids
    <3> QED
      BY <1>1, <1>3, <2>1, <2>3, <3>2
  <2> QED
    BY <2>2, <2>3
<1> QED
  BY <1>2, <1>3, <1>4, SeqEqual

LEMMA IdsAppend ==
    ASSUME NEW s \in Seq(Queued), NEW q \in Queued
    PROVE  Ids(Append(s, q)) = Append(Ids(s), q.id)
<1>1. /\ Append(s, q) \in Seq(Queued) /\ Len(Append(s, q)) = Len(s) + 1
      /\ Append(s, q)[Len(s) + 1] = q /\ Len(s) \in Nat
      /\ \A i \in 1..Len(s) : Append(s, q)[i] = s[i]
  BY LenProperties, AppendProperties
<1>2. q.id \in Msgs
  BY DEF Queued
<1>3. /\ Ids(s) \in Seq(Msgs) /\ Len(Ids(s)) = Len(s)
      /\ Ids(Append(s, q)) \in Seq(Msgs) /\ Len(Ids(Append(s, q))) = Len(s) + 1
  BY <1>1, IdsType
<1>4. /\ Append(Ids(s), q.id) \in Seq(Msgs) /\ Len(Append(Ids(s), q.id)) = Len(s) + 1
      /\ Append(Ids(s), q.id)[Len(s) + 1] = q.id
      /\ \A i \in 1..Len(s) : Append(Ids(s), q.id)[i] = Ids(s)[i]
  BY <1>2, <1>3, AppendProperties
<1>5. \A i \in 1..(Len(s) + 1) : Ids(Append(s, q))[i] = Append(Ids(s), q.id)[i]
  <2> SUFFICES ASSUME NEW i \in 1..(Len(s) + 1)
               PROVE  Ids(Append(s, q))[i] = Append(Ids(s), q.id)[i]
    OBVIOUS
  <2>1. Ids(Append(s, q))[i] = Append(s, q)[i].id
    BY <1>1 DEF Ids
  <2>2. CASE i \in 1..Len(s)
    BY <1>1, <1>4, <2>1, <2>2 DEF Ids
  <2>3. CASE i = Len(s) + 1
    BY <1>1, <1>4, <2>1, <2>3
  <2>4. i \in 1..Len(s) \/ i = Len(s) + 1
    BY <1>1
  <2> QED
    BY <2>2, <2>3, <2>4
<1> QED
  BY <1>3, <1>4, <1>5, SeqEqual

(* Taking messages out and reading the ids commute, when the ids tell who  *)
(* is taken out.                                                           *)
LEMMA KeptIds ==
    ASSUME NEW S, NEW J
    PROVE  \A s \in Seq(Queued) : (\A q : In(q, s) => (q \in S <=> q.id \in J))
              => Ids(Kept(s, S)) = Kept(Ids(s), J)
<1> DEFINE T == {s \in Seq(Queued) : (\A q : In(q, s) => (q \in S <=> q.id \in J))
                   => Ids(Kept(s, S)) = Kept(Ids(s), J)}
<1>1. << >> \in T
  BY EmptySeq, KeptEmpty, IdsEmpty
<1>2. ASSUME NEW s \in Seq(Queued), NEW q \in Queued, s \in T
      PROVE  Append(s, q) \in T
  <2>1. Append(s, q) \in Seq(Queued) /\ Kept(s, S) \in Seq(Queued)
        /\ Ids(s) \in Seq(Msgs) /\ q.id \in Msgs
    BY AppendProperties, KeptType, IdsType DEF Queued
  <2> SUFFICES ASSUME \A x : In(x, Append(s, q)) => (x \in S <=> x.id \in J)
               PROVE  Ids(Kept(Append(s, q), S)) = Kept(Ids(Append(s, q)), J)
    BY <2>1
  <2>2. \A x : In(x, Append(s, q)) <=> In(x, s) \/ x = q
    BY InAppend
  <2>3. Ids(Kept(s, S)) = Kept(Ids(s), J) /\ (q \in S <=> q.id \in J)
    BY <1>2, <2>2
  <2>4. Kept(Append(s, q), S) = IF q \in S THEN Append(Kept(s, S), q) ELSE Kept(s, S)
    BY KeptAppend
  <2>5. Ids(Append(s, q)) = Append(Ids(s), q.id)
    BY IdsAppend
  <2>6. Kept(Append(Ids(s), q.id), J) =
           IF q.id \in J THEN Append(Kept(Ids(s), J), q.id) ELSE Kept(Ids(s), J)
    <3>1. PICK t \in Seq(Msgs), m \in Msgs : t = Ids(s) /\ m = q.id
      BY <2>1
    <3>2. Kept(Append(t, m), J) = IF m \in J THEN Append(Kept(t, J), m) ELSE Kept(t, J)
      BY KeptAppend
    <3> QED
      BY <3>1, <3>2
  <2>7. Ids(Append(Kept(s, S), q)) = Append(Ids(Kept(s, S)), q.id)
    BY <2>1, IdsAppend
  <2> QED
    BY <2>3, <2>4, <2>5, <2>6, <2>7
<1> HIDE DEF T
<1>3. Seq(Queued) \subseteq T
  BY <1>1, <1>2, SeqSetInduction
<1> QED
  BY <1>3 DEF T

ReturnedIds(u) == [i \in 1..Len(returned[u]) |-> returned[u][i].msg.id]

LEMMA ReturnedIdsAre ==
    ASSUME TypeOK, NEW u \in Users
    PROVE  ReturnedIds(u) = Ids(Payloads(returned[u])) /\ ReturnedIds(u) \in Seq(Msgs)
<1>1. PICK r \in Seq(Returns) : r = returned[u]
  BY UserTypes
<1>2. Len(r) \in Nat /\ Len(Payloads(r)) = Len(r) /\ Payloads(r) \in Seq(Queued)
  BY LenProperties, PayloadsType
<1>3. Ids(Payloads(r)) = [i \in 1..Len(r) |-> r[i].msg.id]
  BY <1>2 DEF Ids, Payloads
<1>4. Ids(Payloads(r)) \in Seq(Msgs)
  BY <1>2, IdsType
<1> QED
  BY <1>1, <1>3, <1>4 DEF ReturnedIds

(* The ids a user has been handed stand, followed by those that wait, in   *)
(* the order they were pushed.                                             *)
LEMMA HandedInOrder ==
    ASSUME QueueInv, NEW u \in Users
    PROVE  /\ Ids(pushed[u]) \in Seq(Msgs) /\ Injective(Ids(pushed[u]))
           /\ ReturnedIds(u) \in Seq(Msgs) /\ Ids(messages[u]) \in Seq(Msgs)
           /\ Injective(ReturnedIds(u) \o Ids(messages[u]))
           /\ \E J : ReturnedIds(u) \o Ids(messages[u]) = Kept(Ids(pushed[u]), J)
<1>1. /\ TypeOK /\ PushedOnce /\ pushed[u] \in Seq(Queued) /\ messages[u] \in Seq(Queued)
      /\ Payloads(returned[u]) \in Seq(Queued)
  BY UserTypes DEF QueueInv, Traced
<1>2. /\ Ids(pushed[u]) \in Seq(Msgs) /\ Ids(messages[u]) \in Seq(Msgs)
      /\ Len(Ids(pushed[u])) = Len(pushed[u])
      /\ ReturnedIds(u) = Ids(Payloads(returned[u])) /\ ReturnedIds(u) \in Seq(Msgs)
  BY <1>1, IdsType, ReturnedIdsAre
<1>3. Injective(Ids(pushed[u]))
  BY <1>1, <1>2 DEF Injective, Ids, PushedOnce
<1> DEFINE W == Queued \ dropped
           J == {q.id : q \in {x \in W : In(x, pushed[u])}}
<1>4. \A q : In(q, pushed[u]) => (q \in W <=> q.id \in J)
  <2> SUFFICES ASSUME NEW q, In(q, pushed[u]), q.id \in J PROVE q \in W
    OBVIOUS
  <2>1. PICK x \in W : In(x, pushed[u]) /\ x.id = q.id
    OBVIOUS
  <2>2. x = q
    BY <1>1, <2>1 DEF In, PushedOnce
  <2> QED
    BY <2>1, <2>2
<1>5. Kept(pushed[u], W) = Payloads(returned[u]) \o messages[u]
  BY OrderOf DEF QueueInv
<1> HIDE DEF W, J
<1>6. Ids(Kept(pushed[u], W)) = Kept(Ids(pushed[u]), J)
  BY <1>1, <1>4, KeptIds
<1>7. Ids(Payloads(returned[u]) \o messages[u])
         = Ids(Payloads(returned[u])) \o Ids(messages[u])
  BY <1>1, IdsConcat
<1>8. ReturnedIds(u) \o Ids(messages[u]) = Kept(Ids(pushed[u]), J)
  BY <1>2, <1>5, <1>6, <1>7
<1>9. Injective(Kept(Ids(pushed[u]), J))
  BY <1>2, <1>3, KeptInjective
<1> QED
  BY <1>2, <1>3, <1>8, <1>9
-----------------------------------------------------------------------------
(* What a user has seen and is about to see. *)
Pending(u) == IF answer[u] = None THEN << >> ELSE Ids(answer[u].msgs)
Seen(u) == shown[u] \o Pending(u)

LEMMA SeenTypes ==
    ASSUME ClientTypes, NEW u \in Users
    PROVE  Pending(u) \in Seq(Msgs) /\ shown[u] \in Seq(Msgs) /\ Seen(u) \in Seq(Msgs)
<1>1. shown[u] \in Seq(Msgs)
  BY DEF ClientTypes
<1>2. Pending(u) \in Seq(Msgs)
  <2>1. CASE answer[u] = None
    BY <2>1, EmptySeq DEF Pending
  <2>2. CASE answer[u] # None
    <3>1. answer[u].msgs \in Seq(Queued)
      BY <2>2 DEF ClientTypes, Answers
    <3> QED
      BY <2>2, <3>1, IdsType DEF Pending
  <2> QED
    BY <2>1, <2>2
<1> QED
  BY <1>1, <1>2, ConcatProperties DEF Seen

(* The three ways a step can change what a user is handed and sees:        *)
(* nothing, an answer in the socket is lost, or a Drain hands more over.   *)
SeenStays(u) ==
    ReturnedIds(u)' = ReturnedIds(u) /\ Seen(u)' = Seen(u)

SeenLost(u) ==
    /\ ReturnedIds(u)' = ReturnedIds(u) /\ Seen(u)' = shown[u]
    /\ Pending(u) = << >> \/ u \in faulted' \/ Current(u) \in missed

SeenGrows(u) ==
    \E f \in Seq(Msgs) :
        /\ ReturnedIds(u)' = ReturnedIds(u) \o f
        /\ \/ Pending(u) = << >> /\ Seen(u)' = shown[u] \o f
           \/ /\ Seen(u)' = Seen(u)
              /\ serving # None /\ serving.sess[1] = u /\ place[u] # "working"

SeenSteps(u) == SeenStays(u) \/ SeenLost(u) \/ SeenGrows(u)

LEMMA NothingSeen ==
    ASSUME NEW u \in Users, returned'[u] = returned[u], shown'[u] = shown[u],
           answer'[u] = answer[u]
    PROVE  SeenSteps(u)
BY DEF SeenSteps, SeenStays, ReturnedIds, Seen, Pending

LEMMA ReturnSeen ==
    ASSUME AgreementInv, NEW u \in Users, NEW w \in Users, NEW v, Return(w, v),
           UNCHANGED returned,
           \/ /\ place[w] = "answered" /\ shown' = [shown EXCEPT ![w] = Emitted(w)]
           \/ /\ shown' = shown
              /\ Pending(w) = << >> \/ w \in faulted' \/ Current(w) \in missed
    PROVE  SeenSteps(u)
<1>1. /\ answer \in [Users -> Answers \cup {None}] /\ shown \in [Users -> Seq(Msgs)]
      /\ answer' = [answer EXCEPT ![w] = None]
  BY DEF AgreementInv, ClientTypes, Return
<1>2. CASE u # w
  <2>1. answer'[u] = answer[u] /\ shown'[u] = shown[u] /\ returned'[u] = returned[u]
    BY <1>1, <1>2
  <2> QED
    BY <2>1, NothingSeen
<1>3. CASE u = w
  <2>1. Pending(u)' = << >> /\ ReturnedIds(u)' = ReturnedIds(u)
    BY <1>1, <1>3 DEF Pending, ReturnedIds
  <2>2. CASE place[w] = "answered" /\ shown' = [shown EXCEPT ![w] = Emitted(w)]
    <3>1. answer[u] # None
      BY <1>3, <2>2 DEF AgreementInv, ClientTypes
    <3>2. shown'[u] = Seen(u)
      BY <1>1, <1>3, <2>2, <3>1 DEF Emitted, Seen, Pending, Ids
    <3>3. Seen(u) \o << >> = Seen(u)
      BY SeenTypes, ConcatEmptySeq DEF AgreementInv
    <3> QED
      BY <2>1, <3>2, <3>3 DEF SeenSteps, SeenStays, Seen
  <2>3. CASE /\ shown' = shown
             /\ Pending(w) = << >> \/ w \in faulted' \/ Current(w) \in missed
    <3>1. shown[u] \o << >> = shown[u]
      BY SeenTypes, ConcatEmptySeq DEF AgreementInv
    <3>2. Seen(u)' = shown[u]
      BY <2>1, <2>3, <3>1 DEF Seen
    <3> QED
      BY <1>3, <2>1, <2>3, <3>2 DEF SeenSteps, SeenLost
  <2> QED
    BY <2>2, <2>3
<1> QED
  BY <1>2, <1>3

LEMMA AnswerSeen ==
    ASSUME AgreementInv, NEW u \in Users, NEW job \in Served, NEW waiting \in BOOLEAN,
           NEW ok \in BOOLEAN, NEW msgs \in Seq(Queued), Answer(job, waiting, ok, msgs),
           waiting => place[job.sess[1]] \in {"sent", "working"}
    PROVE  /\ shown' = shown
           /\ waiting /\ u = job.sess[1] => Pending(u) = << >> /\ Pending(u)' = Ids(msgs)
           /\ ~(waiting /\ u = job.sess[1]) => answer'[u] = answer[u]
<1>1. PICK w \in Users : w = job.sess[1]
  BY ServedFields
<1>2. answer \in [Users -> Answers \cup {None}] /\ shown' = shown
  BY DEF AgreementInv, ClientTypes, Answer
<1>3. ASSUME waiting, u = w
      PROVE  Pending(u) = << >> /\ Pending(u)' = Ids(msgs)
  <2>1. answer[u] = None
    BY <1>1, <1>3 DEF AgreementInv, ClientTypes
  <2>2. place' = [place EXCEPT ![w] = "answered"]
        /\ answer' = [answer EXCEPT ![w] = [ok |-> ok, msgs |-> msgs]]
    BY <1>1, <1>3 DEF Answer
  <2>3. answer'[u].msgs = msgs
    BY <1>2, <1>3, <2>2
  <2>4. answer'[u] # None
    <3>1. [ok |-> ok, msgs |-> msgs] # None
      BY NoneAssumption DEF NoneAssumption, Answers
    <3> QED
      BY <1>2, <1>3, <2>2, <3>1
  <2> QED
    BY <2>1, <2>3, <2>4 DEF Pending
<1>4. ASSUME ~(waiting /\ u = w)
      PROVE  answer'[u] = answer[u]
  BY <1>1, <1>2, <1>4 DEF Answer
<1> QED
  BY <1>1, <1>2, <1>3, <1>4

LEMMA PullSeen ==
    ASSUME CoreInv, FinishPull, NEW u \in Users
    PROVE  SeenSteps(u)
<1>1. /\ AgreementInv /\ TypeOK /\ serving # None /\ serving \in Served /\ Drain(Worker)
      /\ op[Worker].who = serving.sess[1]
      /\ Answer(serving, StillWaits, TRUE,
                Fresh(messages[op[Worker].who], op[Worker].at))
  <2>1. ~Push(Worker) \/ ~Drain(Worker)
    BY DEF Push, Drain
  <2> QED
    BY <2>1, FinishFacts DEF CoreInv, QueueInv, FinishPull
<1>2. PICK job \in Served : job = serving
  BY <1>1
<1>3. PICK w \in Users : w = job.sess[1] /\ w = op[Worker].who
  BY <1>1, <1>2, ServedFields
<1>4. PICK f \in Seq(Queued) : f = Fresh(messages[w], op[Worker].at)
  BY <1>1, UserTypes, FreshType
<1>5. PICK k \in BOOLEAN : k = StillWaits
  <2>1. StillWaits \in BOOLEAN
    BY <1>2, ServedFields DEF StillWaits
  <2> QED
    BY <2>1
<1>6. k <=> job.waiting /\ place[w] = "working"
  BY <1>2, <1>3, <1>5 DEF StillWaits
<1>7. Answer(job, k, TRUE, f)
  BY <1>1, <1>2, <1>3, <1>4, <1>5 DEF Answer
<1>8. /\ shown' = shown
      /\ k /\ u = w => Pending(u) = << >> /\ Pending(u)' = Ids(f)
      /\ ~(k /\ u = w) => answer'[u] = answer[u]
  <2>1. k => place[job.sess[1]] \in {"sent", "working"}
    BY <1>3, <1>6
  <2>2. /\ shown' = shown
        /\ k /\ u = job.sess[1] => Pending(u) = << >> /\ Pending(u)' = Ids(f)
        /\ ~(k /\ u = job.sess[1]) => answer'[u] = answer[u]
    BY <1>1, <1>7, <2>1, AnswerSeen
  <2> QED
    BY <1>3, <2>2
<1>9. /\ Payloads(returned'[w]) = Payloads(returned[w]) \o f
      /\ \A v \in Users \ {w} : returned'[v] = returned[v]
  BY <1>1, <1>3, <1>4, WorkerIsProc, DrainReturns
<1>10. CASE u # w
  BY <1>8, <1>9, <1>10, NothingSeen
<1>11. CASE u = w
  <2>1. ReturnedIds(u)' = Ids(Payloads(returned'[u]))
    <3>1. TypeOK'
      BY WorkerIsProc, <1>1, DrainKeepsInv DEF CoreInv, QueueInv
    <3>2. (ReturnedIds(u) = Ids(Payloads(returned[u])))'
      <4>1. returned'[u] \in Seq(Returns)
        BY <3>1 DEF TypeOK, Returns
      <4>2. PICK r \in Seq(Returns) : r = returned'[u]
        BY <4>1
      <4>3. Len(Payloads(r)) = Len(r)
        BY PayloadsType
      <4>4. Ids(Payloads(r)) = [i \in 1..Len(r) |-> r[i].msg.id]
        BY <4>3 DEF Ids, Payloads
      <4> QED
        BY <4>2, <4>4 DEF ReturnedIds
    <3> QED
      BY <3>2
  <2>2. PICK g \in Seq(Msgs) : g = Ids(f)
    BY IdsType
  <2>3. ReturnedIds(u)' = ReturnedIds(u) \o g
    <3>1. Ids(Payloads(returned[u]) \o f) = Ids(Payloads(returned[u])) \o Ids(f)
      BY <1>1, UserTypes, IdsConcat
    <3>2. ReturnedIds(u) = Ids(Payloads(returned[u]))
      BY <1>1, ReturnedIdsAre
    <3> QED
      BY <1>9, <1>11, <2>1, <2>2, <3>1, <3>2
  <2>4. CASE k
    <3>1. Pending(u) = << >> /\ Seen(u)' = shown[u] \o g
      BY <1>8, <1>11, <2>2, <2>4 DEF Seen
    <3> QED
      BY <2>3, <3>1 DEF SeenSteps, SeenGrows
  <2>5. CASE ~k
    <3>1. answer'[u] = answer[u] /\ Seen(u)' = Seen(u)
      BY <1>8, <2>5 DEF Seen, Pending
    <3>2. place[u] # "working"
      BY <1>1, <1>2, <1>6, <1>11, <2>5 DEF AgreementInv, Waiting
    <3> QED
      BY <1>1, <1>2, <1>3, <1>11, <2>3, <3>1, <3>2 DEF SeenSteps, SeenGrows
  <2> QED
    BY <2>4, <2>5
<1> QED
  BY <1>10, <1>11

LEMMA StepSeen ==
    ASSUME CoreInv, SentInv, [DeliveryNext]_vars, NEW u \in Users
    PROVE  SeenSteps(u)
<1>1. AgreementInv /\ TypeOK
  BY DEF CoreInv, QueueInv
<1>2. ASSUME UNCHANGED <<returned, shown, answer>>
      PROVE  SeenSteps(u)
  BY <1>2, NothingSeen
<1>3. ASSUME NEW w \in Users, NEW to \in Users, NEW m \in Msgs, SendText(w, to, m)
      PROVE  SeenSteps(u)
  BY <1>2, <1>3 DEF SendText, Transmit, queueVars
<1>4. ASSUME NEW w \in Users, Poll(w) \/ Relogin(w) \/ Refuse(w)
      PROVE  SeenSteps(u)
  BY <1>2, <1>4 DEF Poll, Transmit, Relogin, Refuse, queueVars
<1>5. ASSUME NEW w \in Users, Receive(w)
      PROVE  SeenSteps(u)
  <2>1. place[w] = "answered" /\ returned' = returned
    BY <1>5 DEF Receive, queueVars
  <2>2. CASE answer[w].ok /\ Current(w) \notin missed
    <3>1. Return(w, "sent") /\ shown' = [shown EXCEPT ![w] = Emitted(w)]
      BY <1>5, <2>2 DEF Receive
    <3> QED
      BY <1>1, <2>1, <3>1, ReturnSeen
  <2>3. CASE ~(answer[w].ok /\ Current(w) \notin missed)
    <3>1. Return(w, "failed") /\ shown' = shown
      BY <1>5, <2>3 DEF Receive
    <3>2. Pending(w) = << >> \/ Current(w) \in missed
      <4>1. answer[w] # None
        BY <1>1, <2>1 DEF AgreementInv, ClientTypes
      <4>2. ~answer[w].ok => answer[w].msgs = << >>
        BY <4>1 DEF SentInv, AnswersTrue
      <4> QED
        BY <2>3, <4>1, <4>2, IdsEmpty DEF Pending
    <3> QED
      BY <1>1, <2>1, <3>1, <3>2, ReturnSeen
  <2> QED
    BY <2>2, <2>3
<1>6. ASSUME NEW w \in Users, Refused(w)
      PROVE  SeenSteps(u)
  <2>1. Return(w, "failed") /\ shown' = shown /\ returned' = returned /\ place[w] = "closed"
    BY <1>6 DEF Refused, queueVars
  <2>2. Pending(w) = << >>
    BY <1>1, <2>1 DEF AgreementInv, ClientTypes, Pending
  <2> QED
    BY <1>1, <2>1, <2>2, ReturnSeen
<1>7. ASSUME NEW w \in Users, GiveUp(w)
      PROVE  SeenSteps(u)
  <2>1. Return(w, "failed") /\ shown' = shown /\ returned' = returned /\ w \in faulted'
    BY <1>7 DEF GiveUp, queueVars
  <2> QED
    BY <1>1, <2>1, ReturnSeen
<1>8. ASSUME NEW s \in Sessions, NEW i, Run(s, i)
      PROVE  SeenSteps(u)
  <2>1. PICK job \in Served :
           /\ job.sess = s /\ job.waiting = IsAwaited(s)
           /\ \/ /\ \/ StartEnqueue(Worker, job.req.to, job.req.msg, 0)
                    \/ StartDrain(Worker, s[1])
                 /\ UNCHANGED <<answer, shown>>
              \/ Answer(job, job.waiting, FALSE, << >>) /\ UNCHANGED queueVars
              \/ UNCHANGED <<returned, shown, answer>>
    BY <1>1, <1>8, RunCases DEF RunCloses, queueVars
  <2>2. CASE /\ \/ StartEnqueue(Worker, job.req.to, job.req.msg, 0)
                \/ StartDrain(Worker, s[1])
             /\ UNCHANGED <<answer, shown>>
    BY <1>2, <2>2 DEF StartEnqueue, StartDrain
  <2>3. CASE Answer(job, job.waiting, FALSE, << >>) /\ UNCHANGED queueVars
    <3>1. job.waiting \in BOOLEAN /\ << >> \in Seq(Queued) /\ returned' = returned
      BY <2>3, ServedFields, EmptySeq DEF queueVars
    <3>2. job.waiting => place[job.sess[1]] \in {"sent", "working"}
      BY <2>1 DEF IsAwaited
    <3>3. /\ shown' = shown
          /\ job.waiting /\ u = job.sess[1] => Pending(u) = << >> /\ Pending(u)' = Ids(<< >>)
          /\ ~(job.waiting /\ u = job.sess[1]) => answer'[u] = answer[u]
      BY <1>1, <2>3, <3>1, <3>2, AnswerSeen
    <3>4. Pending(u)' = Pending(u)
      BY <3>3, IdsEmpty DEF Pending
    <3> QED
      BY <3>1, <3>3, <3>4 DEF SeenSteps, SeenStays, Seen, ReturnedIds
  <2> QED
    BY <1>2, <2>1, <2>2, <2>3
<1>9. ASSUME FinishPush
      PROVE  SeenSteps(u)
  <2>1. Push(Worker) /\ Answer(serving, StillWaits, TRUE, << >>)
    BY <1>9 DEF FinishPush
  <2>2. PICK job \in Served : job = serving
    BY <1>9, FinishFacts
  <2>3. PICK k \in BOOLEAN : k = StillWaits
    <3>1. StillWaits \in BOOLEAN
      BY <2>2, ServedFields DEF StillWaits
    <3> QED
      BY <3>1
  <2>4. Answer(job, k, TRUE, << >>) /\ (k => place[job.sess[1]] \in {"sent", "working"})
    BY <2>1, <2>2, <2>3 DEF Answer, StillWaits
  <2>5. << >> \in Seq(Queued) /\ returned' = returned
    BY <2>1, EmptySeq DEF Push
  <2>6. /\ shown' = shown
        /\ k /\ u = job.sess[1] => Pending(u) = << >> /\ Pending(u)' = Ids(<< >>)
        /\ ~(k /\ u = job.sess[1]) => answer'[u] = answer[u]
    BY <1>1, <2>4, <2>5, AnswerSeen
  <2>7. Pending(u)' = Pending(u)
    BY <2>6, IdsEmpty DEF Pending
  <2> QED
    BY <2>5, <2>6, <2>7 DEF SeenSteps, SeenStays, Seen, ReturnedIds
<1>10. ASSUME FinishPull
       PROVE  SeenSteps(u)
  BY <1>10, PullSeen
<1>11. ASSUME \/ \E s \in Sessions : SessionEnds(s)
              \/ Clean \/ Clock \/ UNCHANGED vars
       PROVE  SeenSteps(u)
  BY <1>1, <1>2, <1>11, QuietSteps DEF Quiet
<1> QED
  BY <1>3, <1>4, <1>5, <1>6, <1>7, <1>8, <1>9, <1>10, <1>11 DEF DeliveryNext
-----------------------------------------------------------------------------
(* A user whose round trips all held has no frame the server has yet to    *)
(* run but the one its client waits for, and has missed no answer.         *)
Unbroken(u) ==
    /\ \A s \in Sessions : s[1] = u =>
          /\ s \notin missed
          /\ Len(unrun[s]) = IF s = Current(u) /\ place[u] = "sent" THEN 1 ELSE 0
    /\ serving # None /\ serving.sess[1] = u => place[u] = "working"

UnfaultedInv == \A u \in Users \ faulted : Unbroken(u)

LEMMA OthersStayUnbroken ==
    ASSUME NEW u \in Users, Unbroken(u), place'[u] = place[u], session'[u] = session[u],
           \A s \in Sessions : s[1] = u =>
              (s \in missed' => s \in missed) /\ unrun'[s] = unrun[s],
           serving' # None /\ serving'.sess[1] = u =>
              serving # None /\ serving.sess[1] = u
    PROVE  Unbroken(u)'
<1>1. Current(u)' = Current(u)
  BY DEF Current
<1> QED
  BY <1>1 DEF Unbroken

LEMMA TransmitUnbroken ==
    ASSUME AgreementInv, NEW w \in Users, NEW req \in Requests, Transmit(w, req),
           NEW u \in Users, Unbroken(u)
    PROVE  Unbroken(u)'
<1>1. PICK c \in Sessions : c = Current(w) /\ c[1] = w
  BY SessionFields DEF AgreementInv, Current
<1>2. /\ place[w] = "idle" /\ place' = [place EXCEPT ![w] = "sent"]
      /\ unrun' = [unrun EXCEPT ![c] = Append(@, req)]
      /\ UNCHANGED <<session, missed, serving>>
      /\ unrun \in [Sessions -> Seq(Requests)] /\ place \in [Users -> {"idle", "sent", "working", "answered", "closed"}]
  BY <1>1 DEF Transmit, AgreementInv, ClientTypes, SessionTypes
<1>3. CASE u # w
  <2>1. place'[u] = place[u] /\ \A s \in Sessions : s[1] = u => unrun'[s] = unrun[s]
    BY <1>1, <1>2, <1>3
  <2> QED
    BY <1>2, <2>1, OthersStayUnbroken
<1>4. CASE u = w
  <2>1. place'[u] = "sent" /\ Current(u)' = c /\ c = Current(u)
    BY <1>1, <1>2, <1>4 DEF Current
  <2>2. \A s \in Sessions : s[1] = u => s \notin missed /\ Len(unrun[s]) = 0
    BY <1>2, <1>4 DEF Unbroken
  <2>3. Len(unrun'[c]) = 1 /\ \A s \in Sessions \ {c} : unrun'[s] = unrun[s]
    <3>1. unrun[c] \in Seq(Requests) /\ Len(unrun[c]) = 0
      BY <1>1, <1>2, <1>4, <2>2
    <3>2. Len(Append(unrun[c], req)) = 1
      BY <3>1, AppendProperties
    <3> QED
      BY <1>2, <3>2
  <2>4. ~(serving # None /\ serving.sess[1] = u)
    BY <1>2, <1>4 DEF Unbroken
  <2>5. \A s \in Sessions : s[1] = u =>
           s \notin missed /\ Len(unrun'[s]) = IF s = c THEN 1 ELSE 0
    BY <2>2, <2>3
  <2> QED
    BY <1>2, <2>1, <2>4, <2>5 DEF Unbroken
<1> QED
  BY <1>3, <1>4

LEMMA ReturnUnbroken ==
    ASSUME AgreementInv, NEW w \in Users, NEW v, Return(w, v),
           NEW u \in Users, Unbroken(u), UNCHANGED <<session, unrun, serving>>,
           \/ u # w /\ missed' \subseteq missed \cup {Current(w)}
           \/ missed' = missed /\ place[w] \in {"answered", "closed"}
    PROVE  Unbroken(u)'
<1>1. /\ place'[w] = "idle" /\ \A x \in Users \ {w} : place'[x] = place[x]
  BY DEF Return, AgreementInv, ClientTypes
<1>2. CASE u # w
  <2>1. \A s \in Sessions : s[1] = u => (s \in missed' => s \in missed)
    BY <1>2 DEF Current
  <2> QED
    BY <1>1, <1>2, <2>1, OthersStayUnbroken
<1>3. CASE u = w /\ missed' = missed /\ place[w] \in {"answered", "closed"}
  <2>1. /\ \A s \in Sessions : s[1] = u => s \notin missed /\ Len(unrun[s]) = 0
        /\ ~(serving # None /\ serving.sess[1] = u)
    BY <1>3 DEF Unbroken
  <2> QED
    BY <1>1, <1>3, <2>1 DEF Unbroken
<1> QED
  BY <1>2, <1>3

LEMMA ReloginUnbroken ==
    ASSUME AgreementInv, NEW w \in Users, Relogin(w), NEW u \in Users, Unbroken(u)
    PROVE  Unbroken(u)'
<1>1. /\ place[w] = "idle" /\ session' = [session EXCEPT ![w] = @ + 1]
      /\ UNCHANGED <<place, unrun, missed, serving>>
  BY DEF Relogin
<1>2. CASE u # w
  <2>1. session'[u] = session[u]
    BY <1>1, <1>2 DEF AgreementInv, SessionTypes
  <2> QED
    BY <1>1, <2>1, OthersStayUnbroken
<1>3. CASE u = w
  BY <1>1, <1>3 DEF Unbroken
<1> QED
  BY <1>2, <1>3

LEMMA RefuseUnbroken ==
    ASSUME AgreementInv, NEW w \in Users, Refuse(w), NEW u \in Users, Unbroken(u)
    PROVE  Unbroken(u)'
<1>1. /\ place[w] = "sent" /\ ~IsAwaited(Current(w))
      /\ place' = [place EXCEPT ![w] = "closed"]
      /\ UNCHANGED <<session, unrun, missed, serving>>
  BY DEF Refuse
<1>2. u # w
  <2>1. Current(w) \in Sessions /\ Current(w)[1] = w
    BY SessionFields DEF AgreementInv, Current
  <2> QED
    BY <1>1, <2>1 DEF Unbroken, IsAwaited
<1>3. place'[u] = place[u]
  BY <1>1, <1>2 DEF AgreementInv, ClientTypes
<1> QED
  BY <1>1, <1>3, OthersStayUnbroken

LEMMA RunUnbroken ==
    ASSUME AgreementInv, NEW s \in Sessions, NEW i, Run(s, i), NEW u \in Users, Unbroken(u)
    PROVE  Unbroken(u)'
<1>1. PICK w \in Users : w = s[1]
  BY SessionFields
<1>2. /\ serving = None /\ Len(unrun[s]) \in Nat \ {0}
      /\ Len(unrun'[s]) = Len(unrun[s]) - 1
      /\ \A t \in Sessions \ {s} : unrun'[t] = unrun[t]
  BY RunTakesFirst
<1>3. PICK job \in Served :
         /\ job.sess = s /\ job.waiting = IsAwaited(s)
         /\ \/ /\ serving' = job
               /\ place' = IF job.waiting THEN [place EXCEPT ![w] = "working"] ELSE place
               /\ UNCHANGED <<session, missed>>
            \/ Answer(job, job.waiting, FALSE, << >>)
            \/ RunCloses(s, job)
  BY <1>1, RunCases
<1>4. place \in [Users -> {"idle", "sent", "working", "answered", "closed"}]
  BY DEF AgreementInv, ClientTypes
<1>5. CASE u # w
  <2>1. \A t \in Sessions : t[1] = u => unrun'[t] = unrun[t]
    BY <1>1, <1>2, <1>5
  <2>2. CASE /\ serving' = job
             /\ place' = IF job.waiting THEN [place EXCEPT ![w] = "working"] ELSE place
             /\ UNCHANGED <<session, missed>>
    <3>1. place'[u] = place[u] /\ job.sess[1] # u
      BY <1>1, <1>3, <1>4, <1>5, <2>2
    <3> QED
      BY <2>1, <2>2, <3>1, OthersStayUnbroken
  <2>3. CASE Answer(job, job.waiting, FALSE, << >>)
    <3>1. /\ serving' = None /\ session' = session /\ place'[u] = place[u]
          /\ missed' = missed \/ missed' = missed \cup {s}
      BY <1>1, <1>3, <1>4, <1>5, <2>3 DEF Answer
    <3>2. \A t \in Sessions : t[1] = u => (t \in missed' => t \in missed)
      BY <1>1, <1>5, <3>1
    <3> QED
      BY <2>1, <3>1, <3>2, OthersStayUnbroken
  <2>4. CASE RunCloses(s, job)
    <3>1. place'[u] = place[u] /\ UNCHANGED <<serving, session, missed>>
      BY <1>1, <1>4, <1>5, <2>4 DEF RunCloses
    <3> QED
      BY <2>1, <3>1, OthersStayUnbroken
  <2> QED
    BY <1>3, <2>2, <2>3, <2>4
<1>6. CASE u = w
  <2>1. place[u] = "sent" /\ s = Current(u) /\ Len(unrun[s]) = 1
    BY <1>1, <1>2, <1>6 DEF Unbroken
  <2>2. job.waiting
    BY <1>1, <1>3, <1>6, <2>1 DEF IsAwaited
  <2>3. \A t \in Sessions : t[1] = u => t \notin missed /\ Len(unrun'[t]) = 0
    BY <1>2, <2>1 DEF Unbroken
  <2>4. CASE /\ serving' = job
             /\ place' = IF job.waiting THEN [place EXCEPT ![w] = "working"] ELSE place
             /\ UNCHANGED <<session, missed>>
    <3>1. place'[u] = "working"
      BY <1>4, <1>6, <2>2, <2>4
    <3> QED
      BY <2>3, <2>4, <3>1 DEF Unbroken
  <2>5. CASE Answer(job, job.waiting, FALSE, << >>)
    <3>1. place'[u] = "answered" /\ serving' = None /\ missed' = missed
      BY <1>1, <1>3, <1>4, <1>6, <2>2, <2>5 DEF Answer
    <3> QED
      BY <2>3, <3>1 DEF Unbroken
  <2>6. CASE RunCloses(s, job)
    <3>1. place'[u] = "closed" /\ serving' = None /\ missed' = missed
      BY <1>1, <1>2, <1>4, <1>6, <2>2, <2>6 DEF RunCloses
    <3> QED
      BY <2>3, <3>1 DEF Unbroken
  <2> QED
    BY <1>3, <2>4, <2>5, <2>6
<1> QED
  BY <1>5, <1>6

LEMMA FinishUnbroken ==
    ASSUME CoreInv, FinishPush \/ FinishPull, NEW u \in Users, Unbroken(u)
    PROVE  Unbroken(u)'
<1>1. /\ AgreementInv /\ serving # None /\ unrun' = unrun
  BY FinishFacts DEF CoreInv
<1>2. PICK job \in Served : job = serving
  BY FinishFacts
<1>3. PICK f \in Seq(Queued) : Answer(serving, StillWaits, TRUE, f)
  BY FinishTypes
<1>4. PICK w \in Users : w = job.sess[1]
  BY ServedFields
<1>5. /\ serving' = None /\ session' = session
      /\ IF StillWaits THEN place' = [place EXCEPT ![w] = "answered"] /\ missed' = missed
         ELSE place' = place /\ missed' = missed \cup {job.sess}
  BY <1>2, <1>3, <1>4 DEF Answer
<1>6. place \in [Users -> {"idle", "sent", "working", "answered", "closed"}]
  BY <1>1 DEF AgreementInv, ClientTypes
<1>7. CASE u # w
  <2>1. place'[u] = place[u]
    BY <1>5, <1>6, <1>7
  <2>2. \A t \in Sessions : t[1] = u => (t \in missed' => t \in missed)
    BY <1>4, <1>5, <1>7
  <2> QED
    BY <1>1, <1>5, <2>1, <2>2, OthersStayUnbroken
<1>8. CASE u = w
  <2>1. place[u] = "working"
    BY <1>1, <1>2, <1>4, <1>8 DEF Unbroken
  <2>2. StillWaits
    BY <1>1, <1>2, <1>4, <1>8, <2>1 DEF StillWaits, AgreementInv, Waiting
  <2>3. \A t \in Sessions : t[1] = u => t \notin missed /\ Len(unrun[t]) = 0
    BY <2>1 DEF Unbroken
  <2>4. place'[u] = "answered" /\ missed' = missed
    BY <1>5, <1>6, <1>8, <2>2
  <2> QED
    BY <1>1, <1>5, <2>3, <2>4 DEF Unbroken
<1> QED
  BY <1>7, <1>8

(* A user whose round trips have all held stays unbroken: what breaks one  *)
(* makes its user faulted.                                                 *)
LEMMA UnfaultedStep ==
    ASSUME CoreInv, UnfaultedInv, [DeliveryNext]_vars
    PROVE  UnfaultedInv'
<1>1. AgreementInv /\ TypeOK
  BY DEF CoreInv, QueueInv
<1> SUFFICES ASSUME NEW u \in Users, u \notin faulted'
             PROVE  Unbroken(u)'
  BY DEF UnfaultedInv
<1>2. u \notin faulted => Unbroken(u)
  BY DEF UnfaultedInv
<1>3. ASSUME NEW w \in Users, NEW to \in Users, NEW m \in Msgs, SendText(w, to, m)
      PROVE  Unbroken(u)'
  <2>1. PICK req \in Requests : req = [kind |-> "push", to |-> to, msg |-> m]
    BY DEF Requests
  <2>2. Transmit(w, req) /\ faulted' = faulted
    BY <1>3, <2>1 DEF SendText, Transmit
  <2> QED
    BY <1>1, <1>2, <2>2, TransmitUnbroken
<1>4. ASSUME NEW w \in Users, Poll(w)
      PROVE  Unbroken(u)'
  <2>1. PICK req \in Requests : req = [kind |-> "pull"]
    BY DEF Requests
  <2>2. Transmit(w, req) /\ faulted' = faulted
    BY <1>4, <2>1 DEF Poll, Transmit
  <2> QED
    BY <1>1, <1>2, <2>2, TransmitUnbroken
<1>5. ASSUME NEW w \in Users, Receive(w)
      PROVE  Unbroken(u)'
  <2>1. /\ place[w] = "answered" /\ missed' = missed /\ faulted' = faulted
        /\ UNCHANGED <<session, unrun, serving>> /\ \E v : Return(w, v)
    BY <1>5 DEF Receive
  <2> QED
    BY <1>1, <1>2, <2>1, ReturnUnbroken
<1>6. ASSUME NEW w \in Users, Refused(w)
      PROVE  Unbroken(u)'
  <2>1. /\ place[w] = "closed" /\ missed' = missed /\ faulted' = faulted
        /\ UNCHANGED <<session, unrun, serving>> /\ Return(w, "failed")
    BY <1>6 DEF Refused
  <2> QED
    BY <1>1, <1>2, <2>1, ReturnUnbroken
<1>7. ASSUME NEW w \in Users, GiveUp(w)
      PROVE  Unbroken(u)'
  <2>1. /\ missed' \subseteq missed \cup {Current(w)} /\ faulted' = faulted \cup {w}
        /\ UNCHANGED <<session, unrun, serving>> /\ Return(w, "failed")
    BY <1>7 DEF GiveUp
  <2>2. u # w /\ u \notin faulted
    BY <2>1
  <2> QED
    BY <1>1, <1>2, <2>1, <2>2, ReturnUnbroken
<1>8. ASSUME NEW w \in Users, Relogin(w)
      PROVE  Unbroken(u)'
  BY <1>1, <1>2, <1>8, ReloginUnbroken DEF Relogin
<1>9. ASSUME NEW w \in Users, Refuse(w)
      PROVE  Unbroken(u)'
  BY <1>1, <1>2, <1>9, RefuseUnbroken DEF Refuse
<1>10. ASSUME NEW s \in Sessions, NEW i, Run(s, i)
       PROVE  Unbroken(u)'
  <2>1. faulted' = faulted
    BY <1>1, <1>10, RunCases DEF Answer, RunCloses
  <2> QED
    BY <1>1, <1>2, <1>10, <2>1, RunUnbroken
<1>11. ASSUME FinishPush \/ FinishPull
       PROVE  Unbroken(u)'
  <2>1. faulted' = faulted
    BY <1>11 DEF FinishPush, FinishPull, Answer
  <2> QED
    BY <1>2, <1>11, <2>1, FinishUnbroken
<1>12. ASSUME \/ \E s \in Sessions : SessionEnds(s)
              \/ Clean \/ Clock \/ UNCHANGED vars
       PROVE  Unbroken(u)'
  <2>1. Quiet
    BY <1>1, <1>12, QuietSteps
  <2> QED
    BY <1>2, <2>1, OthersStayUnbroken DEF Quiet
<1> QED
  BY <1>3, <1>4, <1>5, <1>6, <1>7, <1>8, <1>9, <1>10, <1>11, <1>12 DEF DeliveryNext

LEMMA FaultedGrows ==
    ASSUME CoreInv, [DeliveryNext]_vars
    PROVE  faulted \subseteq faulted'
<1>1. AgreementInv /\ TypeOK
  BY DEF CoreInv, QueueInv
<1>2. ASSUME NEW w \in Users, NEW to \in Users, NEW m \in Msgs, SendText(w, to, m)
      PROVE  faulted' = faulted
  BY <1>2 DEF SendText, Transmit
<1>3. ASSUME NEW w \in Users, Poll(w) \/ Receive(w) \/ Refused(w) \/ Relogin(w) \/ Refuse(w)
      PROVE  faulted' = faulted
  BY <1>3 DEF Poll, Transmit, Receive, Refused, Relogin, Refuse
<1>4. ASSUME NEW w \in Users, GiveUp(w)
      PROVE  faulted \subseteq faulted'
  BY <1>4 DEF GiveUp
<1>5. ASSUME NEW s \in Sessions, NEW i, Run(s, i)
      PROVE  faulted' = faulted
  BY <1>1, <1>5, RunCases DEF Answer, RunCloses
<1>6. ASSUME FinishPush \/ FinishPull
      PROVE  faulted' = faulted
  BY <1>6 DEF FinishPush, FinishPull, Answer
<1>7. ASSUME \/ \E s \in Sessions : SessionEnds(s)
             \/ Clean \/ Clock \/ UNCHANGED vars
      PROVE  faulted' = faulted
  BY <1>1, <1>7, QuietSteps DEF Quiet
<1> QED
  BY <1>2, <1>3, <1>4, <1>5, <1>6, <1>7 DEF DeliveryNext

NothingLost == \A u \in Users \ faulted : ReturnedIds(u) = Seen(u)

LEMMA NothingLostStep ==
    ASSUME CoreInv, SentInv, UnfaultedInv, NothingLost, [DeliveryNext]_vars
    PROVE  NothingLost'
<1>1. UnfaultedInv'
  BY UnfaultedStep
<1> SUFFICES ASSUME NEW u \in Users, u \notin faulted'
             PROVE  ReturnedIds(u)' = Seen(u)'
  BY DEF NothingLost
<1>2. faulted \subseteq faulted'
  BY FaultedGrows
<1>3. Unbroken(u) /\ ReturnedIds(u) = Seen(u)
  BY <1>2 DEF UnfaultedInv, NothingLost
<1>4. Current(u) \notin missed /\ shown[u] \in Seq(Msgs)
  <2>1. Current(u) \in Sessions /\ Current(u)[1] = u
    BY SessionFields DEF CoreInv, AgreementInv, Current
  <2> QED
    BY <1>3, <2>1, SeenTypes DEF Unbroken, CoreInv, AgreementInv
<1>5. Pending(u) = << >> => Seen(u) = shown[u]
  BY <1>4, ConcatEmptySeq DEF Seen
<1>6. CASE SeenStays(u)
  BY <1>3, <1>6 DEF SeenStays
<1>7. CASE SeenLost(u)
  BY <1>3, <1>4, <1>5, <1>7 DEF SeenLost
<1>8. CASE SeenGrows(u)
  BY <1>3, <1>5, <1>8 DEF SeenGrows, Unbroken
<1> QED
  BY <1>6, <1>7, <1>8, StepSeen DEF SeenSteps

LEMMA NothingSeenYet ==
    ASSUME DeliveryInit, NEW u \in Users
    PROVE  ReturnedIds(u) = << >> /\ Seen(u) = << >>
<1>1. << >> \in Seq(Msgs) /\ returned[u] = << >> /\ shown[u] = << >> /\ answer[u] = None
  BY EmptySeq DEF DeliveryInit, Init
<1>2. << >> \o << >> = << >> /\ Len(<< >>) = 0
  BY <1>1, ConcatEmptySeq, EmptySeq
<1>3. ReturnedIds(u) = << >>
  <2>1. ReturnedIds(u) \in Seq(Msgs) /\ Len(ReturnedIds(u)) = 0
    BY <1>1, <1>2 DEF ReturnedIds
  <2> QED
    BY <2>1, EmptySeq
<1> QED
  BY <1>1, <1>2, <1>3 DEF Seen, Pending

(* Whatever Drain takes out for a user whose round trips all held is shown *)
(* to that user, or lies in the answer its client is about to read.        *)
THEOREM LossAlwaysNeedsFault == DeliverySpec => []LossNeedsFault
<1>1. DeliveryInit => SentInv /\ UnfaultedInv /\ NothingLost
  <2> SUFFICES ASSUME DeliveryInit PROVE SentInv /\ UnfaultedInv /\ NothingLost
    OBVIOUS
  <2>1. SentInv
    BY DEF DeliveryInit, SentInv, AnswersTrue, CallsComposed, SentHaveArrived
  <2>2. Len(<< >>) = 0
    BY EmptySeq
  <2>3. UnfaultedInv
    BY <2>2 DEF DeliveryInit, UnfaultedInv, Unbroken
  <2> QED
    BY <2>1, <2>3, NothingSeenYet DEF NothingLost
<1>2. CoreInv /\ SentInv /\ UnfaultedInv /\ NothingLost /\ [DeliveryNext]_vars
         => SentInv' /\ UnfaultedInv' /\ NothingLost'
  BY SentStep, UnfaultedStep, NothingLostStep
<1>3. NothingLost => LossNeedsFault
  BY DEF NothingLost, LossNeedsFault, ReturnedIds, Seen, Pending, Ids
<1> QED
  BY CoreAlways, <1>1, <1>2, <1>3, PTL DEF DeliverySpec
-----------------------------------------------------------------------------
HandedOnce == \A u \in Users : Injective(ReturnedIds(u))

LEMMA HandedOnceHolds == QueueInv => HandedOnce
BY HandedInOrder, InjectiveFront DEF HandedOnce

(* What a user sees are some of the messages it was handed, in their order *)
(* and each once, whatever answers were lost on the way.                   *)
SeenInOrder == \A u \in Users : Seen(u) = Kept(ReturnedIds(u), Range(Seen(u)))

LEMMA SeenInOrderStep ==
    ASSUME CoreInv, SentInv, SeenInOrder, HandedOnce', [DeliveryNext]_vars
    PROVE  SeenInOrder'
<1> SUFFICES ASSUME NEW u \in Users
             PROVE  Seen(u)' = Kept(ReturnedIds(u), Range(Seen(u)))'
  BY DEF SeenInOrder
<1>1. PICK r \in Seq(Msgs), s \in Seq(Msgs), a \in Seq(Msgs) :
         r = ReturnedIds(u) /\ s = shown[u] /\ a = Pending(u)
  BY SeenTypes, HandedInOrder DEF CoreInv, AgreementInv
<1>2. PICK x \in Seq(Msgs) : x = Seen(u) /\ x = s \o a
  BY <1>1, SeenTypes DEF Seen, CoreInv, AgreementInv
<1>3. x = Kept(r, Range(x))
  BY <1>1, <1>2 DEF SeenInOrder
<1>4. Injective(r)
  BY <1>1, HandedInOrder, InjectiveFront DEF CoreInv
<1>5. s = Kept(r, Range(s))
  BY <1>2, <1>3, <1>4, SubsequenceFront
<1>6. ASSUME NEW y, NEW z, ReturnedIds(u)' = y, Seen(u)' = z, z = Kept(y, Range(z))
      PROVE  Seen(u)' = Kept(ReturnedIds(u), Range(Seen(u)))'
  BY <1>6
<1>7. CASE SeenStays(u)
  BY <1>1, <1>2, <1>3, <1>6, <1>7 DEF SeenStays
<1>8. CASE SeenLost(u)
  BY <1>1, <1>5, <1>6, <1>8 DEF SeenLost
<1>9. CASE SeenGrows(u)
  <2>1. PICK f \in Seq(Msgs) :
           /\ ReturnedIds(u)' = r \o f
           /\ \/ a = << >> /\ Seen(u)' = s \o f
              \/ Seen(u)' = x
    BY <1>1, <1>2, <1>9 DEF SeenGrows
  <2>2. Injective(r \o f)
    <3>1. Injective(ReturnedIds(u)')
      BY DEF HandedOnce, Injective
    <3> QED
      BY <2>1, <3>1
  <2>3. CASE Seen(u)' = s \o f
    <3>1. s \o f = Kept(r \o f, Range(s \o f))
      BY <1>5, <2>2, SubsequenceGrows
    <3> QED
      BY <1>6, <2>1, <2>3, <3>1
  <2>4. CASE Seen(u)' = x
    <3>1. x = Kept(r \o f, Range(x))
      BY <1>3, <2>2, SubsequenceStays
    <3> QED
      BY <1>6, <2>1, <2>4, <3>1
  <2> QED
    BY <2>1, <2>3, <2>4
<1> QED
  BY <1>7, <1>8, <1>9, StepSeen DEF SeenSteps

LEMMA SeenIsShownInOrder ==
    ASSUME CoreInv, SeenInOrder
    PROVE  ShownInOrder
<1> SUFFICES ASSUME NEW u \in Users
             PROVE  shown[u] = Kept(Ids(pushed[u]), Range(shown[u]))
  BY DEF ShownInOrder, Ids
<1>1. PICK r \in Seq(Msgs), s \in Seq(Msgs), a \in Seq(Msgs) :
         r = ReturnedIds(u) /\ s = shown[u] /\ a = Pending(u)
  BY SeenTypes, HandedInOrder DEF CoreInv, AgreementInv
<1>2. PICK p \in Seq(Msgs), w \in Seq(Msgs) : p = Ids(pushed[u]) /\ w = Ids(messages[u])
  BY HandedInOrder DEF CoreInv
<1>3. Injective(p) /\ Injective(r \o w) /\ \E J : r \o w = Kept(p, J)
  BY <1>1, <1>2, HandedInOrder DEF CoreInv
<1>4. PICK J : r \o w = Kept(p, J)
  BY <1>3
<1>5. Injective(r)
  BY <1>3, InjectiveFront
<1>6. s = Kept(r, Range(s))
  <2>1. s \o a = Kept(r, Range(s \o a))
    BY <1>1 DEF SeenInOrder, Seen
  <2> QED
    BY <1>5, <2>1, SubsequenceFront
<1>7. s = Kept(r \o w, Range(s))
  BY <1>3, <1>6, SubsequenceStays
<1>8. s = Kept(p, J \cap Range(s))
  BY <1>4, <1>7, KeptKept
<1>9. Kept(p, J \cap Range(s)) = Kept(p, Range(s))
  <2>1. ASSUME NEW y, In(y, p), y \in Range(s)
        PROVE  y \in J
    <3>1. In(y, s)
      BY <2>1, RangeIsIn
    <3> QED
      BY <1>8, <3>1, KeptIn
  <2> QED
    BY <2>1, KeptSame
<1> QED
  BY <1>1, <1>2, <1>8, <1>9

(* The messages a user sees are pushed ones, each once and in the order    *)
(* they entered the queue.                                                 *)
THEOREM ShownAlwaysInOrder == DeliverySpec => []ShownInOrder
<1>1. DeliveryInit => SentInv /\ SeenInOrder
  <2> SUFFICES ASSUME DeliveryInit PROVE SentInv /\ SeenInOrder
    OBVIOUS
  <2>1. SentInv
    BY DEF DeliveryInit, SentInv, AnswersTrue, CallsComposed, SentHaveArrived
  <2>2. ASSUME NEW u \in Users
        PROVE  Seen(u) = Kept(ReturnedIds(u), Range(Seen(u)))
    <3>1. ReturnedIds(u) = << >> /\ Seen(u) = << >>
      BY NothingSeenYet
    <3> QED
      BY <3>1, KeptEmpty
  <2> QED
    BY <2>1, <2>2 DEF SeenInOrder
<1>2. CoreInv /\ SentInv /\ SeenInOrder /\ HandedOnce' /\ [DeliveryNext]_vars
         => SentInv' /\ SeenInOrder'
  BY SentStep, SeenInOrderStep
<1>3. CoreInv /\ SeenInOrder => ShownInOrder
  BY SeenIsShownInOrder
<1>4. CoreInv => HandedOnce
  BY HandedOnceHolds DEF CoreInv
<1> QED
  BY CoreAlways, <1>1, <1>2, <1>3, <1>4, PTL DEF DeliverySpec
-----------------------------------------------------------------------------
(* What the sessions have sent: every message once; a payload the server   *)
(* has taken up was sent.                                                  *)
SentOnce ==
    /\ \A s \in Sessions : \A i \in 1..Len(composed[s]) : composed[s][i].kind = "push"
    /\ \A s, t \in Sessions : \A i \in 1..Len(composed[s]), j \in 1..Len(composed[t]) :
          composed[s][i].msg = composed[t][j].msg => s = t /\ i = j
    /\ \A m \in made : \E s \in Sessions : \E i \in 1..Len(composed[s]) :
          composed[s][i].msg = m

(* The frames that have not run: each push is one its session sent, once,  *)
(* and the server has not taken it up; what was sent after it is behind it.*)
UnrunSent ==
    \A s \in Sessions : \A a \in 1..Len(unrun[s]) : unrun[s][a].kind = "push" =>
        /\ \E i \in 1..Len(composed[s]) : unrun[s][a] = composed[s][i]
        /\ unrun[s][a].msg \notin made
        /\ \A b \in 1..Len(unrun[s]) : unrun[s][b] = unrun[s][a] => a = b

UnrunInOrder ==
    \A s \in Sessions : \A i, j \in 1..Len(composed[s]) : i < j =>
        \A a \in 1..Len(unrun[s]) : unrun[s][a] = composed[s][i] =>
            \E b \in 1..Len(unrun[s]) : a < b /\ unrun[s][b] = composed[s][j]

(* While the worker pushes a message, none that its session sent later has *)
(* been taken up.                                                          *)
ServedInOrder ==
    op[Worker].kind = "enqueue" =>
        \A s \in Sessions : \A i, j \in 1..Len(composed[s]) :
            i < j /\ op[Worker].msg.id = composed[s][i].msg => composed[s][j].msg \notin made

FramesInv == SentOnce /\ UnrunSent /\ UnrunInOrder /\ ServedInOrder

LEMMA FramesStay ==
    ASSUME FramesInv, UNCHANGED <<composed, unrun, made>>,
           op'[Worker].kind = "enqueue" => op'[Worker] = op[Worker]
    PROVE  FramesInv'
<1>1. SentOnce'
  BY DEF FramesInv, SentOnce
<1>2. UnrunSent'
  BY DEF FramesInv, UnrunSent
<1>3. UnrunInOrder'
  BY DEF FramesInv, UnrunInOrder
<1>4. ServedInOrder'
  BY DEF FramesInv, ServedInOrder
<1> QED
  BY <1>1, <1>2, <1>3, <1>4 DEF FramesInv

LEMMA PollFrames ==
    ASSUME AgreementInv, FramesInv, NEW c \in Sessions, NEW req \in Requests,
           req.kind = "pull", unrun' = [unrun EXCEPT ![c] = Append(@, req)],
           UNCHANGED <<composed, made, op>>
    PROVE  FramesInv'
<1>1. /\ \A s \in Sessions : /\ Len(unrun[s]) \in Nat
                             /\ \A a \in 1..Len(unrun[s]) : unrun'[s][a] = unrun[s][a]
      /\ \A s \in Sessions \ {c} : unrun'[s] = unrun[s]
      /\ Len(unrun'[c]) = Len(unrun[c]) + 1 /\ unrun'[c][Len(unrun[c]) + 1] = req
  BY AppendedAt DEF AgreementInv, SessionTypes
<1>2. \A s \in Sessions : \A a \in 1..Len(unrun'[s]) : unrun'[s][a].kind = "push" =>
         a \in 1..Len(unrun[s]) /\ unrun'[s][a] = unrun[s][a]
  <2> SUFFICES ASSUME NEW s \in Sessions, NEW a \in 1..Len(unrun'[s]),
                      unrun'[s][a].kind = "push"
               PROVE  a \in 1..Len(unrun[s])
    BY <1>1
  <2>1. CASE s = c
    <3>1. a # Len(unrun[c]) + 1
      BY <1>1, <2>1
    <3> QED
      BY <1>1, <2>1, <3>1
  <2>2. CASE s # c
    BY <1>1, <2>2
  <2> QED
    BY <2>1, <2>2
<1>3. \A s \in Sessions : \A a \in 1..Len(unrun[s]) : a \in 1..Len(unrun'[s])
  BY <1>1
<1>4. SentOnce' /\ ServedInOrder'
  BY DEF FramesInv, SentOnce, ServedInOrder
<1>5. UnrunSent'
  BY <1>2 DEF FramesInv, UnrunSent
<1>6. UnrunInOrder'
  <2> SUFFICES ASSUME NEW s \in Sessions, NEW i \in 1..Len(composed[s]),
                      NEW j \in 1..Len(composed[s]), i < j,
                      NEW a \in 1..Len(unrun'[s]), unrun'[s][a] = composed[s][i]
               PROVE  \E b \in 1..Len(unrun'[s]) : a < b /\ unrun'[s][b] = composed[s][j]
    BY DEF UnrunInOrder
  <2>1. a \in 1..Len(unrun[s]) /\ unrun[s][a] = composed[s][i]
    BY <1>2 DEF FramesInv, SentOnce
  <2>2. PICK b \in 1..Len(unrun[s]) : a < b /\ unrun[s][b] = composed[s][j]
    BY <2>1 DEF FramesInv, UnrunInOrder
  <2> QED
    BY <1>1, <1>3, <2>2
<1> QED
  BY <1>4, <1>5, <1>6 DEF FramesInv

LEMMA SendFrames ==
    ASSUME AgreementInv, FramesInv, NEW c \in Sessions, NEW req \in Requests,
           req.kind = "push", UNCHANGED <<made, op>>,
           \A s \in Sessions : \A i \in 1..Len(composed[s]) : composed[s][i].msg # req.msg,
           unrun' = [unrun EXCEPT ![c] = Append(@, req)],
           composed' = [composed EXCEPT ![c] = Append(@, req)]
    PROVE  FramesInv'
<1>1. /\ \A s \in Sessions : /\ Len(unrun[s]) \in Nat
                             /\ \A a \in 1..Len(unrun[s]) : unrun'[s][a] = unrun[s][a]
      /\ \A s \in Sessions \ {c} : unrun'[s] = unrun[s]
      /\ Len(unrun'[c]) = Len(unrun[c]) + 1 /\ unrun'[c][Len(unrun[c]) + 1] = req
  BY AppendedAt DEF AgreementInv, SessionTypes
<1>2. /\ \A s \in Sessions : /\ Len(composed[s]) \in Nat
                             /\ \A i \in 1..Len(composed[s]) : composed'[s][i] = composed[s][i]
      /\ \A s \in Sessions \ {c} : composed'[s] = composed[s]
      /\ Len(composed'[c]) = Len(composed[c]) + 1 /\ composed'[c][Len(composed[c]) + 1] = req
  BY AppendedAt DEF AgreementInv, SessionTypes
<1>3. \A s \in Sessions : \A i \in 1..Len(composed'[s]) :
         \/ i \in 1..Len(composed[s]) /\ composed'[s][i] = composed[s][i]
         \/ s = c /\ i = Len(composed[c]) + 1 /\ composed'[s][i] = req
  BY <1>2
<1>4. \A s \in Sessions : \A a \in 1..Len(unrun'[s]) :
         \/ a \in 1..Len(unrun[s]) /\ unrun'[s][a] = unrun[s][a]
         \/ s = c /\ a = Len(unrun[c]) + 1 /\ unrun'[s][a] = req
  BY <1>1
<1>5. \A s \in Sessions : /\ 1..Len(composed[s]) \subseteq 1..Len(composed'[s])
                          /\ 1..Len(unrun[s]) \subseteq 1..Len(unrun'[s])
  BY <1>1, <1>2
<1>6. req.msg \notin made
  BY DEF FramesInv, SentOnce
<1>7. \A s \in Sessions : \A a \in 1..Len(unrun[s]) : unrun[s][a] # req
  BY DEF FramesInv, UnrunSent
<1>8. SentOnce'
  <2>1. \A s \in Sessions : \A i \in 1..Len(composed'[s]) : composed'[s][i].kind = "push"
    BY <1>3 DEF FramesInv, SentOnce
  <2>2. \A s, t \in Sessions : \A i \in 1..Len(composed'[s]), j \in 1..Len(composed'[t]) :
           composed'[s][i].msg = composed'[t][j].msg => s = t /\ i = j
    <3> SUFFICES ASSUME NEW s \in Sessions, NEW t \in Sessions,
                        NEW i \in 1..Len(composed'[s]), NEW j \in 1..Len(composed'[t]),
                        composed'[s][i].msg = composed'[t][j].msg
                 PROVE  s = t /\ i = j
      OBVIOUS
    <3>1. CASE i \in 1..Len(composed[s]) /\ composed'[s][i] = composed[s][i]
      <4>1. j \in 1..Len(composed[t]) /\ composed'[t][j] = composed[t][j]
        BY <1>3, <3>1
      <4> QED
        BY <3>1, <4>1 DEF FramesInv, SentOnce
    <3>2. CASE s = c /\ i = Len(composed[c]) + 1 /\ composed'[s][i] = req
      <4>1. t = c /\ j = Len(composed[c]) + 1
        BY <1>3, <3>2
      <4> QED
        BY <3>2, <4>1
    <3> QED
      BY <1>3, <3>1, <3>2
  <2>3. \A m \in made' : \E s \in Sessions : \E i \in 1..Len(composed'[s]) :
           composed'[s][i].msg = m
    <3> SUFFICES ASSUME NEW m \in made
                 PROVE  \E s \in Sessions : \E i \in 1..Len(composed'[s]) :
                           composed'[s][i].msg = m
      OBVIOUS
    <3>1. PICK s \in Sessions : \E i \in 1..Len(composed[s]) : composed[s][i].msg = m
      BY DEF FramesInv, SentOnce
    <3>2. PICK i \in 1..Len(composed[s]) : composed[s][i].msg = m
      BY <3>1
    <3> QED
      BY <1>2, <1>5, <3>2
  <2> QED
    BY <2>1, <2>2, <2>3 DEF SentOnce
<1>9. UnrunSent'
  <2> SUFFICES ASSUME NEW s \in Sessions, NEW a \in 1..Len(unrun'[s]),
                      unrun'[s][a].kind = "push"
               PROVE  /\ \E i \in 1..Len(composed'[s]) : unrun'[s][a] = composed'[s][i]
                      /\ unrun'[s][a].msg \notin made'
                      /\ \A b \in 1..Len(unrun'[s]) : unrun'[s][b] = unrun'[s][a] => a = b
    BY DEF UnrunSent
  <2>1. CASE a \in 1..Len(unrun[s]) /\ unrun'[s][a] = unrun[s][a]
    <3>1. /\ \E i \in 1..Len(composed[s]) : unrun[s][a] = composed[s][i]
          /\ unrun[s][a].msg \notin made
          /\ \A b \in 1..Len(unrun[s]) : unrun[s][b] = unrun[s][a] => a = b
      BY <2>1 DEF FramesInv, UnrunSent
    <3>2. \E i \in 1..Len(composed'[s]) : unrun'[s][a] = composed'[s][i]
      BY <1>2, <1>5, <2>1, <3>1
    <3>3. \A b \in 1..Len(unrun'[s]) : unrun'[s][b] = unrun'[s][a] => a = b
      BY <1>4, <1>7, <2>1, <3>1
    <3> QED
      BY <2>1, <3>1, <3>2, <3>3
  <2>2. CASE s = c /\ a = Len(unrun[c]) + 1 /\ unrun'[s][a] = req
    <3>1. Len(composed[c]) + 1 \in 1..Len(composed'[c])
      BY <1>2
    <3>2. \A b \in 1..Len(unrun'[s]) : unrun'[s][b] = unrun'[s][a] => a = b
      BY <1>4, <1>7, <2>2
    <3> QED
      BY <1>2, <1>6, <2>2, <3>1, <3>2
  <2> QED
    BY <1>4, <2>1, <2>2
<1>10. UnrunInOrder'
  <2> SUFFICES ASSUME NEW s \in Sessions, NEW i \in 1..Len(composed'[s]),
                      NEW j \in 1..Len(composed'[s]), i < j,
                      NEW a \in 1..Len(unrun'[s]), unrun'[s][a] = composed'[s][i]
               PROVE  \E b \in 1..Len(unrun'[s]) : a < b /\ unrun'[s][b] = composed'[s][j]
    BY DEF UnrunInOrder
  <2>1. i \in 1..Len(composed[s]) /\ composed'[s][i] = composed[s][i]
    BY <1>2, <1>3
  <2>2. a \in 1..Len(unrun[s]) /\ unrun[s][a] = composed[s][i]
    BY <1>4, <2>1
  <2>3. CASE j \in 1..Len(composed[s]) /\ composed'[s][j] = composed[s][j]
    <3>1. PICK b \in 1..Len(unrun[s]) : a < b /\ unrun[s][b] = composed[s][j]
      BY <2>1, <2>2, <2>3 DEF FramesInv, UnrunInOrder
    <3> QED
      BY <1>1, <1>5, <2>3, <3>1
  <2>4. CASE s = c /\ j = Len(composed[c]) + 1 /\ composed'[s][j] = req
    <3>1. Len(unrun[c]) + 1 \in 1..Len(unrun'[c]) /\ a < Len(unrun[c]) + 1
      BY <1>1, <2>2, <2>4
    <3> QED
      BY <1>1, <2>4, <3>1
  <2> QED
    BY <1>3, <2>3, <2>4
<1>11. ServedInOrder'
  <2> SUFFICES ASSUME op[Worker].kind = "enqueue", NEW s \in Sessions,
                      NEW i \in 1..Len(composed'[s]), NEW j \in 1..Len(composed'[s]),
                      i < j, op[Worker].msg.id = composed'[s][i].msg
               PROVE  composed'[s][j].msg \notin made
    BY DEF ServedInOrder
  <2>1. i \in 1..Len(composed[s]) /\ composed'[s][i] = composed[s][i]
    BY <1>2, <1>3
  <2>2. CASE j \in 1..Len(composed[s]) /\ composed'[s][j] = composed[s][j]
    BY <2>1, <2>2 DEF FramesInv, ServedInOrder
  <2>3. CASE composed'[s][j] = req
    BY <1>6, <2>3
  <2> QED
    BY <1>3, <2>2, <2>3
<1> QED
  BY <1>8, <1>9, <1>10, <1>11 DEF FramesInv

LEMMA RunFrames ==
    ASSUME CoreInv, FramesInv, NEW s \in Sessions, NEW i, Run(s, i)
    PROVE  FramesInv'
<1>1. AgreementInv /\ TypeOK
  BY DEF CoreInv, QueueInv
<1>2. /\ serving = None /\ Len(unrun[s]) \in Nat \ {0} /\ unrun[s][1] \in Requests
      /\ \A t \in Sessions \ {s} : unrun'[t] = unrun[t]
      /\ Len(unrun'[s]) = Len(unrun[s]) - 1
      /\ \A a \in 1..(Len(unrun[s]) - 1) : unrun'[s][a] = unrun[s][a + 1]
  BY <1>1, RunTakesFirst
<1>3. PICK req \in Requests : req = unrun[s][1]
  BY <1>2
<1>4. /\ composed' = composed
      /\ \/ /\ req.kind = "push" /\ made' = made \cup {req.msg}
            /\ op'[Worker].msg.id = req.msg
         \/ made' = made /\ op'[Worker].kind # "enqueue"
  <2>1. PICK job \in Served :
           /\ job.req = req /\ composed' = composed
           /\ \/ /\ job.req.kind = "push"
                 /\ StartEnqueue(Worker, job.req.to, job.req.msg, 0)
              \/ StartDrain(Worker, s[1])
              \/ UNCHANGED queueVars
    BY <1>1, <1>3, RunCases DEF Answer, RunCloses
  <2>2. op[Worker].kind # "enqueue" /\ op \in [Procs -> Ops] /\ Worker \in Procs
    BY <1>1, <1>2, WorkerIsProc DEF AgreementInv, Busy, TypeOK
  <2>3. CASE req.kind = "push" /\ StartEnqueue(Worker, req.to, req.msg, 0)
    BY <2>1, <2>2, <2>3 DEF StartEnqueue, Begin
  <2>4. CASE StartDrain(Worker, s[1])
    BY <2>1, <2>2, <2>4 DEF StartDrain, Begin
  <2>5. CASE UNCHANGED queueVars
    BY <2>1, <2>2, <2>5 DEF queueVars
  <2> QED
    BY <2>1, <2>3, <2>4, <2>5
<1>5. 1 \in 1..Len(unrun[s])
  BY <1>2
<1>6. \A t \in Sessions : \A a \in 1..Len(unrun'[t]) :
         \/ t = s /\ a + 1 \in 1..Len(unrun[t]) /\ a + 1 # 1 /\ unrun'[t][a] = unrun[t][a + 1]
         \/ t # s /\ a \in 1..Len(unrun[t]) /\ unrun'[t][a] = unrun[t][a]
  BY <1>2
<1>7. req.kind = "push" => \E k \in 1..Len(composed[s]) : req = composed[s][k]
  BY <1>3, <1>5 DEF FramesInv, UnrunSent
<1>8. SentOnce'
  <2>1. \A m \in made' : \E t \in Sessions : \E k \in 1..Len(composed[t]) :
           composed[t][k].msg = m
    BY <1>4, <1>7 DEF FramesInv, SentOnce
  <2> QED
    BY <1>4, <2>1 DEF FramesInv, SentOnce
<1>9. UnrunSent'
  <2> SUFFICES ASSUME NEW t \in Sessions, NEW a \in 1..Len(unrun'[t]),
                      unrun'[t][a].kind = "push"
               PROVE  /\ \E k \in 1..Len(composed[t]) : unrun'[t][a] = composed[t][k]
                      /\ unrun'[t][a].msg \notin made'
                      /\ \A b \in 1..Len(unrun'[t]) : unrun'[t][b] = unrun'[t][a] => a = b
    BY <1>4 DEF UnrunSent
  <2>1. PICK d \in 1..Len(unrun[t]) : unrun'[t][a] = unrun[t][d] /\ ~(t = s /\ d = 1)
    BY <1>6
  <2>2. PICK k \in 1..Len(composed[t]) : unrun[t][d] = composed[t][k]
    BY <2>1 DEF FramesInv, UnrunSent
  <2>3. unrun[t][d].msg \notin made /\ unrun[t][d].kind = "push"
    BY <2>1 DEF FramesInv, UnrunSent
  <2>4. ASSUME req.kind = "push"
        PROVE  unrun[t][d].msg # req.msg
    <3>1. PICK l \in 1..Len(composed[s]) : req = composed[s][l]
      BY <1>7, <2>4
    <3>2. composed[t][k].msg = composed[s][l].msg => t = s /\ unrun[t][d] = unrun[s][1]
      BY <1>3, <2>2, <3>1 DEF FramesInv, SentOnce
    <3>3. t = s /\ unrun[t][d] = unrun[s][1] => d = 1
      BY <1>5, <2>3 DEF FramesInv, UnrunSent
    <3> QED
      BY <2>1, <2>2, <3>1, <3>2, <3>3
  <2>5. \A b \in 1..Len(unrun'[t]) : unrun'[t][b] = unrun'[t][a] => a = b
    <3> SUFFICES ASSUME NEW b \in 1..Len(unrun'[t]), unrun'[t][b] = unrun'[t][a]
                 PROVE  a = b
      OBVIOUS
    <3>1. CASE t = s
      <4>1. /\ a + 1 \in 1..Len(unrun[t]) /\ unrun'[t][a] = unrun[t][a + 1]
            /\ b + 1 \in 1..Len(unrun[t]) /\ unrun'[t][b] = unrun[t][b + 1]
        BY <1>6, <3>1
      <4>2. a + 1 = b + 1
        BY <4>1 DEF FramesInv, UnrunSent
      <4> QED
        BY <4>2
    <3>2. CASE t # s
      BY <1>6, <3>2 DEF FramesInv, UnrunSent
    <3> QED
      BY <3>1, <3>2
  <2> QED
    BY <1>4, <2>1, <2>2, <2>3, <2>4, <2>5
<1>10. composed' = composed
  BY <1>4
<1>11. UnrunInOrder'
  <2> SUFFICES ASSUME NEW t \in Sessions, NEW k \in 1..Len(composed[t]),
                      NEW j \in 1..Len(composed[t]), k < j,
                      NEW a \in 1..Len(unrun'[t]), unrun'[t][a] = composed[t][k]
               PROVE  \E b \in 1..Len(unrun'[t]) : a < b /\ unrun'[t][b] = composed[t][j]
    BY <1>10 DEF UnrunInOrder
  <2>1. CASE t = s
    <3>1. a + 1 \in 1..Len(unrun[t]) /\ unrun[t][a + 1] = composed[t][k]
      BY <1>6, <2>1
    <3>2. PICK b \in 1..Len(unrun[t]) : a + 1 < b /\ unrun[t][b] = composed[t][j]
      BY <3>1 DEF FramesInv, UnrunInOrder
    <3>3. b - 1 \in 1..Len(unrun'[t]) /\ a < b - 1 /\ unrun'[t][b - 1] = unrun[t][(b - 1) + 1]
      BY <1>2, <2>1, <3>2
    <3>4. (b - 1) + 1 = b
      OBVIOUS
    <3> QED
      BY <3>2, <3>3, <3>4
  <2>2. CASE t # s
    <3>1. unrun'[t] = unrun[t]
      BY <1>2, <2>2
    <3>2. a \in 1..Len(unrun[t]) /\ unrun[t][a] = composed[t][k]
      BY <3>1
    <3>3. \E b \in 1..Len(unrun[t]) : a < b /\ unrun[t][b] = composed[t][j]
      BY <3>2 DEF FramesInv, UnrunInOrder
    <3> QED
      BY <3>1, <3>3
  <2> QED
    BY <2>1, <2>2
<1>12. ServedInOrder'
  <2> SUFFICES ASSUME op'[Worker].kind = "enqueue", NEW t \in Sessions,
                      NEW k \in 1..Len(composed[t]), NEW j \in 1..Len(composed[t]),
                      k < j, op'[Worker].msg.id = composed[t][k].msg
               PROVE  composed[t][j].msg \notin made'
    BY <1>4 DEF ServedInOrder
  <2>1. /\ req.kind = "push" /\ made' = made \cup {req.msg} /\ composed[t][k].msg = req.msg
    BY <1>4
  <2>2. t = s /\ req = composed[t][k]
    <3>1. PICK l \in 1..Len(composed[s]) : req = composed[s][l]
      BY <1>7, <2>1
    <3>2. t = s /\ k = l
      BY <2>1, <3>1 DEF FramesInv, SentOnce
    <3> QED
      BY <3>1, <3>2
  <2>3. PICK b \in 1..Len(unrun[s]) : unrun[s][b] = composed[t][j]
    <3>1. t \in Sessions /\ 1 \in 1..Len(unrun[t]) /\ unrun[t][1] = composed[t][k]
      BY <1>3, <1>5, <2>2
    <3>2. \E b \in 1..Len(unrun[t]) : 1 < b /\ unrun[t][b] = composed[t][j]
      BY <3>1 DEF FramesInv, UnrunInOrder
    <3> QED
      BY <2>2, <3>2
  <2>4. composed[t][j].kind = "push" /\ composed[t][j].msg # composed[t][k].msg
    BY DEF FramesInv, SentOnce
  <2>5. composed[t][j].msg \notin made
    BY <2>3, <2>4 DEF FramesInv, UnrunSent
  <2> QED
    BY <2>1, <2>4, <2>5
<1> QED
  BY <1>8, <1>9, <1>11, <1>12 DEF FramesInv

LEMMA FramesStep ==
    ASSUME CoreInv, FramesInv, [DeliveryNext]_vars
    PROVE  FramesInv'
<1>1. AgreementInv /\ TypeOK
  BY DEF CoreInv, QueueInv
<1>2. ASSUME NEW w \in Users, NEW to \in Users, NEW m \in Msgs, SendText(w, to, m)
      PROVE  FramesInv'
  <2>1. PICK req \in Requests : req = [kind |-> "push", to |-> to, msg |-> m]
    BY DEF Requests
  <2>2. PICK c \in Sessions : c = Current(w)
    BY <1>1, SessionFields DEF AgreementInv
  <2>3. /\ unrun' = [unrun EXCEPT ![c] = Append(@, req)]
        /\ composed' = [composed EXCEPT ![c] = Append(@, req)]
        /\ UNCHANGED <<made, op>>
        /\ \A s \in Sessions : \A i \in 1..Len(composed[s]) : composed[s][i].msg # req.msg
    BY <1>2, <2>1, <2>2 DEF SendText, Transmit, queueVars
  <2> QED
    BY <1>1, <2>1, <2>3, SendFrames
<1>3. ASSUME NEW w \in Users, Poll(w)
      PROVE  FramesInv'
  <2>1. PICK req \in Requests : req = [kind |-> "pull"]
    BY DEF Requests
  <2>2. PICK c \in Sessions : c = Current(w)
    BY <1>1, SessionFields DEF AgreementInv
  <2>3. /\ unrun' = [unrun EXCEPT ![c] = Append(@, req)]
        /\ UNCHANGED <<composed, made, op>>
    BY <1>3, <2>1, <2>2 DEF Poll, Transmit, queueVars
  <2> QED
    BY <1>1, <2>1, <2>3, PollFrames
<1>4. ASSUME NEW w \in Users,
             Receive(w) \/ Refused(w) \/ GiveUp(w) \/ Relogin(w) \/ Refuse(w)
      PROVE  FramesInv'
  <2>1. UNCHANGED <<composed, unrun, made, op>>
    BY <1>4 DEF Receive, Refused, GiveUp, Relogin, Refuse, queueVars
  <2> QED
    BY <2>1, FramesStay
<1>5. ASSUME NEW s \in Sessions, NEW i, Run(s, i)
      PROVE  FramesInv'
  BY <1>5, RunFrames
<1>6. ASSUME FinishPush \/ FinishPull
      PROVE  FramesInv'
  <2>1. UNCHANGED <<composed, unrun, made>> /\ op' = [op EXCEPT ![Worker] = Idle]
    BY <1>6, FinishFacts DEF FinishPush, FinishPull, Answer
  <2>2. op'[Worker].kind # "enqueue"
    BY <1>1, <2>1, WorkerIsProc DEF TypeOK, Idle
  <2> QED
    BY <2>1, <2>2, FramesStay
<1>7. ASSUME \/ \E s \in Sessions : SessionEnds(s)
             \/ Clean \/ Clock \/ UNCHANGED vars
      PROVE  FramesInv'
  <2>1. Quiet
    BY <1>1, <1>7, QuietSteps
  <2>2. UNCHANGED <<composed, unrun, made>>
    BY <2>1 DEF Quiet
  <2>3. op'[Worker].kind = "enqueue" => op'[Worker] = op[Worker]
    BY <2>1 DEF Quiet
  <2> QED
    BY <2>2, <2>3, FramesStay
<1> QED
  BY <1>2, <1>3, <1>4, <1>5, <1>6, <1>7 DEF DeliveryNext

(* The order of two ids in the queue of one user; SenderOrderKept in its   *)
(* terms.                                                                  *)
Precedes(u, m, n) ==
    \A k, l \in 1..Len(pushed[u]) :
        pushed[u][k].id = m /\ pushed[u][l].id = n => k < l

InSenderOrder ==
    \A s \in Sessions : \A i, j \in 1..Len(composed[s]) :
        i < j => Precedes(composed[s][i].to, composed[s][i].msg, composed[s][j].msg)

LEMMA SenderOrderIs == InSenderOrder <=> SenderOrderKept
<1>1. ASSUME InSenderOrder
      PROVE  SenderOrderKept
  <2> SUFFICES ASSUME NEW s \in Sessions, NEW i \in 1..Len(composed[s]),
                      NEW j \in 1..Len(composed[s]), NEW to, to = composed[s][i].to,
                      NEW k \in 1..Len(pushed[to]), NEW l \in 1..Len(pushed[to]), i < j,
                      pushed[to][k].id = composed[s][i].msg,
                      pushed[to][l].id = composed[s][j].msg
               PROVE  k < l
    BY ZenonT(30) DEF SenderOrderKept
  <2>1. Precedes(to, composed[s][i].msg, composed[s][j].msg)
    BY <1>1 DEF InSenderOrder
  <2> QED
    BY <2>1 DEF Precedes
<1>2. ASSUME SenderOrderKept
      PROVE  InSenderOrder
  <2> SUFFICES ASSUME NEW s \in Sessions, NEW i \in 1..Len(composed[s]),
                      NEW j \in 1..Len(composed[s]), i < j
               PROVE  Precedes(composed[s][i].to, composed[s][i].msg, composed[s][j].msg)
    BY DEF InSenderOrder
  <2>1. \A k, l \in 1..Len(pushed[composed[s][i].to]) :
           (/\ i < j
            /\ pushed[composed[s][i].to][k].id = composed[s][i].msg
            /\ pushed[composed[s][i].to][l].id = composed[s][j].msg) => k < l
    BY <1>2, Zenon DEF SenderOrderKept
  <2> QED
    BY <2>1, Zenon DEF Precedes
<1> QED
  BY <1>1, <1>2

LEMMA SenderOrderStep ==
    ASSUME CoreInv, FramesInv, InSenderOrder, [DeliveryNext]_vars
    PROVE  InSenderOrder'
<1>1. AgreementInv /\ TypeOK
  BY DEF CoreInv, QueueInv
<1>2. ASSUME UNCHANGED <<pushed, composed>>
      PROVE  InSenderOrder'
  <2>1. pushed' = pushed /\ composed' = composed
    BY <1>2
  <2>2. \A u, m, n : Precedes(u, m, n)' <=> Precedes(u, m, n)
    BY <2>1 DEF Precedes
  <2> QED
    BY <2>1, <2>2 DEF InSenderOrder
<1>3. ASSUME NEW w \in Users, NEW to \in Users, NEW m \in Msgs, SendText(w, to, m)
      PROVE  InSenderOrder'
  <2>1. PICK req \in Requests : req = [kind |-> "push", to |-> to, msg |-> m]
    BY DEF Requests
  <2>2. PICK c \in Sessions : c = Current(w)
    BY <1>1, SessionFields DEF AgreementInv
  <2>3. /\ composed' = [composed EXCEPT ![c] = Append(@, req)] /\ pushed' = pushed
        /\ \A s \in Sessions : \A i \in 1..Len(composed[s]) : composed[s][i].msg # m
    BY <1>3, <2>1, <2>2 DEF SendText, Transmit, queueVars
  <2>4. /\ \A s \in Sessions : /\ Len(composed[s]) \in Nat
                               /\ \A i \in 1..Len(composed[s]) : composed'[s][i] = composed[s][i]
        /\ \A s \in Sessions \ {c} : composed'[s] = composed[s]
        /\ Len(composed'[c]) = Len(composed[c]) + 1
        /\ composed'[c][Len(composed[c]) + 1] = req
    BY <1>1, <2>3, AppendedAt DEF AgreementInv, SessionTypes
  <2>5. m \notin made
    BY <2>3 DEF FramesInv, SentOnce
  <2>6. \A v \in Users : \A k \in 1..Len(pushed[v]) : pushed[v][k].id \in made
    BY DEF CoreInv, QueueInv, Traced, PushedStamped, Stamped, In
  <2> SUFFICES ASSUME NEW s \in Sessions, NEW i \in 1..Len(composed'[s]),
                      NEW j \in 1..Len(composed'[s]), i < j, NEW v, v = composed'[s][i].to,
                      NEW k \in 1..Len(pushed'[v]), NEW l \in 1..Len(pushed'[v]),
                      pushed'[v][k].id = composed'[s][i].msg,
                      pushed'[v][l].id = composed'[s][j].msg
               PROVE  k < l
    BY Zenon DEF InSenderOrder, Precedes
  <2>7. i \in 1..Len(composed[s]) /\ composed'[s][i] = composed[s][i]
    BY <2>4
  <2>8. v \in Users
    <3>1. composed[s] \in Seq(Requests) /\ composed[s][i].kind = "push"
      BY <1>1, <2>7 DEF AgreementInv, SessionTypes, FramesInv, SentOnce
    <3>2. composed[s][i] \in Requests
      BY <2>7, <3>1, ElementOfSeq
    <3> QED
      BY <2>7, <3>1, <3>2, RequestFields
  <2>9. composed'[s][j].msg # m
    BY <2>3, <2>5, <2>6, <2>8
  <2>10. j \in 1..Len(composed[s]) /\ composed'[s][j] = composed[s][j]
    BY <2>1, <2>4, <2>9
  <2> QED
    BY <2>3, <2>7, <2>10 DEF InSenderOrder, Precedes
<1>4. ASSUME NEW w \in Users, Poll(w) \/ Receive(w) \/ Refused(w) \/ GiveUp(w)
                                \/ Relogin(w) \/ Refuse(w)
      PROVE  InSenderOrder'
  <2>1. UNCHANGED <<pushed, composed>>
    BY <1>4 DEF Poll, Transmit, Receive, Refused, GiveUp, Relogin, Refuse, queueVars
  <2> QED
    BY <1>2, <2>1
<1>5. ASSUME NEW s \in Sessions, NEW i, Run(s, i)
      PROVE  InSenderOrder'
  <2>1. UNCHANGED <<pushed, composed>>
    BY <1>1, <1>5, RunCases DEF Answer, RunCloses, StartEnqueue, StartDrain, queueVars
  <2> QED
    BY <1>2, <2>1
<1>6. ASSUME FinishPush
      PROVE  InSenderOrder'
  <2>1. /\ op[Worker].kind = "enqueue" /\ composed' = composed
        /\ pushed' = [pushed EXCEPT ![op[Worker].who] = Append(@, op[Worker].msg)]
    BY <1>6 DEF FinishPush, Push, Answer
  <2>2. PICK u \in Users, q \in Queued : u = op[Worker].who /\ q = op[Worker].msg
    BY <1>1, <2>1, OpTypes, WorkerIsProc
  <2>3. PICK p \in Seq(Queued) : p = pushed[u]
    BY <1>1, UserTypes
  <2>4. /\ Len(p) \in Nat /\ Len(Append(p, q)) = Len(p) + 1 /\ Append(p, q)[Len(p) + 1] = q
        /\ \A k \in 1..Len(p) : Append(p, q)[k] = p[k]
    BY AppendProperties, LenProperties
  <2>5. pushed'[u] = Append(p, q) /\ \A v \in Users \ {u} : pushed'[v] = pushed[v]
    BY <1>1, <2>1, <2>2, <2>3 DEF TypeOK
  <2>6. \A v \in Users : \A k \in 1..Len(pushed[v]) : pushed[v][k].id \in made
    BY DEF CoreInv, QueueInv, Traced, PushedStamped, Stamped, In
  <2> SUFFICES ASSUME NEW s \in Sessions, NEW i \in 1..Len(composed'[s]),
                      NEW j \in 1..Len(composed'[s]), i < j, NEW v, v = composed'[s][i].to,
                      NEW k \in 1..Len(pushed'[v]), NEW l \in 1..Len(pushed'[v]),
                      pushed'[v][k].id = composed'[s][i].msg,
                      pushed'[v][l].id = composed'[s][j].msg
               PROVE  k < l
    BY Zenon DEF InSenderOrder, Precedes
  <2>7. v \in Users /\ Precedes(v, composed[s][i].msg, composed[s][j].msg)
    <3>1. composed[s] \in Seq(Requests) /\ composed[s][i].kind = "push"
      BY <1>1, <2>1 DEF AgreementInv, SessionTypes, FramesInv, SentOnce
    <3>2. composed[s][i] \in Requests
      BY <2>1, <3>1, ElementOfSeq
    <3> QED
      BY <2>1, <3>1, <3>2, RequestFields DEF InSenderOrder
  <2>8. CASE v # u
    <3>1. pushed'[v] = pushed[v]
      BY <2>5, <2>7, <2>8
    <3>2. /\ k \in 1..Len(pushed[v]) /\ pushed[v][k].id = composed[s][i].msg
          /\ l \in 1..Len(pushed[v]) /\ pushed[v][l].id = composed[s][j].msg
      BY <2>1, <3>1
    <3> QED
      BY <2>7, <3>2 DEF Precedes
  <2>9. CASE v = u
    <3>1. /\ Len(pushed'[v]) = Len(p) + 1 /\ pushed'[v][Len(p) + 1] = q
          /\ \A n \in 1..Len(p) : pushed'[v][n] = p[n]
      BY <2>4, <2>5, <2>9
    <3>2. k \in 1..(Len(p) + 1) /\ l \in 1..(Len(p) + 1)
      BY <2>7, <3>1
    <3>3. CASE k \in 1..Len(p) /\ l \in 1..Len(p)
      <4>1. /\ k \in 1..Len(pushed[v]) /\ pushed[v][k].id = composed[s][i].msg
            /\ l \in 1..Len(pushed[v]) /\ pushed[v][l].id = composed[s][j].msg
        BY <2>1, <2>3, <2>7, <2>9, <3>1, <3>3
      <4> QED
        BY <2>7, <4>1 DEF Precedes
    <3>4. CASE k \in 1..Len(p) /\ l = Len(p) + 1
      BY <2>4, <3>4
    <3>5. CASE k = Len(p) + 1
      <4>1. q.id = composed[s][i].msg
        BY <2>1, <2>7, <3>1, <3>5
      <4>2. composed[s][j].msg \notin made /\ composed[s][j].msg # composed[s][i].msg
        <5>1. op[Worker].msg.id = composed[s][i].msg
          BY <2>2, <4>1
        <5>2. composed[s][j].msg # composed[s][i].msg
          BY <2>1 DEF FramesInv, SentOnce
        <5> QED
          BY <2>1, <5>1, <5>2 DEF FramesInv, ServedInOrder
      <4>3. l # Len(p) + 1
        <5>1. q.id # composed[s][j].msg
          BY <4>1, <4>2
        <5>2. pushed'[v][l].id = composed[s][j].msg
          BY <2>1
        <5> QED
          BY <3>1, <5>1, <5>2
      <4>4. l \in 1..Len(pushed[v]) /\ pushed[v][l].id = composed[s][j].msg
        <5>1. l \in 1..Len(p)
          <6>1. ASSUME NEW n \in Nat, l \in 1..(n + 1), l # n + 1
                PROVE  l \in 1..n
            BY <6>1
          <6> QED
            BY <2>4, <3>2, <4>3, <6>1
        <5>2. pushed[v] = p /\ pushed'[v][l].id = composed[s][j].msg
          BY <2>1, <2>3, <2>9
        <5> QED
          BY <3>1, <5>1, <5>2
      <4> QED
        BY <2>6, <2>7, <4>2, <4>4
    <3> QED
      BY <2>4, <3>2, <3>3, <3>4, <3>5
  <2> QED
    BY <2>8, <2>9
<1>7. ASSUME FinishPull
      PROVE  InSenderOrder'
  <2>1. UNCHANGED <<pushed, composed>>
    BY <1>7 DEF FinishPull, Drain, Answer
  <2> QED
    BY <1>2, <2>1
<1>8. ASSUME \/ \E s \in Sessions : SessionEnds(s)
             \/ Clean \/ Clock \/ UNCHANGED vars
      PROVE  InSenderOrder'
  BY <1>1, <1>2, <1>8, QuietSteps DEF Quiet
<1> QED
  BY <1>3, <1>4, <1>5, <1>6, <1>7, <1>8 DEF DeliveryNext

(* Two messages of one session to the same recipient enter the queue in    *)
(* the order they were sent, however long their frames lay unrun.          *)
THEOREM SenderOrderAlwaysKept == DeliverySpec => []SenderOrderKept
<1>1. DeliveryInit => FramesInv /\ InSenderOrder
  <2> SUFFICES ASSUME DeliveryInit PROVE FramesInv /\ InSenderOrder
    OBVIOUS
  <2>1. /\ \A s \in Sessions : composed[s] = << >> /\ unrun[s] = << >>
        /\ made = {} /\ op[Worker].kind # "enqueue" /\ Len(<< >>) = 0
    BY WorkerIsProc, EmptySeq DEF DeliveryInit, Init, Idle
  <2>2. \A s \in Sessions : 1..Len(composed[s]) = {} /\ 1..Len(unrun[s]) = {}
    BY <2>1
  <2>3. SentOnce /\ UnrunSent /\ UnrunInOrder /\ ServedInOrder
    BY <2>1, <2>2 DEF SentOnce, UnrunSent, UnrunInOrder, ServedInOrder
  <2>4. InSenderOrder
    BY <2>2 DEF InSenderOrder
  <2> QED
    BY <2>3, <2>4 DEF FramesInv
<1>2. CoreInv /\ FramesInv /\ InSenderOrder /\ [DeliveryNext]_vars
         => FramesInv' /\ InSenderOrder'
  BY FramesStep, SenderOrderStep
<1> QED
  BY CoreAlways, SenderOrderIs, <1>1, <1>2, PTL DEF DeliverySpec
=============================================================================
