------------------------- MODULE ServerProcessProofs -------------------------
(***************************************************************************)
(* Theorems about ServerProcess for every set of clients, every backlog,   *)
(* every size of a byte, of a recv and of what is sent:                    *)
(*   - the owner's thread, the worker and the connections keep in step     *)
(*     (SocketSafe);                                                       *)
(*   - what one side writes the other side reads, byte for byte, so the    *)
(*     server does the call that was made or none, and the caller gets the *)
(*     result that was answered (CallsMeanWhatTheySay);                    *)
(*   - logins are judged by the first line of a name (VerdictsAreJust).    *)
(***************************************************************************)
EXTENDS ServerProcess, FilterProofs

-----------------------------------------------------------------------------
(* The threads and the socket.                                             *)

NetTypeOK ==
    /\ running \in BOOLEAN /\ listening \in BOOLEAN
    /\ owner \in {"out", "joining"}
    /\ worker \in {"none", "loop", "accept", "serve"}
    /\ backlog \in Seq(Clients)
    /\ place \in [Clients -> {"idle", "queued", "accepted", "closed"}]

(* A server that runs has its thread, a thread has its socket, and a       *)
(* thread that is to end has somebody who waits for it.                    *)
ThreadInv ==
    /\ running => worker # "none"
    /\ worker # "none" => listening
    /\ listening => running \/ owner = "joining"
    /\ owner = "joining" => ~running

(* The worker serves one connection, and none when it does anything else;  *)
(* nobody waits at a socket that is not there.                             *)
PlaceInv ==
    /\ \A c \in Clients : place[c] = "accepted" => worker = "serve"
    /\ \A c, d \in Clients :
          place[c] = "accepted" /\ place[d] = "accepted" => c = d
    /\ \A c \in Clients : place[c] = "queued" => listening

NetInv == NetTypeOK /\ ThreadInv /\ PlaceInv

(* At first there is no thread, no socket and no connection. *)
LEMMA InitNet == Init => NetInv
<1> SUFFICES ASSUME Init PROVE NetInv
  OBVIOUS
<1>1. running = FALSE /\ listening = FALSE /\ owner = "out" /\ worker = "none"
  BY DEF Init
<1>2. backlog = << >> /\ place = [c \in Clients |-> "idle"]
  BY DEF Init
<1> QED
  BY <1>1, <1>2, EmptySeq DEF NetInv, NetTypeOK, ThreadInv, PlaceInv

(* The flag, the socket, the owner and the worker. *)
LEMMA ThreadStep ==
    ASSUME NetInv, Next
    PROVE  ThreadInv'
<1> USE DEF NetInv, NetTypeOK, ThreadInv
<1>1. CASE ServerInit /\ UNCHANGED netVars
  BY <1>1 DEF netVars
<1>2. CASE Start
  BY <1>2 DEF Start, StartSocket
<1>3. CASE Stop
  BY <1>3 DEF Stop
<1>4. CASE Joined
  BY <1>4 DEF Joined, StopSocket
<1>5. CASE Loop
  BY <1>5 DEF Loop
<1>6. CASE Accept
  BY <1>6 DEF Accept
<1>7. CASE AcceptFails
  BY <1>7 DEF AcceptFails
<1>8. CASE Serve
  BY <1>8 DEF Serve
<1>9. ASSUME NEW c \in Clients, Connect(c) \/ Return(c)
      PROVE  ThreadInv'
  BY <1>9 DEF Connect, Return
<1> QED
  BY <1>1, <1>2, <1>3, <1>4, <1>5, <1>6, <1>7, <1>8, <1>9 DEF Next

(* The connections. *)
LEMMA PlaceStep ==
    ASSUME NetInv, Next
    PROVE  NetTypeOK' /\ PlaceInv'
<1> USE DEF NetInv, NetTypeOK, PlaceInv
<1>1. CASE ServerInit /\ UNCHANGED netVars
  BY <1>1 DEF netVars
<1>2. CASE Start
  BY <1>2 DEF Start, StartSocket, ThreadInv
<1>3. CASE Stop
  BY <1>3 DEF Stop
<1>4. CASE Joined
  BY <1>4, EmptySeq DEF Joined, StopSocket
<1>5. CASE Loop
  BY <1>5 DEF Loop
<1>6. CASE Accept
  \* Nobody is being served while the worker is in accept.
  <2> DEFINE h == Head(backlog)
  <2>1. h \in Clients /\ Tail(backlog) \in Seq(Clients)
    BY <1>6 DEF Accept
  <2>2. place' = [place EXCEPT ![h] = "accepted"]
    BY <1>6 DEF Accept
  <2>3. \A c \in Clients : place[c] # "accepted"
    BY <1>6 DEF Accept
  <2> QED
    BY <1>6, <2>1, <2>2, <2>3 DEF Accept, ThreadInv
<1>7. CASE AcceptFails
  BY <1>7 DEF AcceptFails
<1>8. CASE Serve
  \* The connection that is closed was the only accepted one.
  <2>1. PICK c \in Clients : /\ place[c] = "accepted"
                             /\ place' = [place EXCEPT ![c] = "closed"]
    BY <1>8 DEF Serve, Close
  <2> QED
    BY <1>8, <2>1 DEF Serve
<1>9. ASSUME NEW c \in Clients, Connect(c)
      PROVE  NetTypeOK' /\ PlaceInv'
  BY <1>9 DEF Connect
<1>10. ASSUME NEW c \in Clients, Return(c)
       PROVE  NetTypeOK' /\ PlaceInv'
  BY <1>10 DEF Return
<1> QED
  BY <1>1, <1>2, <1>3, <1>4, <1>5, <1>6, <1>7, <1>8, <1>9, <1>10 DEF Next

(* The owner, the worker and the connections keep in step. *)
THEOREM NetSafe == Spec => []NetInv
<1>1. NetInv /\ [Next]_vars => NetInv'
  <2>1. NetInv /\ Next => NetInv'
    BY ThreadStep, PlaceStep DEF NetInv
  <2>2. NetInv /\ UNCHANGED vars => NetInv'
    BY DEF NetInv, NetTypeOK, ThreadInv, PlaceInv, vars, netVars
  <2> QED
    BY <2>1, <2>2
<1> QED
  BY InitNet, <1>1, PTL DEF Spec

(* NetworkServer::Stop and Run: the worker never accepts on a closed       *)
(* socket, and a stopped server has neither a thread nor a socket nor a    *)
(* connection that nobody answers.                                         *)
THEOREM SocketSafe == Spec => []SocketOutlivesWorker
<1>1. NetInv => SocketOutlivesWorker
  BY DEF NetInv, NetTypeOK, ThreadInv, PlaceInv, SocketOutlivesWorker
<1> QED
  BY <1>1, NetSafe, PTL

-----------------------------------------------------------------------------
(* Numbers, strings and frames, and the calls in them.                     *)

(* Products, quotients and remainders of naturals. *)
LEMMA MulNat == \A m, n \in Nat : m * n \in Nat
OBVIOUS

LEMMA DivMod ==
    ASSUME NEW n \in Nat, NEW b \in Nat \ {0}
    PROVE  /\ n \div b \in Nat /\ n % b \in Nat
           /\ n % b < b
           /\ n = b * (n \div b) + (n % b)
<1>1. n \div b \in Int /\ n % b \in 0..(b - 1)
  OBVIOUS
<1>2. n = b * (n \div b) + (n % b)
  OBVIOUS
<1>3. n \div b \in Nat
  BY <1>1, <1>2
<1> QED
  BY <1>1, <1>2, <1>3

LEMMA DivSmall ==
    ASSUME NEW n \in Nat, NEW b \in Nat \ {0}, NEW m \in Nat, n < b * m
    PROVE  n \div b < m
OBVIOUS

LEMMA ModSmall ==
    ASSUME NEW n \in Nat, NEW b \in Nat \ {0}, n < b
    PROVE  n % b = n
OBVIOUS

(* The bytes of a number. *)
LEMMA Uint16Type ==
    ASSUME NEW n \in Nat
    PROVE  /\ WriteUint16(n) \in Seq(Nat) /\ Len(WriteUint16(n)) = 2
           /\ WriteUint16(n)[1] = n % Byte
           /\ WriteUint16(n)[2] = (n \div Byte) % Byte
<1>1. n % Byte \in Nat /\ n \div Byte \in Nat /\ (n \div Byte) % Byte \in Nat
  BY WireAssumption, DivMod
<1> QED
  BY <1>1 DEF WriteUint16

Cat(s, t) == s \o t

LEMMA CatType ==
    ASSUME NEW s \in Seq(Nat), NEW t \in Seq(Nat)
    PROVE  Cat(s, t) \in Seq(Nat) /\ Len(Cat(s, t)) = Len(s) + Len(t)
<1>1. s \o t \in Seq(Nat)
  OBVIOUS
<1>2. Len(s \o t) = Len(s) + Len(t)
  OBVIOUS
<1> QED
  BY <1>1, <1>2 DEF Cat

LEMMA CatLeft ==
    ASSUME NEW s \in Seq(Nat), NEW t \in Seq(Nat), NEW i \in 1..Len(s)
    PROVE  Cat(s, t)[i] = s[i]
BY DEF Cat

LEMMA CatRight ==
    ASSUME NEW s \in Seq(Nat), NEW t \in Seq(Nat), NEW i \in 1..Len(t)
    PROVE  Cat(s, t)[Len(s) + i] = t[i]
BY DEF Cat

(* Two numbers of two bytes. *)
LEMMA TwoAndTwo ==
    ASSUME NEW s \in Seq(Nat), NEW t \in Seq(Nat), Len(s) = 2, Len(t) = 2
    PROVE  /\ Cat(s, t) \in Seq(Nat) /\ Len(Cat(s, t)) = 4
           /\ Cat(s, t)[1] = s[1] /\ Cat(s, t)[2] = s[2]
           /\ Cat(s, t)[3] = t[1] /\ Cat(s, t)[4] = t[2]
<1>1. Cat(s, t) \in Seq(Nat) /\ Len(Cat(s, t)) = Len(s) + Len(t)
  BY CatType
<1>2. 1 \in 1..Len(s) /\ 2 \in 1..Len(s) /\ 1 \in 1..Len(t) /\ 2 \in 1..Len(t)
  OBVIOUS
<1>3. Cat(s, t)[1] = s[1] /\ Cat(s, t)[2] = s[2]
  BY <1>2, CatLeft
<1>4. Cat(s, t)[Len(s) + 1] = t[1] /\ Cat(s, t)[Len(s) + 2] = t[2]
  BY <1>2, CatRight
<1> QED
  BY <1>1, <1>3, <1>4

(* The bytes of a number of four bytes. *)
LEMMA Uint32Type ==
    ASSUME NEW n \in Nat
    PROVE  /\ WriteUint32(n) \in Seq(Nat) /\ Len(WriteUint32(n)) = 4
           /\ WriteUint32(n)[1] = n % Byte
           /\ WriteUint32(n)[2] = (n \div Byte) % Byte
           /\ WriteUint32(n)[3] = ((n \div Byte) \div Byte) % Byte
           /\ WriteUint32(n)[4] = (((n \div Byte) \div Byte) \div Byte) % Byte
<1> DEFINE m == (n \div Byte) \div Byte
           lo == WriteUint16(n)
           hi == WriteUint16(m)
<1>1. m \in Nat
  BY WireAssumption, DivMod
<1>2. /\ lo \in Seq(Nat) /\ Len(lo) = 2
      /\ lo[1] = n % Byte /\ lo[2] = (n \div Byte) % Byte
  BY Uint16Type
<1>3. /\ hi \in Seq(Nat) /\ Len(hi) = 2
      /\ hi[1] = m % Byte /\ hi[2] = (m \div Byte) % Byte
  BY <1>1, Uint16Type
<1>4. WriteUint32(n) = Cat(lo, hi)
  BY DEF WriteUint32, Cat
<1> HIDE DEF lo, hi, m
<1>5. /\ Cat(lo, hi) \in Seq(Nat) /\ Len(Cat(lo, hi)) = 4
      /\ Cat(lo, hi)[1] = lo[1] /\ Cat(lo, hi)[2] = lo[2]
      /\ Cat(lo, hi)[3] = hi[1] /\ Cat(lo, hi)[4] = hi[2]
  BY <1>2, <1>3, TwoAndTwo
<1> QED
  BY <1>2, <1>3, <1>4, <1>5 DEF m

(* A number that two bytes can say is read as it was written. *)
LEMMA Uint16Read ==
    ASSUME NEW n \in Nat, n <= MaxString
    PROVE  NumberOf(WriteUint16(n)) = n
<1> DEFINE w == WriteUint16(n)
<1>1. /\ w \in Seq(Nat) /\ Len(w) = 2
      /\ w[1] = n % Byte /\ w[2] = (n \div Byte) % Byte
  BY Uint16Type
<1> HIDE DEF w
<1>2. NumberOf(w) = w[1] + Byte * (w[2] + Byte * (0 + Byte * 0))
  BY <1>1 DEF NumberOf
<1>3. Byte \in Nat \ {0} /\ n < Byte * Byte
  BY WireAssumption DEF MaxString
<1>4. w[2] = n \div Byte
  <2>1. n \div Byte \in Nat /\ n \div Byte < Byte
    BY <1>3, DivMod, DivSmall
  <2> QED
    BY <1>1, <1>3, <2>1, ModSmall
<1> DEFINE q == n \div Byte
<1>5. q \in Nat /\ n % Byte \in Nat /\ n = Byte * q + (n % Byte)
  BY <1>3, DivMod
<1>6. w[2] = q
  BY <1>4
<1> HIDE DEF q
<1>7. Byte * 0 = 0 /\ 0 + Byte * 0 = 0 /\ q + 0 = q
  BY <1>3, <1>5
<1>8. w[1] + Byte * (w[2] + Byte * (0 + Byte * 0)) = (n % Byte) + Byte * q
  BY <1>1, <1>6, <1>7
<1> QED
  BY <1>2, <1>3, <1>5, <1>8 DEF w

(* A number that four bytes can say is read as it was written. *)
LEMMA Uint32Read ==
    ASSUME NEW n \in Nat, n <= MaxUint32
    PROVE  NumberOf(WriteUint32(n)) = n
<1> DEFINE w == WriteUint32(n)
           q1 == n \div Byte
           q2 == q1 \div Byte
           q3 == q2 \div Byte
<1>0. Byte \in Nat \ {0}
  BY WireAssumption
<1>1. /\ q1 \in Nat /\ n % Byte \in Nat /\ n = Byte * q1 + (n % Byte)
      /\ q2 \in Nat /\ q1 % Byte \in Nat /\ q1 = Byte * q2 + (q1 % Byte)
      /\ q3 \in Nat /\ q2 % Byte \in Nat /\ q2 = Byte * q3 + (q2 % Byte)
  BY <1>0, DivMod
<1>2. /\ w \in Seq(Nat) /\ Len(w) = 4
      /\ w[1] = n % Byte /\ w[2] = q1 % Byte
      /\ w[3] = q2 % Byte /\ w[4] = q3 % Byte
  BY Uint32Type
<1>3. n < Byte * (Byte * (Byte * Byte))
  BY <1>0 DEF MaxUint32
<1>4. q1 < Byte * (Byte * Byte)
  BY <1>0, <1>1, <1>3, DivSmall, MulNat
<1>5. q2 < Byte * Byte
  BY <1>0, <1>1, <1>4, DivSmall, MulNat
<1>6. q3 < Byte
  BY <1>0, <1>1, <1>5, DivSmall
<1>7. w[4] = q3
  BY <1>0, <1>1, <1>2, <1>6, ModSmall
<1> HIDE DEF w, q1, q2, q3
<1>8. NumberOf(w) = w[1] + Byte * (w[2] + Byte * (w[3] + Byte * w[4]))
  BY <1>2 DEF NumberOf
<1>9. w[3] + Byte * w[4] = q2
  <2>1. w[3] = q2 % Byte /\ w[4] = q3
    BY <1>2, <1>7
  <2> QED
    BY <1>0, <1>1, <2>1
<1>10. w[2] + Byte * q2 = q1
  BY <1>0, <1>1, <1>2
<1>11. w[1] + Byte * q1 = n
  BY <1>0, <1>1, <1>2
<1> QED
  BY <1>8, <1>9, <1>10, <1>11 DEF w

(* A piece of a sequence of bytes. *)
LEMMA PieceType ==
    ASSUME NEW s \in Seq(Nat), NEW k \in Nat, NEW n \in Nat, k + n <= Len(s)
    PROVE  /\ SubSeq(s, k + 1, k + n) \in Seq(Nat)
           /\ Len(SubSeq(s, k + 1, k + n)) = n
           /\ \A i \in 1..n : SubSeq(s, k + 1, k + n)[i] = s[k + i]
<1>1. \A i \in (k + 1)..(k + n) : s[i] \in Nat
  OBVIOUS
<1>2. SubSeq(s, k + 1, k + n) \in Seq(Nat)
  BY <1>1
<1>3. Len(SubSeq(s, k + 1, k + n)) = n
  BY <1>1
<1>4. \A i \in 1..n : SubSeq(s, k + 1, k + n)[i] = s[k + i]
  BY <1>1
<1> QED
  BY <1>2, <1>3, <1>4

(* A piece that has the same elements. *)
LEMMA PieceIs ==
    ASSUME NEW s \in Seq(Nat), NEW k \in Nat, NEW w \in Seq(Nat), NEW n \in Nat,
           n = Len(w), k + n <= Len(s), \A i \in 1..n : s[k + i] = w[i]
    PROVE  SubSeq(s, k + 1, k + n) = w
<1> DEFINE p == SubSeq(s, k + 1, k + n)
<1>1. p \in Seq(Nat) /\ Len(p) = n /\ \A i \in 1..n : p[i] = s[k + i]
  BY PieceType
<1> HIDE DEF p
<1>2. p = w
  BY <1>1, SeqEqual
<1> QED
  BY <1>2 DEF p

(* What was put into a sequence is found where it was put. *)
LEMMA PieceOfCat ==
    ASSUME NEW a \in Seq(Nat), NEW w \in Seq(Nat), NEW b \in Seq(Nat)
    PROVE  SubSeq(Cat(a, Cat(w, b)), Len(a) + 1, Len(a) + Len(w)) = w
<1> DEFINE s == Cat(a, Cat(w, b))
<1>1. PICK k \in Nat, n \in Nat : k = Len(a) /\ n = Len(w)
  BY LenProperties
<1>2. /\ Cat(w, b) \in Seq(Nat) /\ s \in Seq(Nat)
      /\ Len(Cat(w, b)) = Len(w) + Len(b) /\ Len(s) = Len(a) + Len(Cat(w, b))
  BY CatType
<1>3. n <= Len(Cat(w, b)) /\ k + n <= Len(s)
  BY <1>1, <1>2, LenProperties
<1>4. ASSUME NEW i \in 1..n PROVE s[k + i] = w[i]
  <2>1. i \in 1..Len(Cat(w, b)) /\ i \in 1..Len(w)
    BY <1>1, <1>3
  <2>2. s[k + i] = Cat(w, b)[i]
    BY <1>1, <1>2, <2>1, CatRight
  <2>3. Cat(w, b)[i] = w[i]
    BY <2>1, CatLeft
  <2> QED
    BY <2>2, <2>3
<1> HIDE DEF s
<1>5. SubSeq(s, k + 1, k + n) = w
  BY <1>1, <1>2, <1>3, <1>4, PieceIs
<1> QED
  BY <1>1, <1>5 DEF s

(* Putting together does not depend on the order it is done in. *)
LEMMA CatAssoc ==
    ASSUME NEW a \in Seq(Nat), NEW b \in Seq(Nat), NEW c \in Seq(Nat)
    PROVE  Cat(Cat(a, b), c) = Cat(a, Cat(b, c))
BY ConcatAssociative DEF Cat

LEMMA CatEmpty ==
    ASSUME NEW a \in Seq(Nat)
    PROVE  Cat(a, << >>) = a /\ Cat(<< >>, a) = a
BY ConcatEmptySeq DEF Cat

(* The beginning of a sequence has the same pieces. *)
LEMMA PieceOfPiece ==
    ASSUME NEW s \in Seq(Nat), NEW n \in Nat, n <= Len(s),
           NEW k \in Nat, NEW m \in Nat, k + m <= n
    PROVE  /\ SubSeq(s, 1, n) \in Seq(Nat) /\ Len(SubSeq(s, 1, n)) = n
           /\ SubSeq(SubSeq(s, 1, n), k + 1, k + m) = SubSeq(s, k + 1, k + m)
<1> DEFINE e == SubSeq(s, 1, n)
           w == SubSeq(s, k + 1, k + m)
<1>1. e \in Seq(Nat) /\ Len(e) = n /\ \A i \in 1..n : e[i] = s[i]
  <2>1. 0 \in Nat /\ 0 + n = n /\ 0 + 1 = 1 /\ \A i \in 1..n : 0 + i = i
    OBVIOUS
  <2>2. /\ SubSeq(s, 0 + 1, 0 + n) \in Seq(Nat)
        /\ Len(SubSeq(s, 0 + 1, 0 + n)) = n
        /\ \A i \in 1..n : SubSeq(s, 0 + 1, 0 + n)[i] = s[0 + i]
    BY <2>1, PieceType
  <2> QED
    BY <2>1, <2>2
<1>2. k + m <= Len(s)
  BY LenProperties
<1>3. w \in Seq(Nat) /\ Len(w) = m /\ \A i \in 1..m : w[i] = s[k + i]
  BY <1>2, PieceType
<1> HIDE DEF e, w
<1>4. \A i \in 1..m : k + i \in 1..n
  OBVIOUS
<1>5. \A i \in 1..m : e[k + i] = w[i]
  BY <1>1, <1>3, <1>4
<1>6. SubSeq(e, k + 1, k + m) = w
  BY <1>1, <1>3, <1>5, PieceIs
<1> QED
  BY <1>1, <1>6 DEF e, w

SamePiece(s, e, k, m) == SubSeq(e, k + 1, k + m) = SubSeq(s, k + 1, k + m)

LEMMA PieceSame ==
    ASSUME NEW s \in Seq(Nat), NEW n \in Nat, n <= Len(s),
           NEW k \in Nat, NEW m \in Nat, k + m <= n
    PROVE  SamePiece(s, SubSeq(s, 1, n), k, m)
BY PieceOfPiece DEF SamePiece

(* A text behind a number that says how long it is. *)
LEMMA ReadCountedIs ==
    ASSUME NEW a \in Seq(Nat), NEW w \in Seq(Nat), NEW s \in Seq(Nat),
           NEW b \in Seq(Nat), NEW width \in Nat,
           Len(w) = width, NumberOf(w) = Len(s)
    PROVE  ReadCounted(Cat(a, Cat(Cat(w, s), b)), Len(a), width)
              = Got(s, Len(a) + width + Len(s))
<1> DEFINE data == Cat(a, Cat(Cat(w, s), b))
<1>1. PICK k \in Nat, n \in Nat, m \in Nat :
         k = Len(a) /\ n = Len(s) /\ m = Len(b)
  BY LenProperties
<1>2. data = Cat(a, Cat(w, Cat(s, b))) /\ data = Cat(Cat(a, w), Cat(s, b))
  <2>1. Cat(Cat(w, s), b) = Cat(w, Cat(s, b)) /\ Cat(s, b) \in Seq(Nat)
    BY CatAssoc, CatType
  <2> QED
    BY <2>1, CatAssoc
<1>3. data \in Seq(Nat) /\ Len(data) = k + width + n + m /\ Len(Cat(a, w)) = k + width
  <2>1. Cat(w, s) \in Seq(Nat) /\ Len(Cat(w, s)) = Len(w) + Len(s)
    BY CatType
  <2>2. Cat(Cat(w, s), b) \in Seq(Nat) /\ Len(Cat(Cat(w, s), b)) = Len(Cat(w, s)) + Len(b)
    BY <2>1, CatType
  <2>3. data \in Seq(Nat) /\ Len(data) = Len(a) + Len(Cat(Cat(w, s), b))
    BY <2>2, CatType
  <2>4. Len(Cat(a, w)) = Len(a) + Len(w)
    BY CatType
  <2> QED
    BY <1>1, <2>1, <2>2, <2>3, <2>4
<1>4. SubSeq(data, k + 1, k + width) = w
  <2>1. Cat(s, b) \in Seq(Nat)
    BY CatType
  <2>2. SubSeq(Cat(a, Cat(w, Cat(s, b))), Len(a) + 1, Len(a) + Len(w)) = w
    BY <2>1, PieceOfCat
  <2> QED
    BY <1>1, <1>2, <2>2
<1>5. SubSeq(data, k + width + 1, k + width + n) = s
  <2>1. Cat(a, w) \in Seq(Nat)
    BY CatType
  <2>2. SubSeq(Cat(Cat(a, w), Cat(s, b)), Len(Cat(a, w)) + 1, Len(Cat(a, w)) + Len(s)) = s
    BY <2>1, PieceOfCat
  <2> QED
    BY <1>1, <1>2, <1>3, <2>2
<1> HIDE DEF data
<1>6. ReadNumber(data, k, width) = Got(n, k + width)
  <2>1. ~(k + width > Len(data))
    BY <1>3
  <2> QED
    BY <1>1, <1>4, <2>1 DEF ReadNumber
<1>7. ~(k + width + n > Len(data))
  BY <1>3
<1>8. ReadCounted(data, k, width) = Got(s, k + width + n)
  <2>1. /\ ReadNumber(data, k, width).ok = TRUE
        /\ ReadNumber(data, k, width).value = n
        /\ ReadNumber(data, k, width).at = k + width
    BY <1>6 DEF Got
  <2> QED
    BY <1>5, <1>7, <2>1 DEF ReadCounted, Then
<1> QED
  BY <1>1, <1>8 DEF data

(* A text whose end is missing is not read. *)
LEMMA ReadCountedCut ==
    ASSUME NEW data, Len(data) \in Nat, NEW at \in Nat, NEW width \in Nat, NEW n \in Nat,
           at + width <= Len(data) =>
              NumberOf(SubSeq(data, at + 1, at + width)) = n,
           at + width + n > Len(data)
    PROVE  ReadCounted(data, at, width) = Unread
<1>1. CASE at + width > Len(data)
  <2>1. ReadNumber(data, at, width).ok = FALSE
    BY <1>1 DEF ReadNumber, Unread
  <2> QED
    BY <2>1 DEF ReadCounted, Then
<1>2. CASE ~(at + width > Len(data))
  <2>1. ReadNumber(data, at, width) = Got(n, at + width)
    BY <1>2 DEF ReadNumber
  <2>2. /\ ReadNumber(data, at, width).ok = TRUE
        /\ ReadNumber(data, at, width).value = n
        /\ ReadNumber(data, at, width).at = at + width
    BY <2>1 DEF Got
  <2> QED
    BY <2>2 DEF ReadCounted, Then
<1> QED
  BY <1>1, <1>2

(* How far two and four bytes count. *)
LEMMA MaxStringType == /\ MaxString \in Nat /\ MaxUint32 \in Nat
                       /\ MaxString >= 15 /\ MaxUint32 >= 3 * MaxString + 8
<1>1. Byte \in Nat /\ Byte >= 4
  BY WireAssumption
<1> DEFINE b2 == Byte * Byte
<1>2. b2 \in Nat /\ b2 >= 16
  BY <1>1
<1>3. b2 * b2 \in Nat /\ b2 * b2 >= 16 * b2
  <2> HIDE DEF b2
  <2> QED
    BY <1>2
<1>4. b2 * b2 = Byte * Byte * Byte * Byte
  BY <1>1
<1> QED
  BY <1>2, <1>3, <1>4 DEF MaxString, MaxUint32

(* What fits into its length is written as it is. *)
LEMMA ShortString ==
    ASSUME NEW s \in Seq(Nat), Len(s) <= MaxString
    PROVE  WriteString(s) = Cat(WriteUint16(Len(s)), s)
<1>1. Min({Len(s), MaxString}) = Len(s)
  BY LenProperties, MaxStringType DEF Min
<1>2. SubSeq(s, 1, Len(s)) = s
  BY SubSeqFull
<1> QED
  BY <1>1, <1>2 DEF WriteString, Cat

(* How long a written string is. *)
LEMMA StringType ==
    ASSUME NEW s \in Seq(Nat)
    PROVE  /\ WriteString(s) \in Seq(Nat)
           /\ Len(WriteString(s)) = 2 + IF Len(s) <= MaxString THEN Len(s) ELSE MaxString
<1> DEFINE n == IF Len(s) <= MaxString THEN Len(s) ELSE MaxString
<1>1. Min({Len(s), MaxString}) = n
  BY LenProperties, MaxStringType DEF Min
<1>2. n \in Nat /\ n <= Len(s)
  BY LenProperties, MaxStringType
<1> HIDE DEF n
<1>3. SubSeq(s, 1, n) \in Seq(Nat) /\ Len(SubSeq(s, 1, n)) = n
  <2>1. 0 \in Nat /\ 0 + 0 <= n
    BY <1>2
  <2> QED
    BY <1>2, <2>1, PieceOfPiece
<1>4. WriteString(s) = Cat(WriteUint16(n), SubSeq(s, 1, n))
  BY <1>1 DEF WriteString, Cat
<1>5. WriteUint16(n) \in Seq(Nat) /\ Len(WriteUint16(n)) = 2
  BY <1>2, Uint16Type
<1>6. /\ Cat(WriteUint16(n), SubSeq(s, 1, n)) \in Seq(Nat)
      /\ Len(Cat(WriteUint16(n), SubSeq(s, 1, n)))
            = Len(WriteUint16(n)) + Len(SubSeq(s, 1, n))
  BY <1>3, <1>5, CatType
<1> QED
  BY <1>3, <1>4, <1>5, <1>6 DEF n

(* How long written bytes are. *)
LEMMA BytesType ==
    ASSUME NEW s \in Seq(Nat)
    PROVE  /\ WriteBytes(s) = Cat(WriteUint32(Len(s)), s)
           /\ WriteBytes(s) \in Seq(Nat) /\ Len(WriteBytes(s)) = 4 + Len(s)
<1>1. Len(s) \in Nat
  BY LenProperties
<1>2. WriteUint32(Len(s)) \in Seq(Nat) /\ Len(WriteUint32(Len(s))) = 4
  BY <1>1, Uint32Type
<1>3. WriteBytes(s) = Cat(WriteUint32(Len(s)), s)
  BY DEF WriteBytes, Cat
<1>4. /\ Cat(WriteUint32(Len(s)), s) \in Seq(Nat)
      /\ Len(Cat(WriteUint32(Len(s)), s)) = Len(WriteUint32(Len(s))) + Len(s)
  BY <1>2, CatType
<1> QED
  BY <1>2, <1>3, <1>4

(* Strings and bytes are read as they were written. *)
LEMMA ReadStringIs ==
    ASSUME NEW a \in Seq(Nat), NEW s \in Seq(Nat), NEW b \in Seq(Nat),
           Len(s) <= MaxString
    PROVE  ReadString(Cat(a, Cat(WriteString(s), b)), Len(a))
              = Got(s, Len(a) + 2 + Len(s))
<1>1. PICK width \in Nat, w \in Seq(Nat) :
         /\ width = 2 /\ Len(w) = width /\ NumberOf(w) = Len(s)
         /\ WriteString(s) = Cat(w, s)
  <2> DEFINE w == WriteUint16(Len(s))
  <2>1. /\ w \in Seq(Nat) /\ Len(w) = 2 /\ NumberOf(w) = Len(s)
        /\ WriteString(s) = Cat(w, s)
    BY LenProperties, Uint16Type, Uint16Read, ShortString
  <2> QED
    BY <2>1
<1>2. Len(w) = width /\ NumberOf(w) = Len(s)
  BY <1>1
<1>3. ReadCounted(Cat(a, Cat(Cat(w, s), b)), Len(a), width)
         = Got(s, Len(a) + width + Len(s))
  BY <1>2, ReadCountedIs
<1> QED
  BY <1>1, <1>3 DEF ReadString

LEMMA ReadBytesIs ==
    ASSUME NEW a \in Seq(Nat), NEW s \in Seq(Nat), NEW b \in Seq(Nat),
           Len(s) <= MaxUint32
    PROVE  ReadBytes(Cat(a, Cat(WriteBytes(s), b)), Len(a))
              = Got(s, Len(a) + 4 + Len(s))
<1>1. PICK width \in Nat, w \in Seq(Nat) :
         /\ width = 4 /\ Len(w) = width /\ NumberOf(w) = Len(s)
         /\ WriteBytes(s) = Cat(w, s)
  <2> DEFINE w == WriteUint32(Len(s))
  <2>1. /\ w \in Seq(Nat) /\ Len(w) = 4 /\ NumberOf(w) = Len(s)
        /\ WriteBytes(s) = Cat(w, s)
    BY LenProperties, Uint32Type, Uint32Read, BytesType
  <2> QED
    BY <2>1
<1>2. Len(w) = width /\ NumberOf(w) = Len(s)
  BY <1>1
<1>3. ReadCounted(Cat(a, Cat(Cat(w, s), b)), Len(a), width)
         = Got(s, Len(a) + width + Len(s))
  BY <1>2, ReadCountedIs
<1> QED
  BY <1>1, <1>3 DEF ReadBytes

(* The parts of a frame. *)
LEMMA FrameForm ==
    ASSUME NEW type \in Nat, NEW payload \in Seq(Nat)
    PROVE  \E m, v, t, l \in Seq(Nat) :
             /\ m = WriteUint32(Magic) /\ v = WriteUint16(Version)
             /\ t = WriteUint16(type) /\ l = WriteUint32(Len(payload))
             /\ Len(m) = 4 /\ Len(v) = 2 /\ Len(t) = 2 /\ Len(l) = 4
             /\ EncodeFrame(type, payload)
                   = Cat(m, Cat(v, Cat(t, Cat(l, payload))))
<1> DEFINE m == WriteUint32(Magic)
           v == WriteUint16(Version)
           t == WriteUint16(type)
           l == WriteUint32(Len(payload))
<1>1. Magic \in Nat /\ Version \in Nat /\ Len(payload) \in Nat
  BY WireAssumption, LenProperties
<1>2. /\ m \in Seq(Nat) /\ v \in Seq(Nat) /\ t \in Seq(Nat) /\ l \in Seq(Nat)
      /\ Len(m) = 4 /\ Len(v) = 2 /\ Len(t) = 2 /\ Len(l) = 4
  BY <1>1, Uint16Type, Uint32Type
<1>3. EncodeFrame(type, payload) = Cat(Cat(Cat(Cat(m, v), t), l), payload)
  BY DEF EncodeFrame, Cat
<1> HIDE DEF m, v, t, l
<1>4. Cat(m, v) \in Seq(Nat) /\ Cat(Cat(m, v), t) \in Seq(Nat)
  BY <1>2, CatType
<1>5. Cat(l, payload) \in Seq(Nat) /\ Cat(t, Cat(l, payload)) \in Seq(Nat)
  BY <1>2, CatType
<1>6. Cat(Cat(Cat(Cat(m, v), t), l), payload)
         = Cat(Cat(Cat(m, v), t), Cat(l, payload))
  BY <1>2, <1>4, CatAssoc
<1>7. Cat(Cat(Cat(m, v), t), Cat(l, payload)) = Cat(Cat(m, v), Cat(t, Cat(l, payload)))
  BY <1>2, <1>4, <1>5, CatAssoc
<1>8. Cat(Cat(m, v), Cat(t, Cat(l, payload))) = Cat(m, Cat(v, Cat(t, Cat(l, payload))))
  BY <1>2, <1>5, CatAssoc
<1>9. EncodeFrame(type, payload) = Cat(m, Cat(v, Cat(t, Cat(l, payload))))
  BY <1>3, <1>6, <1>7, <1>8
<1> QED
  BY <1>2, <1>9 DEF m, v, t, l

FrameOf(m, v, t, l, payload, d) ==
    /\ Len(m) = 4 /\ Len(v) = 2 /\ Len(t) = 2 /\ Len(l) = 4
    /\ d = Cat(m, Cat(v, Cat(t, Cat(l, payload))))

PartsOf(m, v, t, l, payload, d) ==
    /\ d \in Seq(Nat) /\ Len(d) = 12 + Len(payload)
    /\ SubSeq(d, 1, 4) = m /\ SubSeq(d, 5, 6) = v /\ SubSeq(d, 7, 8) = t
    /\ SubSeq(d, 9, 12) = l
    /\ d = Cat(Cat(Cat(m, v), t), Cat(l, payload))
    /\ Cat(Cat(m, v), t) \in Seq(Nat) /\ Len(Cat(Cat(m, v), t)) = 8

(* Where they are. *)
LEMMA HeaderParts ==
    ASSUME NEW m \in Seq(Nat), NEW v \in Seq(Nat), NEW t \in Seq(Nat),
           NEW l \in Seq(Nat), NEW payload \in Seq(Nat), NEW d,
           FrameOf(m, v, t, l, payload, d)
    PROVE  PartsOf(m, v, t, l, payload, d)
<1>0. /\ Len(m) = 4 /\ Len(v) = 2 /\ Len(t) = 2 /\ Len(l) = 4
      /\ d = Cat(m, Cat(v, Cat(t, Cat(l, payload))))
  BY DEF FrameOf
<1> DEFINE lp == Cat(l, payload)
           tlp == Cat(t, lp)
           mv == Cat(m, v)
           mvt == Cat(mv, t)
<1>1. lp \in Seq(Nat) /\ Len(lp) = Len(l) + Len(payload)
  BY CatType
<1> HIDE DEF lp
<1>2. tlp \in Seq(Nat) /\ Len(tlp) = Len(t) + Len(lp)
  BY <1>1, CatType
<1> HIDE DEF tlp
<1>3. Cat(v, tlp) \in Seq(Nat) /\ Len(Cat(v, tlp)) = Len(v) + Len(tlp)
  BY <1>2, CatType
<1>4. d = Cat(m, Cat(v, tlp))
  BY <1>0 DEF tlp, lp
<1>5. d \in Seq(Nat) /\ Len(d) = Len(m) + Len(Cat(v, tlp))
  <2>1. /\ Cat(m, Cat(v, tlp)) \in Seq(Nat)
        /\ Len(Cat(m, Cat(v, tlp))) = Len(m) + Len(Cat(v, tlp))
    BY <1>3, CatType
  <2> QED
    BY <1>4, <2>1
<1>6. Len(d) = 12 + Len(payload)
  BY <1>0, <1>1, <1>2, <1>3, <1>5, LenProperties
<1>7. mv \in Seq(Nat) /\ Len(mv) = Len(m) + Len(v)
  BY CatType
<1>8. d = Cat(mv, tlp)
  BY <1>2, <1>4, CatAssoc
<1> HIDE DEF mv
<1>9. mvt \in Seq(Nat) /\ Len(mvt) = Len(mv) + Len(t)
  BY <1>7, CatType
<1>10. d = Cat(mvt, lp)
  BY <1>1, <1>7, <1>8, CatAssoc DEF tlp
<1> HIDE DEF mvt
<1>11. SubSeq(d, 1, 4) = m
  <2>1. PICK a \in Seq(Nat) : a = << >> /\ Len(a) = 0
    BY EmptySeq
  <2>2. SubSeq(Cat(a, Cat(m, Cat(v, tlp))), Len(a) + 1, Len(a) + Len(m)) = m
    BY <1>3, PieceOfCat
  <2>3. Cat(a, d) = d
    BY <1>5, <2>1, CatEmpty
  <2> QED
    BY <1>0, <1>4, <2>1, <2>2, <2>3
<1>12. SubSeq(d, 5, 6) = v
  <2>1. SubSeq(Cat(m, Cat(v, tlp)), Len(m) + 1, Len(m) + Len(v)) = v
    BY <1>2, PieceOfCat
  <2> QED
    BY <1>0, <1>4, <2>1
<1>13. SubSeq(d, 7, 8) = t
  <2>1. SubSeq(Cat(mv, Cat(t, lp)), Len(mv) + 1, Len(mv) + Len(t)) = t
    BY <1>1, <1>7, PieceOfCat
  <2>2. d = Cat(mv, Cat(t, lp)) /\ Len(mv) = 6
    BY <1>0, <1>7, <1>8 DEF tlp
  <2> QED
    BY <1>0, <2>1, <2>2
<1>14. SubSeq(d, 9, 12) = l
  <2>1. SubSeq(Cat(mvt, Cat(l, payload)), Len(mvt) + 1, Len(mvt) + Len(l)) = l
    BY <1>9, PieceOfCat
  <2>2. d = Cat(mvt, Cat(l, payload)) /\ Len(mvt) = 8
    BY <1>0, <1>7, <1>9, <1>10 DEF lp
  <2> QED
    BY <1>0, <2>1, <2>2
<1>15. Len(mvt) = 8
  BY <1>0, <1>7, <1>9
<1> QED
  BY <1>5, <1>6, <1>9, <1>10, <1>11, <1>12, <1>13, <1>14, <1>15
     DEF mvt, mv, lp, PartsOf

(* The numbers of a frame's header are read as they were written. *)
LEMMA NumbersOfHeader ==
    ASSUME NEW type \in 0..MaxString
    PROVE  /\ NumberOf(WriteUint32(Magic)) = Magic
           /\ NumberOf(WriteUint16(Version)) = Version
           /\ NumberOf(WriteUint16(type)) = type
<1>1. Magic \in Nat /\ Magic <= MaxUint32 /\ Version \in Nat /\ Version <= MaxString
  BY WireAssumption, MaxStringType DEF MaxUint32, MaxString
<1>2. type \in Nat /\ type <= MaxString
  BY MaxStringType
<1> QED
  BY <1>1, <1>2, Uint16Read, Uint32Read

(* A whole frame is read as it was written. *)
LEMMA FrameRead ==
    ASSUME NEW type \in 0..MaxString, NEW payload \in Seq(Nat),
           Len(payload) <= MaxUint32
    PROVE  DecodeFrame(EncodeFrame(type, payload))
              = Got([type |-> type, payload |-> payload], 12 + Len(payload))
<1> DEFINE d == EncodeFrame(type, payload)
<1>0. type \in Nat /\ Len(payload) \in Nat
  BY MaxStringType, LenProperties
<1>1. PICK m, v, t, l \in Seq(Nat) :
         /\ m = WriteUint32(Magic) /\ v = WriteUint16(Version)
         /\ t = WriteUint16(type) /\ l = WriteUint32(Len(payload))
         /\ Len(m) = 4 /\ Len(v) = 2 /\ Len(t) = 2 /\ Len(l) = 4
         /\ d = Cat(m, Cat(v, Cat(t, Cat(l, payload))))
  BY <1>0, FrameForm
<1> HIDE DEF d
<1>2. /\ d \in Seq(Nat) /\ Len(d) = 12 + Len(payload)
      /\ SubSeq(d, 1, 4) = m /\ SubSeq(d, 5, 6) = v /\ SubSeq(d, 7, 8) = t
      /\ d = Cat(Cat(Cat(m, v), t), Cat(l, payload))
      /\ Cat(Cat(m, v), t) \in Seq(Nat) /\ Len(Cat(Cat(m, v), t)) = 8
  <2>1. FrameOf(m, v, t, l, payload, d)
    BY <1>1 DEF FrameOf
  <2>2. PartsOf(m, v, t, l, payload, d)
    BY <2>1, HeaderParts
  <2> QED
    BY <2>2 DEF PartsOf
<1>3. /\ NumberOf(SubSeq(d, 1, 4)) = Magic /\ NumberOf(SubSeq(d, 5, 6)) = Version
      /\ NumberOf(SubSeq(d, 7, 8)) = type
  BY <1>1, <1>2, NumbersOfHeader
<1>4. ReadBytes(d, 8) = Got(payload, 12 + Len(payload))
  <2> DEFINE h == Cat(Cat(m, v), t)
  <2>1. h \in Seq(Nat) /\ Len(h) = 8 /\ d = Cat(h, Cat(l, payload))
    BY <1>2
  <2> HIDE DEF h
  <2>2. WriteBytes(payload) = Cat(l, payload) /\ Cat(l, payload) \in Seq(Nat)
    BY <1>1, BytesType, CatType
  <2>3. Cat(WriteBytes(payload), << >>) = WriteBytes(payload) /\ << >> \in Seq(Nat)
    BY <2>2, CatEmpty, EmptySeq
  <2>4. ReadBytes(Cat(h, Cat(WriteBytes(payload), << >>)), Len(h))
           = Got(payload, Len(h) + 4 + Len(payload))
    BY <2>1, <2>3, ReadBytesIs
  <2> QED
    BY <1>0, <2>1, <2>2, <2>3, <2>4
<1>5. ~(Len(d) < HeaderSize)
  BY <1>0, <1>2 DEF HeaderSize
<1>6. /\ ReadBytes(d, 8).ok = TRUE /\ ReadBytes(d, 8).value = payload
      /\ ReadBytes(d, 8).at = 12 + Len(payload)
  BY <1>4 DEF Got
<1>7. DecodeFrame(d) = Got([type |-> type, payload |-> payload], 12 + Len(payload))
  BY <1>3, <1>5, <1>6 DEF DecodeFrame, Then
<1> QED
  BY <1>7 DEF d

(* A frame that was cut is not read. *)
LEMMA FrameCut ==
    ASSUME NEW type \in 0..MaxString, NEW payload \in Seq(Nat),
           Len(payload) <= MaxUint32,
           NEW n \in Nat, n < Len(EncodeFrame(type, payload))
    PROVE  DecodeFrame(SubSeq(EncodeFrame(type, payload), 1, n)) = Unread
<1> DEFINE d == EncodeFrame(type, payload)
           e == SubSeq(d, 1, n)
<1>0. type \in Nat
  BY MaxStringType
<1>1. PICK k \in Nat : k = Len(payload)
  BY LenProperties
<1>2. PICK m, v, t, l \in Seq(Nat) :
         /\ l = WriteUint32(Len(payload))
         /\ Len(m) = 4 /\ Len(v) = 2 /\ Len(t) = 2 /\ Len(l) = 4
         /\ d = Cat(m, Cat(v, Cat(t, Cat(l, payload))))
  BY <1>0, FrameForm
<1> HIDE DEF d
<1>3. d \in Seq(Nat) /\ Len(d) = 12 + Len(payload) /\ SubSeq(d, 9, 12) = l
  <2>1. FrameOf(m, v, t, l, payload, d)
    BY <1>2 DEF FrameOf
  <2>2. PartsOf(m, v, t, l, payload, d)
    BY <2>1, HeaderParts
  <2> QED
    BY <2>2 DEF PartsOf
<1>4. NumberOf(l) = k
  BY <1>1, <1>2, Uint32Read
<1>5. Len(e) = n
  <2>1. n <= Len(d) /\ 0 \in Nat /\ 0 + 0 <= n
    BY <1>1, <1>3 DEF d
  <2> QED
    BY <1>3, <2>1, PieceOfPiece
<1>6. 12 <= n => SubSeq(e, 9, 12) = SubSeq(d, 9, 12)
  <2> SUFFICES ASSUME 12 <= n PROVE SubSeq(e, 9, 12) = SubSeq(d, 9, 12)
    OBVIOUS
  <2>1. PICK a \in Nat, b \in Nat : a = 8 /\ b = 4
    OBVIOUS
  <2>2. n <= Len(d) /\ a + b <= n
    BY <1>1, <1>3, <2>1 DEF d
  <2>3. SamePiece(d, SubSeq(d, 1, n), a, b)
    BY <1>3, <2>2, PieceSame
  <2>4. SubSeq(e, a + 1, a + b) = SubSeq(d, a + 1, a + b)
    BY <2>3 DEF SamePiece
  <2> QED
    BY <2>1, <2>4
<1>7. n < 12 + k
  BY <1>1, <1>3 DEF d
<1> HIDE DEF e
<1>8. ReadBytes(e, 8) = Unread
  <2>1. PICK a \in Nat, b \in Nat : a = 8 /\ b = 4
    OBVIOUS
  <2>2. a + b <= Len(e) => NumberOf(SubSeq(e, a + 1, a + b)) = k
    <3> SUFFICES ASSUME a + b <= Len(e)
                 PROVE  NumberOf(SubSeq(e, a + 1, a + b)) = k
      OBVIOUS
    <3>1. 12 <= n /\ a + 1 = 9 /\ a + b = 12
      BY <1>5, <2>1
    <3>2. SubSeq(e, 9, 12) = l
      BY <1>3, <1>6, <3>1
    <3> QED
      BY <1>4, <3>1, <3>2
  <2>3. Len(e) \in Nat /\ a + b + k > Len(e)
    BY <1>5, <1>7, <2>1
  <2>4. ReadCounted(e, a, b) = Unread
    BY <2>2, <2>3, ReadCountedCut
  <2> QED
    BY <2>1, <2>4 DEF ReadBytes
<1>9. ReadBytes(e, 8).ok = FALSE
  BY <1>8 DEF Unread
<1>10. DecodeFrame(e) = Unread
  BY <1>9 DEF DecodeFrame, Then
<1> QED
  BY <1>10 DEF e, d

-----------------------------------------------------------------------------
(* From the offset at on, data is rest. *)
At(data, at, rest) ==
    \E a \in Seq(Nat) : at = Len(a) /\ data = Cat(a, rest)

LEMMA AtType ==
    ASSUME NEW data, NEW at, NEW rest \in Seq(Nat), At(data, at, rest)
    PROVE  /\ at \in Nat /\ data \in Seq(Nat) /\ Len(data) = at + Len(rest)
           /\ SubSeq(data, at + 1, Len(data)) = rest
<1>1. PICK a \in Seq(Nat) : at = Len(a) /\ data = Cat(a, rest)
  BY DEF At
<1>2. at \in Nat
  BY <1>1, LenProperties
<1>3. Cat(a, rest) \in Seq(Nat) /\ Len(Cat(a, rest)) = Len(a) + Len(rest)
  BY CatType
<1>4. SubSeq(Cat(a, Cat(rest, << >>)), Len(a) + 1, Len(a) + Len(rest)) = rest
  <2>1. << >> \in Seq(Nat)
    BY EmptySeq
  <2> QED
    BY <2>1, PieceOfCat
<1>5. Cat(rest, << >>) = rest
  BY CatEmpty
<1> QED
  BY <1>1, <1>2, <1>3, <1>4, <1>5

LEMMA AtStart ==
    ASSUME NEW data \in Seq(Nat)
    PROVE  At(data, 0, data)
<1>1. << >> \in Seq(Nat) /\ Len(<< >>) = 0 /\ Cat(<< >>, data) = data
  BY EmptySeq, CatEmpty
<1> QED
  BY <1>1 DEF At

(* Behind what was read comes the rest. *)
LEMMA AtNext ==
    ASSUME NEW data, NEW at, NEW x \in Seq(Nat), NEW rest \in Seq(Nat),
           At(data, at, Cat(x, rest))
    PROVE  At(data, at + Len(x), rest)
<1>1. PICK a \in Seq(Nat) : at = Len(a) /\ data = Cat(a, Cat(x, rest))
  BY DEF At
<1>2. Cat(a, x) \in Seq(Nat) /\ Len(Cat(a, x)) = Len(a) + Len(x)
  BY CatType
<1>3. data = Cat(Cat(a, x), rest)
  BY <1>1, CatAssoc
<1> QED
  BY <1>1, <1>2, <1>3 DEF At

(* Reading at an offset. *)
LEMMA ReadStringAt ==
    ASSUME NEW data, NEW at, NEW s \in Seq(Nat), NEW rest \in Seq(Nat),
           Len(s) <= MaxString, At(data, at, Cat(WriteString(s), rest))
    PROVE  /\ ReadString(data, at) = Got(s, at + 2 + Len(s))
           /\ At(data, at + 2 + Len(s), rest)
<1>1. PICK a \in Seq(Nat) : at = Len(a) /\ data = Cat(a, Cat(WriteString(s), rest))
  BY DEF At
<1>2. ReadString(data, at) = Got(s, at + 2 + Len(s))
  BY <1>1, ReadStringIs
<1>3. PICK w \in Seq(Nat) : w = WriteString(s) /\ Len(w) = 2 + Len(s)
  BY StringType
<1>4. At(data, at + Len(w), rest)
  BY <1>3, AtNext
<1>5. at + Len(w) = at + 2 + Len(s)
  BY <1>1, <1>3, LenProperties
<1> QED
  BY <1>2, <1>4, <1>5

LEMMA ReadBytesAt ==
    ASSUME NEW data, NEW at, NEW s \in Seq(Nat), NEW rest \in Seq(Nat),
           Len(s) <= MaxUint32, At(data, at, Cat(WriteBytes(s), rest))
    PROVE  /\ ReadBytes(data, at) = Got(s, at + 4 + Len(s))
           /\ At(data, at + 4 + Len(s), rest)
<1>1. PICK a \in Seq(Nat) : at = Len(a) /\ data = Cat(a, Cat(WriteBytes(s), rest))
  BY DEF At
<1>2. ReadBytes(data, at) = Got(s, at + 4 + Len(s))
  BY <1>1, ReadBytesIs
<1>3. PICK w \in Seq(Nat) : w = WriteBytes(s) /\ Len(w) = 4 + Len(s)
  BY BytesType
<1>4. At(data, at + Len(w), rest)
  BY <1>3, AtNext
<1>5. at + Len(w) = at + 4 + Len(s)
  BY <1>1, <1>3, LenProperties
<1> QED
  BY <1>2, <1>4, <1>5

LEMMA ReadUint32At ==
    ASSUME NEW data, NEW at, NEW n \in 0..MaxUint32, NEW rest \in Seq(Nat),
           At(data, at, Cat(WriteUint32(n), rest))
    PROVE  /\ ReadUint32(data, at) = Got(n, at + 4)
           /\ At(data, at + 4, rest)
<1>1. PICK a \in Seq(Nat) : at = Len(a) /\ data = Cat(a, Cat(WriteUint32(n), rest))
  BY DEF At
<1>2. n \in Nat /\ n <= MaxUint32
  BY MaxStringType
<1>3. PICK w \in Seq(Nat) : w = WriteUint32(n) /\ Len(w) = 4 /\ NumberOf(w) = n
  BY <1>2, Uint32Type, Uint32Read
<1>4. At(data, at + Len(w), rest)
  BY <1>3, AtNext
<1>5. SubSeq(Cat(a, Cat(w, rest)), Len(a) + 1, Len(a) + Len(w)) = w
  BY PieceOfCat
<1>6. SubSeq(data, at + 1, at + 4) = w
  BY <1>1, <1>3, <1>5
<1>7. at + Len(w) = at + 4
  BY <1>3
<1>8. ~(at + 4 > Len(data))
  BY <1>3, <1>4, <1>7, AtType, LenProperties
<1>9. ReadUint32(data, at) = Got(n, at + 4)
  BY <1>3, <1>6, <1>8 DEF ReadUint32, ReadNumber
<1> QED
  BY <1>4, <1>7, <1>9

-----------------------------------------------------------------------------
(* The call was read, whatever the offset behind it. *)
Decoded(r, call) == \E at : r = Got(call, at)

NamedRead(op, data, at, name, rest) ==
    /\ DecodeNamed(op, data, at) = Got(Call(op, name, << >>, 0), at + 2 + Len(name))
    /\ At(data, at + 2 + Len(name), rest)

(* The name with which most payloads begin. *)
LEMMA NamedAt ==
    ASSUME NEW data, NEW at, NEW op, NEW name \in Seq(Nat), NEW rest \in Seq(Nat),
           Len(name) <= MaxString, At(data, at, Cat(WriteString(name), rest))
    PROVE  NamedRead(op, data, at, name, rest)
<1> DEFINE r == ReadString(data, at)
<1>1. /\ r = Got(name, at + 2 + Len(name))
      /\ At(data, at + 2 + Len(name), rest)
  BY ReadStringAt
<1>2. r.ok = TRUE /\ r.value = name /\ r.at = at + 2 + Len(name)
  BY <1>1 DEF Got
<1>3. DecodeNamed(op, data, at) = Got(Call(op, name, << >>, 0), at + 2 + Len(name))
  BY <1>2 DEF DecodeNamed, Then
<1> QED
  BY <1>1, <1>3 DEF NamedRead

LEMMA TextRead ==
    ASSUME NEW op, NEW name, NEW text, NEW r, NEW at, r = Got(text, at)
    PROVE  DecodeText(Call(op, name, << >>, 0), r) = Got(Call(op, name, text, 0), at)
<1>1. r.ok = TRUE /\ r.value = text /\ r.at = at
  BY DEF Got
<1>2. [Call(op, name, << >>, 0) EXCEPT !.text = text] = Call(op, name, text, 0)
  BY DEF Call
<1> QED
  BY <1>1, <1>2 DEF DecodeText, Then

(* Two strings one after the other. *)
LEMMA PairForm ==
    ASSUME NEW x \in Seq(Nat), NEW y \in Seq(Nat)
    PROVE  /\ Cat(WriteString(x), WriteString(y)) \in Seq(Nat)
           /\ At(Cat(WriteString(x), WriteString(y)), 0,
                 Cat(WriteString(x), Cat(WriteString(y), << >>)))
           /\ Cat(WriteString(y), << >>) \in Seq(Nat)
<1>1. PICK u, w \in Seq(Nat) : u = WriteString(x) /\ w = WriteString(y)
  BY StringType
<1>2. Cat(u, w) \in Seq(Nat) /\ Cat(w, << >>) = w
  BY CatType, CatEmpty
<1>3. At(Cat(u, w), 0, Cat(u, w))
  BY <1>2, AtStart
<1> QED
  BY <1>1, <1>2, <1>3

(* The payloads of the operations. *)
LEMMA PairRead ==
    ASSUME NEW op, NEW name \in Seq(Nat), NEW text \in Seq(Nat),
           Len(name) <= MaxString, Len(text) <= MaxString
    PROVE  Decoded(DecodePair(op, Cat(WriteString(name), WriteString(text))),
                   Call(op, name, text, 0))
<1> DEFINE data == Cat(WriteString(name), WriteString(text))
           r == DecodeNamed(op, data, 0)
<1>1. /\ At(data, 0, Cat(WriteString(name), Cat(WriteString(text), << >>)))
      /\ Cat(WriteString(text), << >>) \in Seq(Nat) /\ << >> \in Seq(Nat)
  BY PairForm, EmptySeq
<1> HIDE DEF data
<1>2. PICK at : /\ r = Got(Call(op, name, << >>, 0), at)
                /\ At(data, at, Cat(WriteString(text), << >>))
  <2>1. NamedRead(op, data, 0, name, Cat(WriteString(text), << >>))
    BY <1>1, NamedAt
  <2>2. /\ r = Got(Call(op, name, << >>, 0), 0 + 2 + Len(name))
        /\ At(data, 0 + 2 + Len(name), Cat(WriteString(text), << >>))
    BY <2>1 DEF NamedRead
  <2> QED
    BY <2>2
<1>3. ReadString(data, at) = Got(text, at + 2 + Len(text))
  BY <1>1, <1>2, ReadStringAt
<1>4. DecodeText(Call(op, name, << >>, 0), ReadString(data, at))
         = Got(Call(op, name, text, 0), at + 2 + Len(text))
  BY <1>3, TextRead
<1>5. r.ok = TRUE /\ r.value = Call(op, name, << >>, 0) /\ r.at = at
  BY <1>2 DEF Got
<1>6. DecodePair(op, data) = Got(Call(op, name, text, 0), at + 2 + Len(text))
  BY <1>4, <1>5 DEF DecodePair, Then
<1> QED
  BY <1>6 DEF Decoded, data

LEMMA AddRead ==
    ASSUME NEW name \in Seq(Nat), NEW text \in Seq(Nat),
           Len(name) <= MaxString, Len(text) <= MaxString
    PROVE  Decoded(DecodeAdd(Cat(WriteString(name), WriteString(text))),
                   Call("add", name, text, 0))
<1> DEFINE data == Cat(WriteString(name), WriteString(text))
           r == DecodeNamed("add", data, 0)
<1>1. /\ At(data, 0, Cat(WriteString(name), Cat(WriteString(text), << >>)))
      /\ Cat(WriteString(text), << >>) \in Seq(Nat) /\ << >> \in Seq(Nat)
  BY PairForm, EmptySeq
<1> HIDE DEF data
<1>2. PICK at : /\ r = Got(Call("add", name, << >>, 0), at)
                /\ At(data, at, Cat(WriteString(text), << >>))
  <2>1. NamedRead("add", data, 0, name, Cat(WriteString(text), << >>))
    BY <1>1, NamedAt
  <2>2. /\ r = Got(Call("add", name, << >>, 0), 0 + 2 + Len(name))
        /\ At(data, 0 + 2 + Len(name), Cat(WriteString(text), << >>))
    BY <2>1 DEF NamedRead
  <2> QED
    BY <2>2
<1>3. ReadString(data, at) = Got(text, at + 2 + Len(text))
  BY <1>1, <1>2, ReadStringAt
<1>4. DecodeText(Call("add", name, << >>, 0), ReadString(data, at))
         = Got(Call("add", name, text, 0), at + 2 + Len(text))
  BY <1>3, TextRead
<1>5. r.ok = TRUE /\ r.value = Call("add", name, << >>, 0) /\ r.at = at
  BY <1>2 DEF Got
<1>6. at # Len(data)
  <2>1. at \in Nat /\ Len(data) = at + Len(Cat(WriteString(text), << >>))
    BY <1>1, <1>2, AtType
  <2>2. Cat(WriteString(text), << >>) = WriteString(text)
    BY StringType, CatEmpty
  <2>3. Len(WriteString(text)) = 2 + Len(text)
    BY StringType
  <2> QED
    BY <2>1, <2>2, <2>3, LenProperties
<1>7. DecodeAdd(data) = Got(Call("add", name, text, 0), at + 2 + Len(text))
  BY <1>4, <1>5, <1>6 DEF DecodeAdd, Then
<1> QED
  BY <1>7 DEF Decoded, data

LEMMA PushRead ==
    ASSUME NEW name \in Seq(Nat), NEW text \in Seq(Nat),
           Len(name) <= MaxString, Len(text) <= MaxUint32
    PROVE  Decoded(DecodePush(Cat(WriteString(name), WriteBytes(text))),
                   Call("push", name, text, 0))
<1> DEFINE data == Cat(WriteString(name), WriteBytes(text))
           r == DecodeNamed("push", data, 0)
<1>1. PICK u, w \in Seq(Nat) : u = WriteString(name) /\ w = WriteBytes(text)
  BY StringType, BytesType
<1>2. Cat(u, w) \in Seq(Nat) /\ Cat(w, << >>) = w /\ << >> \in Seq(Nat)
  BY CatType, CatEmpty, EmptySeq
<1>3. At(data, 0, Cat(WriteString(name), WriteBytes(text)))
  BY <1>1, <1>2, AtStart
<1> HIDE DEF data
<1>4. PICK at : /\ r = Got(Call("push", name, << >>, 0), at)
                /\ At(data, at, WriteBytes(text))
  <2>1. NamedRead("push", data, 0, name, WriteBytes(text))
    BY <1>1, <1>3, NamedAt
  <2>2. /\ r = Got(Call("push", name, << >>, 0), 0 + 2 + Len(name))
        /\ At(data, 0 + 2 + Len(name), WriteBytes(text))
    BY <2>1 DEF NamedRead
  <2> QED
    BY <2>2
<1>5. ReadBytes(data, at) = Got(text, at + 4 + Len(text))
  <2>1. At(data, at, Cat(WriteBytes(text), << >>)) /\ << >> \in Seq(Nat)
    BY <1>1, <1>2, <1>4
  <2> QED
    BY <2>1, ReadBytesAt
<1>6. DecodeText(Call("push", name, << >>, 0), ReadBytes(data, at))
         = Got(Call("push", name, text, 0), at + 4 + Len(text))
  BY <1>5, TextRead
<1>7. r.ok = TRUE /\ r.value = Call("push", name, << >>, 0) /\ r.at = at
  BY <1>4 DEF Got
<1>8. DecodePush(data) = Got(Call("push", name, text, 0), at + 4 + Len(text))
  BY <1>6, <1>7 DEF DecodePush, Then
<1> QED
  BY <1>8 DEF Decoded, data

LEMMA NumberSet ==
    ASSUME NEW op, NEW name, NEW text, NEW m, NEW n
    PROVE  [Call(op, name, text, m) EXCEPT !.n = n] = Call(op, name, text, n)
BY DEF Call

LEMMA MessageRead ==
    ASSUME NEW name \in Seq(Nat), NEW n \in 0..MaxUint32, NEW threshold,
           Len(name) <= MaxString
    PROVE  Decoded(DecodeMessage(Cat(WriteString(name), WriteUint32(n)), threshold),
                   Call("message", name, << >>, n))
<1> DEFINE data == Cat(WriteString(name), WriteUint32(n))
           r == DecodeNamed("message", data, 0)
<1>0. n \in Nat
  BY MaxStringType
<1>1. PICK u, w \in Seq(Nat) : u = WriteString(name) /\ w = WriteUint32(n) /\ Len(w) = 4
  BY <1>0, StringType, Uint32Type
<1>2. Cat(u, w) \in Seq(Nat) /\ Cat(w, << >>) = w /\ << >> \in Seq(Nat)
  BY CatType, CatEmpty, EmptySeq
<1>3. At(data, 0, Cat(WriteString(name), WriteUint32(n)))
  BY <1>1, <1>2, AtStart
<1> HIDE DEF data
<1>4. PICK at : /\ r = Got(Call("message", name, << >>, 0), at)
                /\ At(data, at, WriteUint32(n))
  <2>1. NamedRead("message", data, 0, name, WriteUint32(n))
    BY <1>1, <1>3, NamedAt
  <2>2. /\ r = Got(Call("message", name, << >>, 0), 0 + 2 + Len(name))
        /\ At(data, 0 + 2 + Len(name), WriteUint32(n))
    BY <2>1 DEF NamedRead
  <2> QED
    BY <2>2
<1>5. ReadUint32(data, at) = Got(n, at + 4)
  <2>1. At(data, at, Cat(WriteUint32(n), << >>)) /\ << >> \in Seq(Nat)
    BY <1>1, <1>2, <1>4
  <2> QED
    BY <2>1, ReadUint32At
<1>6. at \in Nat /\ Len(data) = at + 4
  <2>1. WriteUint32(n) \in Seq(Nat) /\ Len(WriteUint32(n)) = 4
    BY <1>1
  <2>2. at \in Nat /\ Len(data) = at + Len(WriteUint32(n))
    BY <1>4, <2>1, AtType
  <2> QED
    BY <2>1, <2>2
<1>7. ~(at + 4 > Len(data))
  BY <1>6
<1>8. /\ r.ok = TRUE /\ r.value = Call("message", name, << >>, 0) /\ r.at = at
      /\ ReadUint32(data, at).ok = TRUE /\ ReadUint32(data, at).value = n
      /\ ReadUint32(data, at).at = at + 4
  BY <1>4, <1>5 DEF Got
<1>9. [Call("message", name, << >>, 0) EXCEPT !.n = n] = Call("message", name, << >>, n)
  BY NumberSet
<1>10. DecodeMessage(data, threshold) = Got(Call("message", name, << >>, n), at + 4)
  BY <1>7, <1>8, <1>9 DEF DecodeMessage, Then
<1> QED
  BY <1>10 DEF Decoded, data

LEMMA JoinRead ==
    ASSUME NEW name \in Seq(Nat), Len(name) <= MaxString
    PROVE  Decoded(DecodeGroup(Cat(<<0>>, WriteString(name))),
                   Call("join", name, << >>, 0))
<1> DEFINE data == Cat(<<0>>, WriteString(name))
<1>1. PICK u, w \in Seq(Nat) : u = <<0>> /\ w = WriteString(name) /\ Len(u) = 1
  <2>1. <<0>> \in Seq(Nat) /\ Len(<<0>>) = 1
    OBVIOUS
  <2> QED
    BY <2>1, StringType
<1>2. Cat(w, << >>) = w /\ << >> \in Seq(Nat)
  BY CatEmpty, EmptySeq
<1>3. At(data, 1, Cat(WriteString(name), << >>))
  BY <1>1, <1>2 DEF At
<1>4. data # << >> /\ data[1] = 0
  <2>1. Cat(u, w) \in Seq(Nat) /\ Len(Cat(u, w)) = Len(u) + Len(w)
    BY CatType
  <2>2. Cat(u, w)[1] = u[1]
    <3>1. 1 \in 1..Len(u)
      BY <1>1
    <3> QED
      BY <3>1, CatLeft
  <2>3. Len(data) # 0
    BY <1>1, <2>1, LenProperties
  <2> QED
    BY <1>1, <2>2, <2>3, EmptySeq
<1> HIDE DEF data
<1>5. DecodeNamed("join", data, 1)
         = Got(Call("join", name, << >>, 0), 1 + 2 + Len(name))
  <2>1. NamedRead("join", data, 1, name, << >>)
    BY <1>2, <1>3, NamedAt
  <2> QED
    BY <2>1 DEF NamedRead
<1>6. GroupActions[0 + 1] = "join" /\ 0 \in 0..2
  BY DEF GroupActions
<1>7. DecodeGroup(data) = DecodeNamed("join", data, 1)
  BY <1>4, <1>6 DEF DecodeGroup
<1> QED
  BY <1>5, <1>7 DEF Decoded, data

-----------------------------------------------------------------------------
(* What a call of ClientCore may have. *)
LEMMA ClientCallType ==
    ASSUME NEW call \in ClientCalls
    PROVE  /\ call.op \in {"login", "logout", "join", "message", "push", "pull",
                           "friends", "add", "remark"}
           /\ call.name \in Seq(Nat) /\ call.text \in Seq(Nat)
           /\ call.n \in 0..MaxUint32
           /\ Len(call.text) <= MaxText
           /\ call = Call(call.op, call.name, call.text, call.n)
           /\ call.op \in {"logout", "pull", "friends"} => call.name = << >>
           /\ call.op \notin {"login", "add", "remark", "push"} => call.text = << >>
           /\ call.op # "message" => call.n = 0
BY DEF ClientCalls, Call

(* The numbers of the frames' types. *)
LEMMA TypeNumbers ==
    /\ FrameTypes.login = 1 /\ TypeOf("login") = 1
    /\ FrameTypes.logout = 2 /\ TypeOf("logout") = 2
    /\ FrameTypes.message = 3 /\ TypeOf("message") = 3
    /\ FrameTypes.group = 4 /\ TypeOf("join") = 4
    /\ TypeOf("leave") = 4 /\ TypeOf("kick") = 4
    /\ FrameTypes.heartbeat = 5
    /\ FrameTypes.push = 6 /\ TypeOf("push") = 6
    /\ FrameTypes.pull = 7 /\ TypeOf("pull") = 7
    /\ FrameTypes.friends = 8 /\ TypeOf("friends") = 8
    /\ FrameTypes.add = 9 /\ TypeOf("add") = 9
    /\ FrameTypes.remark = 10 /\ TypeOf("remark") = 10
BY DEF FrameTypes, TypeOf

(* What ClientCore writes, operation by operation. *)
LEMMA EncodeForms ==
    ASSUME NEW c
    PROVE  /\ c.op \in {"login", "add", "remark"} =>
                 EncodeCall(c) = Cat(WriteString(c.name), WriteString(c.text))
           /\ c.op = "join" => EncodeCall(c) = Cat(<<0>>, WriteString(c.name))
           /\ c.op = "message" =>
                 EncodeCall(c) = Cat(WriteString(c.name), WriteUint32(c.n))
           /\ c.op = "push" =>
                 EncodeCall(c) = Cat(WriteString(c.name), WriteBytes(c.text))
           /\ c.op \in {"logout", "pull", "friends"} => EncodeCall(c) = << >>
BY DEF EncodeCall, Cat

(* What FrameRouter reads, type by type. *)
LEMMA DecodeForms ==
    ASSUME NEW payload, NEW token, NEW th
    PROVE  /\ DecodeCall(1, payload, token, th) = DecodePair("login", payload)
           /\ token # << >> => DecodeCall(2, payload, token, th)
                                  = Got(Call("logout", << >>, << >>, 0), 0)
           /\ DecodeCall(3, payload, token, th) = DecodeMessage(payload, th)
           /\ DecodeCall(4, payload, token, th) = DecodeGroup(payload)
           /\ DecodeCall(6, payload, token, th) = DecodePush(payload)
           /\ DecodeCall(7, payload, token, th) = Got(Call("pull", << >>, << >>, 0), 0)
           /\ token # << >> => DecodeCall(8, payload, token, th)
                                  = Got(Call("friends", << >>, << >>, 0), 0)
           /\ token # << >> => DecodeCall(9, payload, token, th) = DecodeAdd(payload)
           /\ token # << >> => DecodeCall(10, payload, token, th)
                                  = DecodePair("remark", payload)
BY TypeNumbers DEF DecodeCall

(* A call's payload, and that none is longer than a frame may say. *)
LEMMA EncodeType ==
    ASSUME NEW call \in ClientCalls
    PROVE  /\ EncodeCall(call) \in Seq(Nat)
           /\ Len(EncodeCall(call)) <= MaxUint32 - (MaxString + 4)
           /\ Len(EncodeCall(call)) < MaxString + 2 =>
                 /\ Len(call.name) <= MaxString
                 /\ call.op # "push" => Len(call.text) <= MaxString
<1> DEFINE e == EncodeCall(call)
<1>1. /\ call.op \in {"login", "logout", "join", "message", "push", "pull",
                      "friends", "add", "remark"}
      /\ call.name \in Seq(Nat) /\ call.text \in Seq(Nat)
      /\ call.n \in Nat /\ Len(call.text) <= MaxText
      /\ call.op \in {"logout", "pull", "friends"} => call.name = << >>
      /\ call.op \notin {"login", "add", "remark", "push"} => call.text = << >>
  BY ClientCallType, MaxStringType
<1>2. PICK u, w, b, k \in Seq(Nat) :
         /\ u = WriteString(call.name) /\ w = WriteString(call.text)
         /\ b = WriteBytes(call.text) /\ k = WriteUint32(call.n) /\ Len(k) = 4
  <2>1. WriteString(call.name) \in Seq(Nat) /\ WriteString(call.text) \in Seq(Nat)
    BY <1>1, StringType
  <2>2. WriteBytes(call.text) \in Seq(Nat)
    BY <1>1, BytesType
  <2>3. WriteUint32(call.n) \in Seq(Nat) /\ Len(WriteUint32(call.n)) = 4
    BY <1>1, Uint32Type
  <2> QED
    BY <2>1, <2>2, <2>3
<1>3. PICK nl \in Nat, tl \in Nat, ul \in Nat, wl \in Nat :
         /\ nl = Len(call.name) /\ tl = Len(call.text)
         /\ ul = Len(u) /\ wl = Len(w) /\ Len(b) = 4 + tl
         /\ ul <= 2 + MaxString /\ (ul < 2 + MaxString => nl <= MaxString)
         /\ wl <= 2 + MaxString /\ (wl < 2 + MaxString => tl <= MaxString)
  <2>1. /\ Len(call.name) \in Nat /\ Len(call.text) \in Nat
        /\ Len(u) \in Nat /\ Len(w) \in Nat
    BY <1>1, LenProperties
  <2>2. Len(u) = 2 + IF Len(call.name) <= MaxString THEN Len(call.name) ELSE MaxString
    BY <1>1, <1>2, StringType
  <2>3. Len(w) = 2 + IF Len(call.text) <= MaxString THEN Len(call.text) ELSE MaxString
    BY <1>1, <1>2, StringType
  <2>4. Len(b) = 4 + Len(call.text)
    BY <1>1, <1>2, BytesType
  <2>5. Len(u) <= 2 + MaxString /\ (Len(u) < 2 + MaxString => Len(call.name) <= MaxString)
    BY <2>1, <2>2, MaxStringType
  <2>6. Len(w) <= 2 + MaxString /\ (Len(w) < 2 + MaxString => Len(call.text) <= MaxString)
    BY <2>1, <2>3, MaxStringType
  <2> QED
    BY <2>1, <2>4, <2>5, <2>6
<1>4. PICK ms \in Nat, mu \in Nat :
         /\ ms = MaxString /\ ms >= 15 /\ mu = MaxUint32
         /\ mu >= 3 * ms + 8 /\ tl <= mu - 2 * (ms + 5)
  BY <1>1, <1>3, MaxStringType DEF MaxText
<1> DEFINE Fine(x) == /\ x <= mu - (ms + 4)
                      /\ x < ms + 2 => /\ nl <= ms
                                       /\ call.op # "push" => tl <= ms
<1> SUFFICES e \in Seq(Nat) /\ Fine(Len(e))
  BY <1>3, <1>4
<1>5. CASE call.op \in {"login", "add", "remark"}
  <2>1. e = Cat(u, w)
    BY <1>2, <1>5, EncodeForms
  <2>2. Cat(u, w) \in Seq(Nat) /\ Len(Cat(u, w)) = Len(u) + Len(w)
    BY CatType
  <2>3. Fine(ul + wl)
    <3>1. /\ ul <= 2 + ms /\ (ul < 2 + ms => nl <= ms)
          /\ wl <= 2 + ms /\ (wl < 2 + ms => tl <= ms)
      BY <1>3, <1>4
    <3>2. ms \in Nat /\ mu \in Nat /\ mu >= 3 * ms + 8
      BY <1>4
    <3>3. ul + wl <= mu - (ms + 4)
      BY <3>1, <3>2
    <3>4. ul + wl < ms + 2 => nl <= ms
      BY <3>1
    <3>5. ul + wl < ms + 2 => tl <= ms
      BY <3>1
    <3> QED
      BY <3>3, <3>4, <3>5
  <2> QED
    BY <1>3, <2>1, <2>2, <2>3
<1>6. CASE call.op = "join"
  <2>1. PICK z \in Seq(Nat) : z = <<0>> /\ Len(z) = 1
    <3>1. <<0>> \in Seq(Nat) /\ Len(<<0>>) = 1
      OBVIOUS
    <3> QED
      BY <3>1
  <2>2. e = Cat(z, u)
    BY <1>2, <1>6, <2>1, EncodeForms
  <2>3. Cat(z, u) \in Seq(Nat) /\ Len(Cat(z, u)) = Len(z) + Len(u)
    BY CatType
  <2>4. tl = 0
    BY <1>1, <1>3, <1>6, EmptySeq
  <2>5. Fine(1 + ul)
    BY <1>3, <1>4, <2>4
  <2> QED
    BY <1>3, <2>1, <2>2, <2>3, <2>5
<1>7. CASE call.op = "message"
  <2>1. e = Cat(u, k)
    BY <1>2, <1>7, EncodeForms
  <2>2. Cat(u, k) \in Seq(Nat) /\ Len(Cat(u, k)) = Len(u) + Len(k)
    BY CatType
  <2>3. tl = 0
    BY <1>1, <1>3, <1>7, EmptySeq
  <2>4. Fine(ul + 4)
    BY <1>3, <1>4, <2>3
  <2> QED
    BY <1>2, <1>3, <2>1, <2>2, <2>4
<1>8. CASE call.op = "push"
  <2>1. e = Cat(u, b)
    BY <1>2, <1>8, EncodeForms
  <2>2. Cat(u, b) \in Seq(Nat) /\ Len(Cat(u, b)) = Len(u) + Len(b)
    BY CatType
  <2>3. Fine(ul + (4 + tl))
    <3>1. ul <= 2 + ms /\ (ul < 2 + ms => nl <= ms) /\ tl <= mu - 2 * (ms + 5)
      BY <1>3, <1>4
    <3>2. ul + (4 + tl) <= mu - (ms + 4)
      BY <3>1
    <3>3. ul + (4 + tl) < ms + 2 => nl <= ms
      BY <3>1
    <3> QED
      BY <1>8, <3>2, <3>3
  <2> QED
    BY <1>3, <2>1, <2>2, <2>3
<1>9. CASE call.op \in {"logout", "pull", "friends"}
  <2>1. e = << >> /\ nl = 0 /\ tl = 0 /\ << >> \in Seq(Nat) /\ Len(<< >>) = 0
    BY <1>1, <1>3, <1>9, EncodeForms, EmptySeq
  <2>2. Fine(0)
    BY <1>4, <2>1
  <2> QED
    BY <2>1, <2>2
<1> QED
  BY <1>1, <1>5, <1>6, <1>7, <1>8, <1>9

(* FrameRouter hears the call that ClientCore made. *)
LEMMA CallRead ==
    ASSUME NEW call \in ClientCalls, NEW token, NEW th,
           call.op = "login" \/ token # << >>,
           Len(call.name) <= MaxString,
           call.op # "push" => Len(call.text) <= MaxString
    PROVE  Decoded(DecodeCall(TypeOf(call.op), EncodeCall(call), token, th), call)
<1>1. /\ call.op \in {"login", "logout", "join", "message", "push", "pull",
                      "friends", "add", "remark"}
      /\ call.name \in Seq(Nat) /\ call.text \in Seq(Nat)
      /\ call.n \in 0..MaxUint32 /\ Len(call.text) <= MaxText
      /\ call = Call(call.op, call.name, call.text, call.n)
      /\ call.op \in {"logout", "pull", "friends"} => call.name = << >>
      /\ call.op \notin {"login", "add", "remark", "push"} => call.text = << >>
      /\ call.op # "message" => call.n = 0
  BY ClientCallType
<1>2. CASE call.op = "login"
  BY <1>1, <1>2, PairRead, EncodeForms, DecodeForms, TypeNumbers
<1>3. CASE call.op = "remark"
  BY <1>1, <1>3, PairRead, EncodeForms, DecodeForms, TypeNumbers
<1>4. CASE call.op = "add"
  BY <1>1, <1>4, AddRead, EncodeForms, DecodeForms, TypeNumbers
<1>5. CASE call.op = "join"
  BY <1>1, <1>5, JoinRead, EncodeForms, DecodeForms, TypeNumbers
<1>6. CASE call.op = "message"
  <2>1. Decoded(DecodeMessage(Cat(WriteString(call.name), WriteUint32(call.n)), th),
                Call("message", call.name, << >>, call.n))
    BY <1>1, MessageRead
  <2>2. EncodeCall(call) = Cat(WriteString(call.name), WriteUint32(call.n))
    BY <1>6, EncodeForms
  <2>3. DecodeCall(TypeOf(call.op), EncodeCall(call), token, th)
           = DecodeMessage(EncodeCall(call), th)
    BY <1>6, DecodeForms, TypeNumbers
  <2>4. call = Call("message", call.name, << >>, call.n)
    BY <1>1, <1>6
  <2> QED
    BY <2>1, <2>2, <2>3, <2>4
<1>7. CASE call.op = "push"
  <2>1. Len(call.text) <= MaxUint32
    <3>1. PICK tl \in Nat, ms \in Nat, mu \in Nat :
             tl = Len(call.text) /\ ms = MaxString /\ mu = MaxUint32
      BY <1>1, LenProperties, MaxStringType
    <3>2. tl <= mu - 2 * (ms + 5)
      BY <1>1, <3>1 DEF MaxText
    <3>3. tl <= mu
      BY <3>2
    <3> QED
      BY <3>1, <3>3
  <2>2. Decoded(DecodePush(Cat(WriteString(call.name), WriteBytes(call.text))),
                Call("push", call.name, call.text, 0))
    BY <1>1, <2>1, PushRead
  <2>3. EncodeCall(call) = Cat(WriteString(call.name), WriteBytes(call.text))
    BY <1>7, EncodeForms
  <2>4. DecodeCall(TypeOf(call.op), EncodeCall(call), token, th)
           = DecodePush(EncodeCall(call))
    BY <1>7, DecodeForms, TypeNumbers
  <2>5. call = Call("push", call.name, call.text, 0)
    BY <1>1, <1>7
  <2> QED
    BY <2>2, <2>3, <2>4, <2>5
<1>8. CASE call.op \in {"logout", "pull", "friends"}
  <2>1. call = Call(call.op, << >>, << >>, 0)
    BY <1>1, <1>8
  <2>2. DecodeCall(TypeOf(call.op), EncodeCall(call), token, th)
           = Got(Call(call.op, << >>, << >>, 0), 0)
    <3>1. CASE call.op = "logout"
      BY <3>1, DecodeForms, TypeNumbers
    <3>2. CASE call.op = "pull"
      BY <3>2, DecodeForms, TypeNumbers
    <3>3. CASE call.op = "friends"
      BY <3>3, DecodeForms, TypeNumbers
    <3> QED
      BY <1>8, <3>1, <3>2, <3>3
  <2> QED
    BY <2>1, <2>2 DEF Decoded
<1> QED
  BY <1>1, <1>2, <1>3, <1>4, <1>5, <1>6, <1>7, <1>8

-----------------------------------------------------------------------------
(* What is sealed is opened again. *)
LEMMA SealOpen ==
    ASSUME NEW p \in Seq(Nat)
    PROVE  /\ Seal(p) \in Seq(Nat) /\ Len(Seal(p)) = Len(p) + 2
           /\ Open(Seal(p)) = p
<1>1. PICK z \in Seq(Nat) : z = <<0>> /\ Len(z) = 1
  <2>1. <<0>> \in Seq(Nat) /\ Len(<<0>>) = 1
    OBVIOUS
  <2> QED
    BY <2>1
<1>2. Seal(p) = Cat(z, Cat(p, z))
  <2>1. Seal(p) = Cat(Cat(z, p), z)
    BY <1>1 DEF Seal, Cat
  <2> QED
    BY <2>1, CatAssoc
<1>3. Cat(p, z) \in Seq(Nat) /\ Len(Cat(p, z)) = Len(p) + Len(z)
  BY CatType
<1>4. /\ Cat(z, Cat(p, z)) \in Seq(Nat)
      /\ Len(Cat(z, Cat(p, z))) = Len(z) + Len(Cat(p, z))
  BY <1>3, CatType
<1>5. SubSeq(Cat(z, Cat(p, z)), Len(z) + 1, Len(z) + Len(p)) = p
  BY PieceOfCat
<1>6. PICK k \in Nat : k = Len(p)
  BY LenProperties
<1>7. Len(Seal(p)) = k + 2
  BY <1>1, <1>2, <1>3, <1>4, <1>6
<1>8. SubSeq(Seal(p), 2, k + 1) = p
  <2>1. Len(z) + 1 = 2 /\ Len(z) + Len(p) = k + 1
    BY <1>1, <1>6
  <2> QED
    BY <1>2, <1>5, <2>1
<1>9. Len(Seal(p)) - 1 = k + 1
  BY <1>7
<1> QED
  BY <1>2, <1>4, <1>6, <1>7, <1>8, <1>9 DEF Open

(* The numbers of the types fit into two bytes. *)
LEMMA TypeNumberType ==
    \A op \in {"login", "logout", "join", "leave", "kick", "message", "push",
               "pull", "friends", "add", "remark"} :
       /\ TypeOf(op) \in 0..MaxString
       /\ TypeOf(op) = FrameTypes.login <=> op = "login"
<1>1. MaxString \in Nat /\ MaxString >= 15
  BY MaxStringType
<1>2. \A n \in 1..10 : n \in 0..MaxString
  BY <1>1
<1> QED
  BY <1>2, TypeNumbers

(* Behind the token is the sealed rest. *)
LEMMA TokenRead ==
    ASSUME NEW token \in Seq(Nat), Len(token) <= MaxString, NEW p \in Seq(Nat),
           NEW payload, payload = Cat(WriteString(token), Seal(p))
    PROVE  \E at : /\ ReadString(payload, 0) = Got(token, at)
                   /\ Open(SubSeq(payload, at + 1, Len(payload))) = p
<1>1. Seal(p) \in Seq(Nat) /\ Open(Seal(p)) = p /\ WriteString(token) \in Seq(Nat)
  BY SealOpen, StringType
<1>2. payload \in Seq(Nat)
  BY <1>1, CatType
<1>3. At(payload, 0, Cat(WriteString(token), Seal(p)))
  BY <1>2, AtStart
<1>4. /\ ReadString(payload, 0) = Got(token, 0 + 2 + Len(token))
      /\ At(payload, 0 + 2 + Len(token), Seal(p))
  BY <1>1, <1>3, ReadStringAt
<1>5. PICK at : /\ ReadString(payload, 0) = Got(token, at)
                /\ At(payload, at, Seal(p))
  BY <1>4
<1>6. SubSeq(payload, at + 1, Len(payload)) = Seal(p)
  BY <1>1, <1>5, AtType
<1> QED
  BY <1>1, <1>5, <1>6

(* The payload of a request. *)
PayloadOf(call, token) ==
    IF call.op = "login" THEN EncodeCall(call)
    ELSE Cat(WriteString(token), Seal(EncodeCall(call)))

(* A payload that fits into one recv has no cut string. *)
LEMMA PayloadType ==
    ASSUME NEW call \in ClientCalls, NEW token \in Seq(Nat)
    PROVE  /\ PayloadOf(call, token) \in Seq(Nat)
           /\ Len(PayloadOf(call, token)) <= MaxUint32
           /\ Len(PayloadOf(call, token)) < MaxString + 2 =>
                 /\ Len(call.name) <= MaxString
                 /\ call.op # "push" => Len(call.text) <= MaxString
                 /\ call.op # "login" => Len(token) <= MaxString
<1> DEFINE Short == /\ Len(call.name) <= MaxString
                    /\ call.op # "push" => Len(call.text) <= MaxString
<1>1. PICK e \in Seq(Nat), k \in Nat :
         /\ e = EncodeCall(call) /\ k = Len(e)
         /\ k <= MaxUint32 - (MaxString + 4)
         /\ k < MaxString + 2 => Short
  <2>1. /\ EncodeCall(call) \in Seq(Nat) /\ Len(EncodeCall(call)) \in Nat
        /\ Len(EncodeCall(call)) <= MaxUint32 - (MaxString + 4)
        /\ Len(EncodeCall(call)) < MaxString + 2 => Short
    BY EncodeType, LenProperties
  <2> QED
    BY <2>1
<1>2. PICK w \in Seq(Nat), tl \in Nat, wl \in Nat :
         /\ w = WriteString(token) /\ wl = Len(w) /\ tl = Len(token)
         /\ wl <= 2 + MaxString /\ (wl < 2 + MaxString => tl <= MaxString)
  <2>1. WriteString(token) \in Seq(Nat) /\ Len(token) \in Nat
    BY StringType, LenProperties
  <2>2. Len(WriteString(token)) = 2 + IF Len(token) <= MaxString THEN Len(token) ELSE MaxString
    BY StringType
  <2>3. Len(WriteString(token)) \in Nat
    BY <2>1, LenProperties
  <2>4. /\ Len(WriteString(token)) <= 2 + MaxString
        /\ Len(WriteString(token)) < 2 + MaxString => Len(token) <= MaxString
    BY <2>1, <2>2, MaxStringType
  <2> QED
    BY <2>1, <2>3, <2>4
<1> HIDE DEF Short
<1>3. PICK ms \in Nat, mu \in Nat : ms = MaxString /\ mu = MaxUint32
  BY MaxStringType
<1>4. CASE call.op = "login"
  <2>1. PayloadOf(call, token) = e
    BY <1>1, <1>4 DEF PayloadOf
  <2>2. k <= mu /\ (k < ms + 2 => Short)
    BY <1>1, <1>3
  <2> QED
    BY <1>1, <1>3, <1>4, <2>1, <2>2 DEF Short
<1>5. CASE call.op # "login"
  <2>1. PayloadOf(call, token) = Cat(w, Seal(e))
    BY <1>1, <1>2, <1>5 DEF PayloadOf
  <2>2. Seal(e) \in Seq(Nat) /\ Len(Seal(e)) = k + 2
    BY <1>1, SealOpen
  <2>3. Cat(w, Seal(e)) \in Seq(Nat) /\ Len(Cat(w, Seal(e))) = wl + (k + 2)
    <3>1. /\ Cat(w, Seal(e)) \in Seq(Nat)
          /\ Len(Cat(w, Seal(e))) = Len(w) + Len(Seal(e))
      BY <2>2, CatType
    <3> QED
      BY <1>2, <2>2, <3>1
  <2>4. wl <= 2 + ms /\ (wl < 2 + ms => tl <= ms) /\ k <= mu - (ms + 4)
    BY <1>1, <1>2, <1>3
  <2>5. wl + (k + 2) <= mu
    BY <2>4
  <2>6. wl + (k + 2) < ms + 2 => tl <= ms /\ k < ms + 2
    BY <2>4
  <2>7. wl + (k + 2) < ms + 2 => Short
    BY <1>1, <1>3, <2>6
  <2> QED
    BY <1>2, <1>3, <2>1, <2>3, <2>5, <2>6, <2>7 DEF Short
<1> QED
  BY <1>4, <1>5

(* What OnData makes of a request that came whole. *)
LEMMA HandleRead ==
    ASSUME NEW call \in ClientCalls, NEW token \in Seq(Nat),
           call.op = "login" \/ token # << >>,
           Len(PayloadOf(call, token)) < MaxString + 2
    PROVE  Decoded(Handle([type |-> TypeOf(call.op), payload |-> PayloadOf(call, token)]),
                   call)
<1> DEFINE p == PayloadOf(call, token)
           frame == [type |-> TypeOf(call.op), payload |-> p]
<1>1. /\ Len(call.name) <= MaxString
      /\ call.op # "push" => Len(call.text) <= MaxString
      /\ call.op # "login" => Len(token) <= MaxString
  BY PayloadType
<1>2. TypeOf(call.op) = FrameTypes.login <=> call.op = "login"
  BY ClientCallType, TypeNumberType
<1>3. frame.type = TypeOf(call.op) /\ frame.payload = p
  OBVIOUS
<1> HIDE DEF frame
<1>4. CASE call.op = "login"
  <2>1. Handle(frame) = DecodeCall(TypeOf(call.op), p, << >>, DefaultThreshold)
    BY <1>2, <1>3, <1>4 DEF Handle
  <2>2. p = EncodeCall(call)
    BY <1>4 DEF PayloadOf
  <2>3. Decoded(DecodeCall(TypeOf(call.op), EncodeCall(call), << >>, DefaultThreshold), call)
    BY <1>1, <1>4, CallRead
  <2> QED
    BY <2>1, <2>2, <2>3 DEF frame
<1>5. CASE call.op # "login"
  <2>1. p = Cat(WriteString(token), Seal(EncodeCall(call)))
    BY <1>5 DEF PayloadOf
  <2>2. EncodeCall(call) \in Seq(Nat)
    BY EncodeType
  <2>3. PICK at : /\ ReadString(p, 0) = Got(token, at)
                  /\ Open(SubSeq(p, at + 1, Len(p))) = EncodeCall(call)
    BY <1>1, <1>5, <2>1, <2>2, TokenRead
  <2>4. ReadString(p, 0).ok = TRUE /\ ReadString(p, 0).value = token
        /\ ReadString(p, 0).at = at
    BY <2>3 DEF Got
  <2>5. Handle(frame) = DecodeCall(TypeOf(call.op), EncodeCall(call), token,
                                   DefaultThreshold)
    BY <1>2, <1>3, <1>5, <2>3, <2>4 DEF Handle, Then
  <2>6. Decoded(DecodeCall(TypeOf(call.op), EncodeCall(call), token, DefaultThreshold), call)
    BY <1>1, <1>5, CallRead
  <2> QED
    BY <2>5, <2>6 DEF frame
<1> QED
  BY <1>4, <1>5

(* Whatever part of a request one recv returns, the call that is heard is  *)
(* the one that was made.                                                  *)
LEMMA RequestHeard ==
    ASSUME NEW call \in ClientCalls, NEW token \in Seq(Nat),
           call.op = "login" \/ token # << >>,
           NEW data \in Received(EncodeFrame(TypeOf(call.op), PayloadOf(call, token)))
    PROVE  Heard(data).ok => Heard(data).ok = TRUE /\ Heard(data).value = call
<1> DEFINE p == PayloadOf(call, token)
           d == EncodeFrame(TypeOf(call.op), p)
<1>1. p \in Seq(Nat) /\ Len(p) <= MaxUint32 /\ Len(p) \in Nat
  BY PayloadType, LenProperties
<1>2. TypeOf(call.op) \in 0..MaxString
  BY ClientCallType, TypeNumberType
<1> HIDE DEF p
<1>3. d \in Seq(Nat) /\ Len(d) = 12 + Len(p)
  <2>1. TypeOf(call.op) \in Nat
    BY <1>2, MaxStringType
  <2>2. PICK m, v, t, l \in Seq(Nat) :
           /\ Len(m) = 4 /\ Len(v) = 2 /\ Len(t) = 2 /\ Len(l) = 4
           /\ EncodeFrame(TypeOf(call.op), p) = Cat(m, Cat(v, Cat(t, Cat(l, p))))
    BY <1>1, <2>1, FrameForm
  <2>3. FrameOf(m, v, t, l, p, d)
    BY <2>2 DEF FrameOf
  <2>4. PartsOf(m, v, t, l, p, d)
    BY <1>1, <2>3, HeaderParts
  <2> QED
    BY <2>4 DEF PartsOf
<1>4. PICK n \in Nat : data = SubSeq(d, 1, n) /\ n <= Len(d) /\ n <= RecvLimit
  <2>1. PICK n \in 0..Min({Len(d), RecvLimit}) : data = SubSeq(d, 1, n)
    BY DEF Received, p
  <2>2. PICK k \in Nat, r \in Nat : k = Len(d) /\ r = RecvLimit
    BY <1>3, LenProperties, ProcessAssumption
  <2>3. Min({k, r}) = IF k <= r THEN k ELSE r
    BY DEF Min
  <2> QED
    BY <2>1, <2>2, <2>3
<1>5. CASE n < Len(d)
  <2>1. DecodeFrame(data) = Unread
    BY <1>1, <1>2, <1>4, <1>5, FrameCut
  <2> QED
    BY <2>1 DEF Heard, Then, Unread
<1>6. CASE n = Len(d)
  <2>1. data = d
    BY <1>3, <1>4, <1>6, SubSeqFull
  <2>2. DecodeFrame(d) = Got([type |-> TypeOf(call.op), payload |-> p], 12 + Len(p))
    BY <1>1, <1>2, FrameRead
  <2>3. /\ DecodeFrame(data).ok = TRUE
        /\ DecodeFrame(data).value = [type |-> TypeOf(call.op), payload |-> p]
    BY <2>1, <2>2 DEF Got
  <2>4. Heard(data) = Handle([type |-> TypeOf(call.op), payload |-> p])
    BY <2>3 DEF Heard, Then
  <2>5. Len(p) < MaxString + 2
    <3>1. 12 + Len(p) <= RecvLimit /\ RecvLimit < 12 + 2 + MaxString
      BY <1>3, <1>4, <1>6, ProcessAssumption DEF HeaderSize
    <3> QED
      BY <1>1, <3>1, MaxStringType, ProcessAssumption
  <2>6. Decoded(Heard(data), call)
    BY <2>4, <2>5, HandleRead DEF p
  <2> QED
    BY <2>6 DEF Decoded, Got
<1>7. n < Len(d) \/ n = Len(d)
  <2> HIDE DEF d
  <2>1. Len(d) \in Nat
    BY <1>3, LenProperties
  <2> QED
    BY <1>4, <2>1
<1> QED
  BY <1>5, <1>6, <1>7

-----------------------------------------------------------------------------
(* The lists of a response *)

Elem(op, x) == IF op = "pull" THEN WriteBytes(x) ELSE WriteFriend(x)

BytesTo(b, op, list) ==
    b = [i \in 0..Len(list) |->
           IF i = 0 THEN WriteUint32(Len(list)) ELSE Cat(b[i - 1], Elem(op, list[i]))]

Elements(op) == IF op = "pull" THEN Seq(Nat) ELSE Seq(Nat) \X Seq(Nat)

LEMMA ElemType ==
    ASSUME NEW op, NEW x \in Elements(op)
    PROVE  Elem(op, x) \in Seq(Nat)
<1>1. CASE op = "pull"
  BY <1>1, BytesType DEF Elem, Elements
<1>2. CASE op # "pull"
  <2>1. x[1] \in Seq(Nat) /\ x[2] \in Seq(Nat)
    BY <1>2 DEF Elements
  <2>2. WriteString(x[1]) \in Seq(Nat) /\ WriteString(x[2]) \in Seq(Nat)
    BY <2>1, StringType
  <2>3. Elem(op, x) = Cat(WriteString(x[1]), WriteString(x[2]))
    BY <1>2 DEF Elem, WriteFriend, Cat
  <2> QED
    BY <2>2, <2>3, CatType
<1> QED
  BY <1>1, <1>2

(* There are such bytes. *)
LEMMA BytesToExists ==
    ASSUME NEW op, NEW list \in Seq(Elements(op))
    PROVE  \E b : BytesTo(b, op, list)
<1> DEFINE n == Len(list)
           first == WriteUint32(n)
           step == [p \in Nat \X Seq(Nat) |->
                      IF p[1] \in 1..n THEN Cat(p[2], Elem(op, list[p[1]])) ELSE p[2]]
<1>1. n \in Nat /\ first \in Seq(Nat) /\ \A i \in 1..n : list[i] \in Elements(op)
  BY LenProperties, ElementOfSeq, Uint32Type
<1>2. step \in [Nat \X Seq(Nat) -> Seq(Nat)]
  <2> SUFFICES ASSUME NEW i \in Nat, NEW s \in Seq(Nat), i \in 1..n
               PROVE  Cat(s, Elem(op, list[i])) \in Seq(Nat)
    OBVIOUS
  <2>1. Elem(op, list[i]) \in Seq(Nat)
    BY <1>1, ElemType
  <2> QED
    BY <2>1, CatType
<1>3. \A i \in 1..n, s \in Seq(Nat) : step[<<i, s>>] = Cat(s, Elem(op, list[i]))
  BY <1>1
<1> HIDE DEF step, first
<1>4. PICK b \in [0..n -> Seq(Nat)] :
         b[0] = first /\ \A i \in 1..n : b[i] = step[<<i, b[i - 1]>>]
  <2>1. \A m \in Nat : \E g \in [0..m -> Seq(Nat)] : Steps(first, step, g, m)
    BY <1>1, <1>2, Recursion
  <2> QED
    BY <1>1, <2>1 DEF Steps
<1>5. \A i \in 0..n :
         b[i] = IF i = 0 THEN first ELSE Cat(b[i - 1], Elem(op, list[i]))
  <2> SUFFICES ASSUME NEW i \in 0..n, i # 0
               PROVE  b[i] = Cat(b[i - 1], Elem(op, list[i]))
    BY <1>4
  <2>1. i \in 1..n /\ i - 1 \in 0..n
    BY <1>1
  <2> QED
    BY <1>3, <1>4, <2>1
<1>6. b = [i \in 0..n |-> b[i]]
  BY <1>4
<1> QED
  BY <1>5, <1>6 DEF BytesTo, first

(* The bytes of a list, element by element. *)
BytesOf(b, op, list) ==
    /\ b \in [0..Len(list) -> Seq(Nat)]
    /\ b[0] = WriteUint32(Len(list))
    /\ \A i \in 1..Len(list) : b[i] = Cat(b[i - 1], Elem(op, list[i]))

(* What WriteList returns are the last of them. *)
LEMMA ListBytes ==
    ASSUME NEW op, NEW list \in Seq(Elements(op))
    PROVE  \E b : BytesOf(b, op, list) /\ WriteList(op, list) = b[Len(list)]
<1> DEFINE b == CHOOSE g : BytesTo(g, op, list)
           n == Len(list)
<1>1. WriteList(op, list) = b[n]
  BY DEF WriteList, BytesTo, Elem, Cat
<1>2. BytesTo(b, op, list)
  BY BytesToExists
<1> HIDE DEF b
<1>3. n \in Nat /\ \A i \in 1..n : Elem(op, list[i]) \in Seq(Nat)
  BY LenProperties, ElementOfSeq, ElemType
<1>4. b[0] = WriteUint32(n)
  BY <1>2, <1>3 DEF BytesTo
<1>5. ASSUME NEW i \in 1..n PROVE b[i] = Cat(b[i - 1], Elem(op, list[i]))
  <2>1. i \in 0..n /\ i # 0
    OBVIOUS
  <2> QED
    BY <1>2, <2>1 DEF BytesTo
<1> DEFINE T == {i \in Nat : i <= n => b[i] \in Seq(Nat)}
<1>6. 0 \in T
  BY <1>3, <1>4, Uint32Type
<1>7. ASSUME NEW i \in Nat, i \in T PROVE i + 1 \in T
  <2> SUFFICES ASSUME i + 1 <= n PROVE b[i + 1] \in Seq(Nat)
    OBVIOUS
  <2>1. i + 1 \in 1..n /\ (i + 1) - 1 = i /\ b[i] \in Seq(Nat)
    BY <1>3, <1>7
  <2>2. b[i + 1] = Cat(b[i], Elem(op, list[i + 1]))
    BY <1>5, <2>1
  <2> QED
    BY <1>3, <2>1, <2>2, CatType
<1>8. Nat \subseteq T
  <2> HIDE DEF T
  <2> QED
    BY <1>6, <1>7, NatSetInduction
<1>9. b \in [0..n -> Seq(Nat)]
  <2>1. \A i \in 0..n : b[i] \in Seq(Nat)
    BY <1>3, <1>8
  <2>2. b = [i \in 0..n |-> b[i]]
    BY <1>2 DEF BytesTo
  <2> QED
    BY <2>1, <2>2
<1> QED
  BY <1>1, <1>4, <1>5, <1>9 DEF BytesOf

(* How long an element is. *)
LEMMA ElemLength ==
    ASSUME NEW op, NEW x \in Elements(op)
    PROVE  /\ op = "pull" => Len(Elem(op, x)) = 4 + Len(x)
           /\ Len(Elem(op, x)) \in Nat /\ Len(Elem(op, x)) >= 1
<1>1. Elem(op, x) \in Seq(Nat) /\ Len(Elem(op, x)) \in Nat
  BY ElemType, LenProperties
<1>2. CASE op = "pull"
  <2>1. x \in Seq(Nat) /\ Len(x) \in Nat
    BY <1>2, LenProperties DEF Elements
  <2>2. Elem(op, x) = WriteBytes(x) /\ Len(WriteBytes(x)) = 4 + Len(x)
    BY <1>2, <2>1, BytesType DEF Elem
  <2> QED
    BY <1>1, <2>1, <2>2
<1>3. CASE op # "pull"
  <2>1. x[1] \in Seq(Nat) /\ x[2] \in Seq(Nat)
    BY <1>3 DEF Elements
  <2>2. PICK u, w \in Seq(Nat) : u = WriteString(x[1]) /\ w = WriteString(x[2])
    BY <2>1, StringType
  <2>3. Len(u) \in Nat /\ Len(u) >= 2 /\ Len(w) \in Nat
    <3>1. Len(u) = 2 + IF Len(x[1]) <= MaxString THEN Len(x[1]) ELSE MaxString
      BY <2>1, <2>2, StringType
    <3>2. Len(u) \in Nat /\ Len(w) \in Nat /\ Len(x[1]) \in Nat
      BY <2>1, <2>2, LenProperties
    <3>3. MaxString \in Nat
      BY MaxStringType
    <3> QED
      BY <3>1, <3>2, <3>3
  <2>4. Elem(op, x) = Cat(u, w)
    BY <1>3, <2>2 DEF Elem, WriteFriend, Cat
  <2>5. Len(Cat(u, w)) = Len(u) + Len(w)
    BY CatType
  <2> QED
    BY <1>1, <1>3, <2>3, <2>4, <2>5
<1> QED
  BY <1>2, <1>3

(* The bytes of the first elements begin those of the list. *)
LEMMA ListPrefix ==
    ASSUME NEW op, NEW list \in Seq(Elements(op)), NEW b, BytesOf(b, op, list)
    PROVE  \A i \in 0..Len(list) :
              /\ \E rest \in Seq(Nat) : b[Len(list)] = Cat(b[i], rest)
              /\ Len(b[i]) >= 4 + i
<1> DEFINE n == Len(list)
           Rest(i) == \E rest \in Seq(Nat) : b[n] = Cat(b[i], rest)
<1>1. /\ n \in Nat /\ b \in [0..n -> Seq(Nat)] /\ b[0] = WriteUint32(n)
      /\ \A i \in 1..n : b[i] = Cat(b[i - 1], Elem(op, list[i]))
      /\ \A i \in 1..n : list[i] \in Elements(op)
  BY LenProperties, ElementOfSeq DEF BytesOf
<1>2. \A i \in 1..n : /\ Elem(op, list[i]) \in Seq(Nat)
                      /\ Len(Elem(op, list[i])) \in Nat /\ Len(Elem(op, list[i])) >= 1
  BY <1>1, ElemType, ElemLength
<1> HIDE DEF n
<1>3. \A i \in 0..n : Rest(i)
  <2> DEFINE T == {k \in Nat : k <= n => Rest(n - k)}
  <2>1. 0 \in T
    <3>1. b[n] \in Seq(Nat) /\ << >> \in Seq(Nat)
      BY <1>1, EmptySeq
    <3>2. b[n] = Cat(b[n], << >>) /\ n - 0 = n
      BY <1>1, <3>1, CatEmpty
    <3> QED
      BY <3>1, <3>2
  <2>2. ASSUME NEW k \in Nat, k \in T PROVE k + 1 \in T
    <3> SUFFICES ASSUME k + 1 <= n PROVE Rest(n - (k + 1))
      OBVIOUS
    <3>1. PICK i \in 1..n : i = n - k
      BY <1>1
    <3>2. i - 1 \in 0..n /\ i - 1 = n - (k + 1)
      BY <1>1, <3>1
    <3>3. PICK rest \in Seq(Nat) : b[n] = Cat(b[i], rest)
      BY <1>1, <2>2, <3>1
    <3>4. b[i] = Cat(b[i - 1], Elem(op, list[i])) /\ b[i - 1] \in Seq(Nat)
      BY <1>1, <3>2
    <3>5. b[n] = Cat(b[i - 1], Cat(Elem(op, list[i]), rest))
      BY <1>2, <3>3, <3>4, CatAssoc
    <3>6. Cat(Elem(op, list[i]), rest) \in Seq(Nat)
      BY <1>2, CatType
    <3> QED
      BY <3>2, <3>5, <3>6
  <2>3. Nat \subseteq T
    <3> HIDE DEF T
    <3> QED
      BY <2>1, <2>2, NatSetInduction
  <2>4. ASSUME NEW i \in 0..n PROVE Rest(i)
    <3>1. n - i \in Nat /\ n - i <= n /\ n - (n - i) = i
      BY <1>1
    <3>2. n - i \in T
      BY <2>3, <3>1
    <3> QED
      BY <3>1, <3>2
  <2> QED
    BY <2>4
<1>4. \A i \in 0..n : Len(b[i]) >= 4 + i
  <2> DEFINE T == {i \in Nat : i <= n => Len(b[i]) >= 4 + i}
  <2>1. 0 \in T
    BY <1>1, Uint32Type
  <2>2. ASSUME NEW i \in Nat, i \in T PROVE i + 1 \in T
    <3> SUFFICES ASSUME i + 1 <= n PROVE Len(b[i + 1]) >= 4 + (i + 1)
      OBVIOUS
    <3>1. i + 1 \in 1..n /\ (i + 1) - 1 = i /\ b[i] \in Seq(Nat) /\ Len(b[i]) >= 4 + i
      BY <1>1, <2>2
    <3>2. PICK x \in Seq(Nat) : x = Elem(op, list[i + 1]) /\ Len(x) \in Nat /\ Len(x) >= 1
      BY <1>2, <3>1
    <3>3. b[i + 1] = Cat(b[i], x)
      BY <1>1, <3>1, <3>2
    <3>4. Len(Cat(b[i], x)) = Len(b[i]) + Len(x) /\ Len(b[i]) \in Nat
      BY <3>1, CatType, LenProperties
    <3>5. PICK k \in Nat, m \in Nat : k = Len(b[i]) /\ m = Len(x)
      BY <3>2, <3>4
    <3>6. Len(b[i + 1]) = k + m /\ k >= 4 + i /\ m >= 1
      BY <3>1, <3>2, <3>3, <3>4, <3>5
    <3>7. k + m >= 4 + (i + 1)
      BY <3>6
    <3> QED
      BY <3>6, <3>7
  <2>3. Nat \subseteq T
    <3> HIDE DEF T
    <3> QED
      BY <2>1, <2>2, NatSetInduction
  <2> QED
    BY <1>1, <2>3
<1> QED
  BY <1>3, <1>4 DEF n

ReadElem(op, data, at) ==
    IF op = "pull" THEN ReadBytes(data, at) ELSE ReadFriend(data, at)

(* Elements whose lengths can be said. *)
Sayable(op, x) ==
    IF op = "pull" THEN Len(x) <= MaxUint32
    ELSE Len(x[1]) <= MaxString /\ Len(x[2]) <= MaxString

(* An element is read as it was written. *)
LEMMA ElementRead ==
    ASSUME NEW op, NEW x \in Elements(op), Sayable(op, x),
           NEW data, NEW at, NEW rest \in Seq(Nat),
           At(data, at, Cat(Elem(op, x), rest))
    PROVE  ReadElem(op, data, at) = Got(x, at + Len(Elem(op, x)))
<1>1. CASE op = "pull"
  <2>1. x \in Seq(Nat) /\ Len(x) <= MaxUint32 /\ Elem(op, x) = WriteBytes(x)
    BY <1>1 DEF Elements, Sayable, Elem
  <2>2. ReadBytes(data, at) = Got(x, at + 4 + Len(x))
    BY <2>1, ReadBytesAt
  <2>3. at \in Nat
    <3>1. Cat(Elem(op, x), rest) \in Seq(Nat)
      BY ElemType, CatType
    <3> QED
      BY <3>1, AtType
  <2>4. at + 4 + Len(x) = at + Len(Elem(op, x))
    <3>1. PICK k \in Nat : k = Len(x)
      BY <2>1, LenProperties
    <3>2. Len(Elem(op, x)) = 4 + k
      BY <2>1, <3>1, BytesType
    <3>3. at + 4 + k = at + (4 + k)
      BY <2>3
    <3> QED
      BY <3>1, <3>2, <3>3
  <2> QED
    BY <1>1, <2>2, <2>4 DEF ReadElem
<1>2. CASE op # "pull"
  <2>1. PICK f \in Seq(Nat), g \in Seq(Nat) :
           /\ x = <<f, g>> /\ Len(f) <= MaxString /\ Len(g) <= MaxString
    BY <1>2 DEF Elements, Sayable
  <2>2. PICK u, w \in Seq(Nat) :
           /\ u = WriteString(f) /\ w = WriteString(g)
           /\ Len(u) = 2 + Len(f) /\ Len(w) = 2 + Len(g)
    <3>1. WriteString(f) \in Seq(Nat) /\ WriteString(g) \in Seq(Nat)
      BY StringType
    <3>2. Len(WriteString(f)) = 2 + Len(f) /\ Len(WriteString(g)) = 2 + Len(g)
      BY <2>1, StringType
    <3> QED
      BY <3>1, <3>2
  <2>3. Elem(op, x) = Cat(u, w)
    BY <1>2, <2>1, <2>2 DEF Elem, WriteFriend, Cat
  <2>4. Cat(w, rest) \in Seq(Nat) /\ Len(Cat(w, rest)) = Len(w) + Len(rest)
    BY CatType
  <2>5. Cat(Elem(op, x), rest) = Cat(u, Cat(w, rest))
    BY <2>3, CatAssoc
  <2>6. At(data, at, Cat(WriteString(f), Cat(w, rest)))
    BY <2>2, <2>5
  <2>7. /\ ReadString(data, at) = Got(f, at + 2 + Len(f))
        /\ At(data, at + 2 + Len(f), Cat(w, rest))
    BY <2>1, <2>4, <2>6, ReadStringAt
  <2>8. PICK end : end = at + 2 + Len(f)
    OBVIOUS
  <2>9. At(data, end, Cat(WriteString(g), rest))
    BY <2>2, <2>7, <2>8
  <2>10. ReadString(data, end) = Got(g, end + 2 + Len(g))
    BY <2>1, <2>9, ReadStringAt
  <2>11. end \in Nat /\ Len(data) = end + Len(Cat(w, rest))
    BY <2>4, <2>7, <2>8, AtType
  <2>12. end # Len(data)
    BY <2>2, <2>4, <2>11, LenProperties
  <2>13. /\ ReadString(data, at).ok = TRUE /\ ReadString(data, at).value = f
         /\ ReadString(data, at).at = end
         /\ ReadString(data, end).ok = TRUE /\ ReadString(data, end).value = g
         /\ ReadString(data, end).at = end + 2 + Len(g)
    BY <2>7, <2>8, <2>10 DEF Got
  <2>14. ReadFriend(data, at) = Got(<<f, g>>, end + 2 + Len(g))
    BY <2>12, <2>13 DEF ReadFriend, Then
  <2>15. end + 2 + Len(g) = at + Len(Elem(op, x))
    <3>1. Len(Cat(u, w)) = Len(u) + Len(w)
      BY CatType
    <3>2. at \in Nat
      <4>1. Cat(u, Cat(w, rest)) \in Seq(Nat)
        BY <2>4, CatType
      <4> QED
        BY <2>2, <2>6, <4>1, AtType
    <3> QED
      BY <2>2, <2>3, <2>8, <3>1, <3>2, LenProperties
  <2> QED
    BY <1>2, <2>1, <2>14, <2>15 DEF ReadElem
<1> QED
  BY <1>1, <1>2

(* A list's first elements. *)
First(list, i) == SubSeq(list, 1, i)

(* The first elements become more by one. *)
LEMMA FirstGrows ==
    ASSUME NEW S, NEW list \in Seq(S)
    PROVE  /\ First(list, 0) = << >> /\ First(list, Len(list)) = list
           /\ \A i \in 1..Len(list) : Append(First(list, i - 1), list[i]) = First(list, i)
<1>1. First(list, 0) = << >> /\ First(list, Len(list)) = list
  BY SubSeqEmpty, SubSeqFull DEF First
<1>2. ASSUME NEW i \in 1..Len(list)
      PROVE  Append(First(list, i - 1), list[i]) = First(list, i)
  <2>1. i \in Int /\ i - 1 \in Int /\ Len(list) \in Nat
    BY LenProperties
  <2>2. \A j \in 1..Len(list) : list[j] \in S
    BY ElementOfSeq
  <2>3. /\ First(list, i - 1) \in Seq(S) /\ Len(First(list, i - 1)) = i - 1
        /\ \A j \in 1..(i - 1) : First(list, i - 1)[j] = list[j]
    <3>1. \A j \in 1..(i - 1) : list[j] \in S
      BY <2>1, <2>2
    <3>2. /\ SubSeq(list, 1, i - 1) \in Seq(S)
          /\ Len(SubSeq(list, 1, i - 1)) = IF 1 <= i - 1 THEN (i - 1) - 1 + 1 ELSE 0
          /\ \A j \in 1..(i - 1) - 1 + 1 : SubSeq(list, 1, i - 1)[j] = list[1 + j - 1]
      BY <2>1, <3>1, SubSeqProperties
    <3> QED
      BY <2>1, <3>2 DEF First
  <2>4. /\ First(list, i) \in Seq(S) /\ Len(First(list, i)) = i
        /\ \A j \in 1..i : First(list, i)[j] = list[j]
    <3>1. \A j \in 1..i : list[j] \in S
      BY <2>1, <2>2
    <3>2. /\ SubSeq(list, 1, i) \in Seq(S)
          /\ Len(SubSeq(list, 1, i)) = IF 1 <= i THEN i - 1 + 1 ELSE 0
          /\ \A j \in 1..i - 1 + 1 : SubSeq(list, 1, i)[j] = list[1 + j - 1]
      BY <2>1, <3>1, SubSeqProperties
    <3> QED
      BY <2>1, <3>2 DEF First
  <2>5. PICK s \in Seq(S), t \in Seq(S), x \in S :
           s = First(list, i - 1) /\ t = First(list, i) /\ x = list[i]
    BY <2>2, <2>3, <2>4
  <2>6. /\ Append(s, x) \in Seq(S) /\ Len(Append(s, x)) = Len(s) + 1
        /\ \A j \in 1..Len(s) : Append(s, x)[j] = s[j]
        /\ Append(s, x)[Len(s) + 1] = x
    BY AppendProperties
  <2>7. Len(Append(s, x)) = i /\ Len(t) = i /\ Len(s) = i - 1
    BY <2>1, <2>3, <2>4, <2>5, <2>6
  <2>8. ASSUME NEW j \in 1..i PROVE Append(s, x)[j] = t[j]
    <3>1. t[j] = list[j]
      BY <2>4, <2>5
    <3>2. CASE j = i
      <4>1. Append(s, x)[i] = x
        BY <2>1, <2>6, <2>7
      <4> QED
        BY <2>5, <3>1, <3>2, <4>1
    <3>3. CASE j \in 1..(i - 1)
      <4>1. Append(s, x)[j] = s[j] /\ s[j] = list[j]
        BY <2>3, <2>5, <2>6, <2>7, <3>3
      <4> QED
        BY <3>1, <4>1
    <3>4. j = i \/ j \in 1..(i - 1)
      BY <2>1
    <3> QED
      BY <3>2, <3>3, <3>4, Zenon
  <2>9. Append(s, x) = t
    BY <2>6, <2>7, <2>8, SeqEqual
  <2> QED
    BY <2>5, <2>9
<1> QED
  BY <1>1, <1>2

(* One round of the loop that reads a list. *)
More(list, e) == IF e.ok THEN [e EXCEPT !.value = Append(list, @)]
                 ELSE [ok |-> FALSE, value |-> list]

(* What a round makes of an element that was read. *)
LEMMA MoreGot ==
    \A list, x, at : More(list, Got(x, at)) = Got(Append(list, x), at)
BY DEF More, Got

GotTo(g, op, data, count, at) ==
    g = [i \in 0..count |->
           IF i = 0 THEN Got(<< >>, at)
           ELSE IF g[i - 1].ok
                THEN More(g[i - 1].value, ReadElem(op, data, g[i - 1].at))
                ELSE g[i - 1]]

LoopEnd(op, data, count, at) == (CHOOSE g : GotTo(g, op, data, count, at))[count]

(* ReadList is what the last round leaves. *)
LEMMA ReadListForm ==
    ASSUME NEW op, NEW data, NEW count, NEW at, ReadUint32(data, 1) = Got(count, at)
    PROVE  ReadList(op, data) = LoopEnd(op, data, count, at)
<1>1. /\ ReadUint32(data, 1).ok = TRUE /\ ReadUint32(data, 1).value = count
      /\ ReadUint32(data, 1).at = at
  BY DEF Got
<1>2. ReadUint32(data, 1).ok =>
         ReadList(op, data)
            = LoopEnd(op, data, ReadUint32(data, 1).value, ReadUint32(data, 1).at)
  BY Zenon DEF ReadList, LoopEnd, GotTo, ReadElem, More, Then
<1> QED
  BY <1>1, <1>2

(* Where the loop is after the first elements. *)
After(list, b, i) == Got(First(list, i), 1 + Len(b[i]))

(* The bytes of a list that begin at a byte are read back element by       *)
(* element.                                                                *)
Held(op, list, b, data) ==
    /\ BytesOf(b, op, list)
    /\ \A i \in 1..Len(list) : Sayable(op, list[i])
    /\ Len(list) <= MaxUint32
    /\ At(data, 1, b[Len(list)])

LEMMA ElementsRead ==
    ASSUME NEW op, NEW list \in Seq(Elements(op)), NEW b, NEW data,
           Held(op, list, b, data)
    PROVE  \A i \in 1..Len(list) :
              ReadElem(op, data, 1 + Len(b[i - 1])) = Got(list[i], 1 + Len(b[i]))
<1> SUFFICES ASSUME NEW i \in 1..Len(list)
             PROVE  ReadElem(op, data, 1 + Len(b[i - 1])) = Got(list[i], 1 + Len(b[i]))
  OBVIOUS
<1>1. PICK n \in Nat : n = Len(list)
  BY LenProperties
<1>2. /\ b \in [0..n -> Seq(Nat)] /\ b[i] = Cat(b[i - 1], Elem(op, list[i]))
      /\ Sayable(op, list[i]) /\ At(data, 1, b[n])
  BY <1>1 DEF Held, BytesOf
<1>3. i \in 0..n /\ i - 1 \in 0..n
  BY <1>1
<1>4. PICK x \in Elements(op) : x = list[i]
  BY <1>1, ElementOfSeq
<1>5. PICK e \in Seq(Nat) : e = Elem(op, x)
  BY ElemType
<1>6. PICK s \in Seq(Nat) : s = b[i - 1]
  BY <1>2, <1>3
<1>7. PICK rest \in Seq(Nat) : b[n] = Cat(b[i], rest)
  BY <1>1, <1>3, ListPrefix DEF Held
<1>8. b[i] = Cat(s, e)
  BY <1>2, <1>4, <1>5, <1>6
<1>9. Cat(e, rest) \in Seq(Nat) /\ b[n] = Cat(s, Cat(e, rest))
  BY <1>7, <1>8, CatType, CatAssoc
<1>10. At(data, 1 + Len(s), Cat(e, rest))
  BY <1>2, <1>9, AtNext
<1>11. ReadElem(op, data, 1 + Len(s)) = Got(x, (1 + Len(s)) + Len(Elem(op, x)))
  BY <1>2, <1>4, <1>5, <1>10, ElementRead
<1>12. (1 + Len(s)) + Len(e) = 1 + Len(b[i])
  <2>1. Len(Cat(s, e)) = Len(s) + Len(e)
    BY CatType
  <2> QED
    BY <1>8, <2>1, LenProperties
<1> QED
  BY <1>4, <1>5, <1>6, <1>11, <1>12

(* The list that is read back is the one that was written. *)
LEMMA ListRead ==
    ASSUME NEW op, NEW list \in Seq(Elements(op)), NEW b, NEW data,
           Held(op, list, b, data)
    PROVE  \E at : ReadList(op, data) = Got(list, at)
<1> DEFINE G == [i \in 0..Len(list) |-> After(list, b, i)]
           Round(r) == More(r.value, ReadElem(op, data, r.at))
<1>1. PICK n \in Nat : n = Len(list)
  BY LenProperties
<1>2. /\ b \in [0..n -> Seq(Nat)] /\ b[0] = WriteUint32(n)
      /\ n <= MaxUint32 /\ At(data, 1, b[n])
  BY <1>1 DEF Held, BytesOf
<1>3. ReadUint32(data, 1) = Got(n, 5)
  <2>1. PICK rest \in Seq(Nat) : b[n] = Cat(b[0], rest)
    BY <1>1, ListPrefix DEF Held
  <2>2. At(data, 1, Cat(WriteUint32(n), rest))
    BY <1>2, <2>1
  <2>3. n \in 0..MaxUint32
    BY <1>2, MaxStringType
  <2>4. ReadUint32(data, 1) = Got(n, 1 + 4)
    BY <2>2, <2>3, ReadUint32At
  <2> QED
    BY <2>4
<1>4. After(list, b, 0) = Got(<< >>, 5)
  <2>1. Len(b[0]) = 4 /\ First(list, 0) = << >>
    BY <1>1, <1>2, Uint32Type, FirstGrows
  <2>2. 1 + Len(b[0]) = 5
    BY <2>1
  <2> QED
    BY <2>1, <2>2 DEF After
<1>5. ASSUME NEW i \in 1..n
      PROVE  Round(After(list, b, i - 1)) = After(list, b, i)
  <2>1. ReadElem(op, data, 1 + Len(b[i - 1])) = Got(list[i], 1 + Len(b[i]))
    BY <1>1, ElementsRead
  <2>2. More(First(list, i - 1), Got(list[i], 1 + Len(b[i])))
           = Got(Append(First(list, i - 1), list[i]), 1 + Len(b[i]))
    BY MoreGot
  <2>3. Append(First(list, i - 1), list[i]) = First(list, i)
    BY <1>1, FirstGrows
  <2>4. /\ After(list, b, i - 1).value = First(list, i - 1)
        /\ After(list, b, i - 1).at = 1 + Len(b[i - 1])
    BY DEF After, Got
  <2> QED
    BY <2>1, <2>2, <2>3, <2>4 DEF After
<1>6. \A i : After(list, b, i).ok = TRUE
  BY DEF After, Got
<1> HIDE DEF Round
<1> DEFINE Rule(g, i) == IF i = 0 THEN Got(<< >>, 5)
                         ELSE IF g[i - 1].ok THEN Round(g[i - 1]) ELSE g[i - 1]
<1>7. \A g : GotTo(g, op, data, n, 5) <=> g = [i \in 0..n |-> Rule(g, i)]
  BY DEF GotTo, Round
<1>8. GotTo(G, op, data, n, 5)
  <2>1. ASSUME NEW i \in 0..n PROVE G[i] = Rule(G, i)
    <3>1. CASE i = 0
      BY <1>1, <1>4, <3>1
    <3>2. CASE i # 0
      <4>1. i \in 1..n /\ i - 1 \in 0..n
        BY <3>2
      <4>2. G[i] = After(list, b, i) /\ G[i - 1] = After(list, b, i - 1)
        BY <1>1, <4>1
      <4> QED
        BY <1>5, <1>6, <3>2, <4>1, <4>2
    <3> QED
      BY <3>1, <3>2
  <2>2. G = [i \in 0..n |-> G[i]]
    BY <1>1
  <2> QED
    BY <1>7, <2>1, <2>2
<1> DEFINE g == CHOOSE h : GotTo(h, op, data, n, 5)
<1>9. GotTo(g, op, data, n, 5)
  BY <1>8
<1>10. g = [i \in 0..n |-> Rule(g, i)]
  BY <1>7, <1>9
<1> HIDE DEF g
<1> DEFINE T == {i \in Nat : i <= n => g[i] = After(list, b, i)}
<1>11. 0 \in T
  BY <1>4, <1>10
<1>12. ASSUME NEW i \in Nat, i \in T PROVE i + 1 \in T
  <2> SUFFICES ASSUME i + 1 <= n PROVE g[i + 1] = After(list, b, i + 1)
    OBVIOUS
  <2>1. PICK j \in 1..n : j = i + 1
    OBVIOUS
  <2>2. j \in 0..n /\ j # 0 /\ j - 1 = i
    BY <2>1
  <2>3. g[j - 1] = After(list, b, j - 1)
    BY <1>12, <2>1, <2>2
  <2>4. g[j] = Rule(g, j)
    BY <1>10, <2>2
  <2>5. g[j] = Round(After(list, b, j - 1))
    BY <1>6, <2>2, <2>3, <2>4
  <2> QED
    BY <1>5, <2>1, <2>5
<1>13. g[n] = After(list, b, n)
  <2>1. Nat \subseteq T
    <3> HIDE DEF T
    <3> QED
      BY <1>11, <1>12, NatSetInduction
  <2> QED
    BY <2>1
<1>14. First(list, n) = list
  BY <1>1, FirstGrows
<1>15. ReadList(op, data) = g[n]
  BY <1>3, ReadListForm DEF g, LoopEnd
<1> QED
  BY <1>13, <1>14, <1>15 DEF After

Lists(op) == IF op = "pull" THEN MessageLists ELSE FriendPairLists

(* A response's lists. *)
LEMMA ListsType ==
    ASSUME NEW op \in {"pull", "friends"}, NEW list \in Lists(op)
    PROVE  /\ list \in Seq(Elements(op)) /\ Len(WriteList(op, list)) <= MaxList
           /\ op = "friends" => \A i \in 1..Len(list) : Sayable(op, list[i])
<1>1. CASE op = "pull"
  BY <1>1 DEF Lists, MessageLists, Elements
<1>2. CASE op = "friends"
  <2>1. list \in Seq(ShortFriends) /\ Len(WriteList(op, list)) <= MaxList
    BY <1>2 DEF Lists, FriendPairLists
  <2>2. PICK n \in Nat : n = Len(list) /\ list \in [1..n -> ShortFriends]
    BY <2>1, LenProperties
  <2>3. ShortFriends \subseteq Seq(Nat) \X Seq(Nat)
    BY DEF ShortFriends
  <2>4. list \in [1..n -> Seq(Nat) \X Seq(Nat)]
    BY <2>2, <2>3
  <2>5. list \in Seq(Seq(Nat) \X Seq(Nat))
    BY <2>4, SeqDef
  <2>6. ASSUME NEW i \in 1..Len(list) PROVE Sayable(op, list[i])
    <3>1. list[i] \in ShortFriends
      BY <2>2
    <3> QED
      BY <1>2, <3>1 DEF ShortFriends, Sayable
  <2> QED
    BY <1>2, <2>1, <2>5, <2>6 DEF Elements
<1> QED
  BY <1>1, <1>2

(* The longest list fits into a frame. *)
LEMMA MaxListType == MaxList \in Nat /\ MaxList <= MaxUint32
BY MaxStringType DEF MaxList

(* The lengths in a list that fits can be said. *)
LEMMA ListSayable ==
    ASSUME NEW op \in {"pull", "friends"}, NEW list \in Lists(op),
           NEW b, BytesOf(b, op, list), WriteList(op, list) = b[Len(list)]
    PROVE  /\ \A i \in 1..Len(list) : Sayable(op, list[i])
           /\ Len(list) <= MaxUint32
<1>1. list \in Seq(Elements(op)) /\ Len(WriteList(op, list)) <= MaxList
  BY ListsType
<1>2. PICK n \in Nat : n = Len(list)
  BY <1>1, LenProperties
<1>3. /\ b \in [0..n -> Seq(Nat)]
      /\ \A i \in 1..n : b[i] = Cat(b[i - 1], Elem(op, list[i]))
  BY <1>2 DEF BytesOf
<1>4. PICK top \in Nat : top = Len(b[n]) /\ top <= MaxUint32
  <2>1. b[n] \in Seq(Nat)
    BY <1>3
  <2>2. Len(b[n]) \in Nat /\ Len(b[n]) <= MaxList
    BY <1>1, <1>2, <2>1, LenProperties
  <2>3. Len(b[n]) <= MaxUint32
    BY <2>2, MaxListType, MaxStringType
  <2> QED
    BY <2>2, <2>3
<1>5. Len(list) <= MaxUint32
  <2>1. n \in 0..n
    OBVIOUS
  <2>2. Len(b[n]) >= 4 + n
    BY <1>1, <1>2, <2>1, ListPrefix
  <2> QED
    BY <1>2, <1>4, <2>2, MaxStringType
<1>6. CASE op = "friends"
  BY <1>5, <1>6, ListsType
<1>7. CASE op = "pull"
  <2>1. ASSUME NEW i \in 1..n PROVE Sayable(op, list[i])
    <3>1. PICK x \in Elements(op) : x = list[i]
      BY <1>1, <1>2, ElementOfSeq
    <3>2. i \in 0..n /\ i - 1 \in 0..n
      BY <1>2
    <3>3. PICK rest \in Seq(Nat) : b[n] = Cat(b[i], rest)
      BY <1>1, <1>2, <3>2, ListPrefix
    <3>4. PICK s \in Seq(Nat), e \in Seq(Nat) : s = b[i - 1] /\ e = Elem(op, x)
      BY <1>3, <3>2, ElemType
    <3>5. b[i] = Cat(s, e) /\ Cat(s, e) \in Seq(Nat)
      BY <1>3, <3>1, <3>4, CatType
    <3>6. Len(Cat(Cat(s, e), rest)) = Len(Cat(s, e)) + Len(rest)
      BY <3>5, CatType
    <3>7. Len(Cat(s, e)) = Len(s) + Len(e)
      BY CatType
    <3>8. x \in Seq(Nat)
      BY <1>7 DEF Elements
    <3>9. Len(e) = 4 + Len(x)
      BY <1>7, <3>4, ElemLength
    <3>10. PICK p \in Nat, q \in Nat, r \in Nat, l \in Nat :
              p = Len(s) /\ q = Len(e) /\ r = Len(rest) /\ l = Len(x)
      BY <3>8, LenProperties
    <3>11. top = (p + q) + r /\ q = 4 + l
      BY <1>4, <3>3, <3>5, <3>6, <3>7, <3>9, <3>10
    <3>12. PICK m \in Nat : m = MaxUint32
      BY MaxStringType
    <3>13. l <= m
      BY <1>4, <3>11, <3>12
    <3> QED
      BY <1>7, <3>1, <3>10, <3>12, <3>13 DEF Sayable
  <2> QED
    BY <1>2, <1>5, <2>1
<1> QED
  BY <1>6, <1>7

(* A list of a response is what the client reads behind the first byte. *)
LEMMA ListMeant ==
    ASSUME NEW op \in {"pull", "friends"}, NEW list \in Lists(op),
           NEW z \in Seq(Nat), Len(z) = 1
    PROVE  /\ WriteList(op, list) \in Seq(Nat)
           /\ Len(WriteList(op, list)) <= MaxList
           /\ \E at : ReadList(op, Cat(z, WriteList(op, list))) = Got(list, at)
<1>1. list \in Seq(Elements(op)) /\ Len(WriteList(op, list)) <= MaxList
  BY ListsType
<1>2. PICK b : BytesOf(b, op, list) /\ WriteList(op, list) = b[Len(list)]
  BY <1>1, ListBytes
<1>3. /\ \A i \in 1..Len(list) : Sayable(op, list[i])
      /\ Len(list) <= MaxUint32
  BY <1>2, ListSayable
<1>4. WriteList(op, list) \in Seq(Nat)
  <2>1. Len(list) \in 0..Len(list)
    BY <1>1, LenProperties
  <2> QED
    BY <1>2, <2>1 DEF BytesOf
<1>5. At(Cat(z, WriteList(op, list)), 1, WriteList(op, list))
  <2>1. Cat(z, WriteList(op, list)) \in Seq(Nat)
    BY <1>4, CatType
  <2>2. At(Cat(z, WriteList(op, list)), 0, Cat(z, WriteList(op, list)))
    BY <2>1, AtStart
  <2>3. At(Cat(z, WriteList(op, list)), 0 + Len(z), WriteList(op, list))
    BY <1>4, <2>2, AtNext
  <2> QED
    BY <2>3
<1>6. Held(op, list, b, Cat(z, WriteList(op, list)))
  BY <1>2, <1>3, <1>5 DEF Held
<1> QED
  BY <1>1, <1>4, <1>6, ListRead

-----------------------------------------------------------------------------
(* Responses.                                                              *)

(* A failure says why; a success brings what the operation promises. *)
Refusal(e) == Response(FALSE, e, << >>, << >>, << >>)
Success(token, rotation, list) == Response(TRUE, << >>, token, rotation, list)

Shape(op, token, r) ==
    \/ \E e \in {<<1>>, <<2>>, <<3>>} : r = Refusal(e)
    \/ op = "login" /\ r = Success(token, << >>, << >>)
    \/ op = "join" /\ r = Success(<< >>, <<1, 0>>, << >>)
    \/ op = "message" /\ \E ro \in {<< >>, <<2, 1>>} : r = Success(<< >>, ro, << >>)
    \/ op \in {"pull", "friends"} /\ \E l \in Lists(op) : r = Success(<< >>, << >>, l)
    \/ op \in {"logout", "push", "add", "remark"} /\ r = Success(<< >>, << >>, << >>)

CallOps == {"login", "logout", "join", "message", "push", "pull", "friends", "add",
            "remark"}

(* Whatever ApiService answers has such a form. *)
LEMMA AnswerShape ==
    ASSUME NEW c \in Clients, NEW call, call.op \in CallOps, NEW r \in Answers(c, call)
    PROVE  Shape(call.op, TokenOf[c], r)
<1>1. ErrorText.accepted = << >> /\ ErrorText.refused = <<1>> /\ ErrorText.denied = <<2>>
      /\ ErrorText.failed = <<3>> /\ ErrorText["accepted"] = << >>
      /\ ErrorText["refused"] = <<1>> /\ ErrorText["denied"] = <<2>>
      /\ ErrorText["failed"] = <<3>>
  BY DEF ErrorText
<1> DEFINE good(rotation, list) == Response(TRUE, << >>, << >>, rotation, list)
<1>2. CASE call.op = "login"
  <2>1. PICK v \in Verdicts(call.name, call.text) :
           r = Response(v = "accepted", ErrorText[v],
                        IF v = "accepted" THEN TokenOf[c] ELSE << >>, << >>, << >>)
    BY <1>2 DEF Answers
  <2>2. v \in {"denied", "failed", "accepted", "refused"}
    BY <2>1 DEF Verdicts, Outcomes
  <2>3. CASE v = "accepted"
    <3>1. r = Success(TokenOf[c], << >>, << >>)
      BY <1>1, <2>1, <2>3 DEF Success, Response
    <3> QED
      BY <1>2, <3>1 DEF Shape
  <2>4. CASE v # "accepted"
    <3>1. \E e \in {<<1>>, <<2>>, <<3>>} : r = Refusal(e)
      BY <1>1, <2>1, <2>2, <2>4 DEF Refusal, Response
    <3> QED
      BY <3>1 DEF Shape
  <2> QED
    BY <2>3, <2>4
<1>3. CASE call.op # "login"
  <2>1. \/ r = Response(FALSE, <<1>>, << >>, << >>, << >>)
        \/ call.op = "join" /\ r = good(<<1, 0>>, << >>)
        \/ call.op = "message" /\ (r = good(<< >>, << >>) \/ r = good(<<2, 1>>, << >>))
        \/ call.op = "pull" /\ \E m \in Mail : r = good(<< >>, m)
        \/ call.op = "friends" /\ \E l \in FriendLists : r = good(<< >>, l)
        \/ call.op \in {"logout", "push", "add", "remark"} /\ r = good(<< >>, << >>)
    BY <1>3 DEF Answers, CallOps
  <2>2. Mail \subseteq Lists("pull") /\ FriendLists \subseteq Lists("friends")
    BY ProcessAssumption DEF Lists
  <2> QED
    BY <2>1, <2>2, Zenon DEF Shape, Refusal, Success
<1> QED
  BY <1>2, <1>3

(* The bytes behind the flag. *)
Body(op, r) ==
    CASE op = "login" /\ r.success -> WriteString(r.token)
      [] op = "join" /\ r.success -> Rotation(r)
      [] op = "message" -> (IF r.success /\ r.rotation # << >>
                            THEN <<1>> \o Rotation(r) ELSE <<0>>) \o Failure(r)
      [] op \in {"pull", "friends"} /\ r.success -> WriteList(op, r.list)
      [] OTHER -> Failure(r)

(* A response is a flag and what is behind it. *)
LEMMA ResponseForm ==
    ASSUME NEW op \in CallOps, NEW r
    PROVE  EncodeResponse(op, r) = Cat(Flag(r.success), Body(op, r))
BY DEF EncodeResponse, Body, Cat, CallOps

Small(s) == s \in Seq(Nat) /\ Len(s) <= MaxString + 10
Sized(s, k) == s \in Seq(Nat) /\ Len(s) = k

(* Short sequences put together are short. *)
LEMMA CatSized ==
    ASSUME NEW s, NEW t, NEW k \in Nat, NEW m \in Nat, Sized(s, k), Sized(t, m)
    PROVE  Sized(Cat(s, t), k + m)
<1>1. Cat(s, t) \in Seq(Nat) /\ Len(Cat(s, t)) = Len(s) + Len(t)
  BY CatType DEF Sized
<1>2. Len(s) = k /\ Len(t) = m
  BY DEF Sized
<1>3. Len(Cat(s, t)) = k + m
  BY <1>1, <1>2
<1> QED
  BY <1>1, <1>3 DEF Sized

LEMMA SizedSmall ==
    ASSUME NEW s, NEW k \in Nat, Sized(s, k), k <= 10
    PROVE  Small(s)
<1>1. MaxString \in Nat
  BY MaxStringType
<1> QED
  BY <1>1 DEF Sized, Small

(* Everything but a list is short. *)
LEMMA SmallPieces ==
    /\ Small(<< >>) /\ Small(<<0>>) /\ Small(<<1>>)
    /\ \A e \in {<<1>>, <<2>>, <<3>>} : Small(Cat(<<0>>, WriteString(e)))
                                       /\ Small(WriteString(e))
    /\ Small(Cat(WriteUint32(1), <<0>>))
    /\ Small(Cat(<<1>>, Cat(WriteUint32(2), <<1>>)))
    /\ \A t \in Seq(Nat) : Small(WriteString(t))
<1>1. PICK ms \in Nat : ms = MaxString /\ ms >= 15
  BY MaxStringType
<1>2. PICK one \in Nat, two \in Nat, three \in Nat, four \in Nat :
         one = 1 /\ two = 2 /\ three = 3 /\ four = 4
  OBVIOUS
<1>3. PICK z, y : z = <<0>> /\ Sized(z, one) /\ y = <<1>> /\ Sized(y, one)
  <2>1. <<0>> \in Seq(Nat) /\ Len(<<0>>) = 1
    OBVIOUS
  <2>2. <<1>> \in Seq(Nat) /\ Len(<<1>>) = 1
    OBVIOUS
  <2> QED
    BY <1>2, <2>1, <2>2 DEF Sized
<1>4. Small(<< >>)
  <2>1. << >> \in Seq(Nat) /\ Len(<< >>) = 0
    OBVIOUS
  <2> QED
    BY <1>1, <2>1 DEF Small
<1>5. Small(z) /\ Small(y)
  <2>1. one <= 10
    BY <1>2
  <2> QED
    BY <1>3, <2>1, SizedSmall
<1>6. ASSUME NEW t \in Seq(Nat) PROVE Small(WriteString(t))
  <2>1. Len(WriteString(t)) = 2 + IF Len(t) <= MaxString THEN Len(t) ELSE MaxString
    BY StringType
  <2>2. Len(t) \in Nat /\ WriteString(t) \in Seq(Nat)
    BY LenProperties, StringType
  <2> QED
    BY <1>1, <2>1, <2>2 DEF Small
<1>7. ASSUME NEW e \in Seq(Nat), Len(e) = 1
      PROVE  Small(Cat(z, WriteString(e))) /\ Small(WriteString(e))
  <2>2. Sized(WriteString(e), three)
    <3>1. WriteString(e) \in Seq(Nat)
      BY StringType
    <3>2. Len(WriteString(e)) = 2 + IF Len(e) <= MaxString THEN Len(e) ELSE MaxString
      BY StringType
    <3>3. Len(WriteString(e)) = 3
      BY <1>1, <1>7, <3>2
    <3> QED
      BY <1>2, <3>1, <3>3 DEF Sized
  <2>3. Sized(Cat(z, WriteString(e)), one + three)
    BY <1>3, <2>2, CatSized
  <2>4. one + three \in Nat /\ one + three <= 10 /\ three <= 10
    BY <1>2
  <2> QED
    BY <2>2, <2>3, <2>4, SizedSmall
<1>8. Sized(WriteUint32(one), four) /\ Sized(WriteUint32(two), four)
  BY <1>2, Uint32Type DEF Sized
<1>9. Small(Cat(WriteUint32(one), z))
  <2>1. Sized(Cat(WriteUint32(one), z), four + one)
    BY <1>3, <1>8, CatSized
  <2>2. four + one \in Nat /\ four + one <= 10
    BY <1>2
  <2> QED
    BY <2>1, <2>2, SizedSmall
<1>10. Small(Cat(y, Cat(WriteUint32(two), y)))
  <2>1. Sized(Cat(WriteUint32(two), y), four + one)
    BY <1>3, <1>8, CatSized
  <2>2. four + one \in Nat /\ one + (four + one) \in Nat /\ one + (four + one) <= 10
    BY <1>2
  <2>3. Sized(Cat(y, Cat(WriteUint32(two), y)), one + (four + one))
    BY <1>3, <2>1, <2>2, CatSized
  <2> QED
    BY <2>2, <2>3, SizedSmall
<1>11. Small(<<0>>) /\ Small(<<1>>) /\ Small(Cat(WriteUint32(1), <<0>>))
       /\ Small(Cat(<<1>>, Cat(WriteUint32(2), <<1>>)))
  BY <1>2, <1>3, <1>5, <1>9, <1>10
<1>12. \A e \in {<<1>>, <<2>>, <<3>>} : Small(Cat(<<0>>, WriteString(e)))
                                       /\ Small(WriteString(e))
  <2>1. <<1>> \in Seq(Nat) /\ Len(<<1>>) = 1
    OBVIOUS
  <2>2. <<2>> \in Seq(Nat) /\ Len(<<2>>) = 1
    OBVIOUS
  <2>3. <<3>> \in Seq(Nat) /\ Len(<<3>>) = 1
    OBVIOUS
  <2>4. \A e \in {<<1>>, <<2>>, <<3>>} : e \in Seq(Nat) /\ Len(e) = 1
    BY <2>1, <2>2, <2>3
  <2> QED
    BY <1>3, <1>7, <2>4
<1> QED
  BY <1>4, <1>6, <1>11, <1>12

LEMMA SmallFits ==
    ASSUME NEW s, Small(s)
    PROVE  s \in Seq(Nat) /\ Len(s) <= MaxList
<1>1. PICK ms \in Nat, mu \in Nat :
         ms = MaxString /\ mu = MaxUint32 /\ ms >= 15 /\ mu >= 3 * ms + 8
  BY MaxStringType
<1>2. MaxList = mu - (ms + 5)
  BY <1>1 DEF MaxList
<1>3. s \in Seq(Nat) /\ Len(s) \in Nat /\ Len(s) <= ms + 10
  BY <1>1, LenProperties DEF Small
<1>4. Len(s) <= mu - (ms + 5)
  BY <1>1, <1>3
<1> QED
  BY <1>2, <1>3, <1>4

(* What is behind the flag, and what it is for. *)
LEMMA ResponseType ==
    ASSUME NEW op \in CallOps, NEW token \in Seq(Nat), NEW r, Shape(op, token, r)
    PROVE  /\ r.success \in BOOLEAN
           /\ Body(op, r) \in Seq(Nat) /\ Len(Body(op, r)) <= MaxList
           /\ op = "login" /\ r.success => r.token = token /\ Body(op, r) = WriteString(token)
           /\ op \in {"pull", "friends"} /\ r.success =>
                 r.list \in Lists(op) /\ Body(op, r) = WriteList(op, r.list)
           /\ op \in {"pull", "friends"} /\ ~r.success => r.list = << >>
<1>1. CASE \E e \in {<<1>>, <<2>>, <<3>>} : r = Refusal(e)
  <2>1. PICK e \in {<<1>>, <<2>>, <<3>>} : r = Refusal(e)
    BY <1>1
  <2>2. r.success = FALSE /\ r.error = e /\ r.list = << >>
    BY <2>1 DEF Refusal, Response
  <2>3. Failure(r) = WriteString(e)
    BY <2>2 DEF Failure
  <2>4. CASE op = "message"
    <3>1. Body(op, r) = Cat(<<0>>, WriteString(e))
      BY <2>2, <2>3, <2>4 DEF Body, Cat
    <3> QED
      BY <2>2, <2>4, <3>1, SmallPieces, SmallFits
  <2>5. CASE op # "message"
    <3>1. Body(op, r) = WriteString(e)
      BY <2>2, <2>3, <2>5 DEF Body, CallOps
    <3> QED
      BY <2>2, <3>1, SmallPieces, SmallFits
  <2> QED
    BY <2>4, <2>5
<1>2. CASE op = "login" /\ r = Success(token, << >>, << >>)
  <2>1. r.success = TRUE /\ r.token = token
    BY <1>2 DEF Success, Response
  <2>2. Body(op, r) = WriteString(token)
    BY <1>2, <2>1 DEF Body
  <2> QED
    BY <1>2, <2>1, <2>2, SmallPieces, SmallFits
<1>3. CASE op = "join" /\ r = Success(<< >>, <<1, 0>>, << >>)
  <2>1. r.success = TRUE /\ r.rotation = <<1, 0>>
    BY <1>3 DEF Success, Response
  <2>2. r.rotation[1] = 1 /\ r.rotation[2] = 0
    BY <2>1
  <2>3. Body(op, r) = Cat(WriteUint32(1), <<0>>)
    BY <1>3, <2>1, <2>2 DEF Body, Rotation, Cat
  <2> QED
    BY <1>3, <2>1, <2>3, SmallPieces, SmallFits
<1>4. CASE op = "message" /\ \E ro \in {<< >>, <<2, 1>>} : r = Success(<< >>, ro, << >>)
  <2>1. PICK ro \in {<< >>, <<2, 1>>} : r = Success(<< >>, ro, << >>)
    BY <1>4
  <2>2. r.success = TRUE /\ r.rotation = ro /\ Failure(r) = << >>
    BY <2>1 DEF Success, Response, Failure
  <2>3. CASE ro = << >>
    <3>1. Body(op, r) = Cat(<<0>>, << >>)
      BY <1>4, <2>2, <2>3 DEF Body, Cat
    <3>2. Body(op, r) = <<0>>
      BY <3>1, SmallPieces, CatEmpty DEF Small
    <3> QED
      BY <1>4, <2>2, <3>2, SmallPieces, SmallFits
  <2>4. CASE ro = <<2, 1>>
    <3>1. r.rotation[1] = 2 /\ r.rotation[2] = 1 /\ r.rotation # << >>
      BY <2>2, <2>4
    <3>2. Body(op, r) = Cat(Cat(<<1>>, Cat(WriteUint32(2), <<1>>)), << >>)
      BY <1>4, <2>2, <3>1 DEF Body, Rotation, Cat
    <3>3. Body(op, r) = Cat(<<1>>, Cat(WriteUint32(2), <<1>>))
      BY <3>2, SmallPieces, CatEmpty DEF Small
    <3> QED
      BY <1>4, <2>2, <3>3, SmallPieces, SmallFits
  <2> QED
    BY <2>1, <2>3, <2>4
<1>5. CASE op \in {"pull", "friends"} /\ \E l \in Lists(op) : r = Success(<< >>, << >>, l)
  <2>1. PICK l \in Lists(op) : r = Success(<< >>, << >>, l)
    BY <1>5
  <2>2. r.success = TRUE /\ r.list = l
    BY <2>1 DEF Success, Response
  <2>3. Body(op, r) = WriteList(op, l)
    BY <1>5, <2>2 DEF Body
  <2>4. WriteList(op, l) \in Seq(Nat) /\ Len(WriteList(op, l)) <= MaxList
    <3>1. <<0>> \in Seq(Nat) /\ Len(<<0>>) = 1
      OBVIOUS
    <3>2. PICK z \in Seq(Nat) : Len(z) = 1
      BY <3>1
    <3> QED
      BY <1>5, <2>1, <3>2, ListMeant
  <2> QED
    BY <1>5, <2>1, <2>2, <2>3, <2>4
<1>6. CASE op \in {"logout", "push", "add", "remark"} /\ r = Success(<< >>, << >>, << >>)
  <2>1. r.success = TRUE /\ Failure(r) = << >>
    BY <1>6 DEF Success, Response, Failure
  <2>2. Body(op, r) = << >>
    BY <1>6, <2>1 DEF Body
  <2> QED
    BY <1>6, <2>1, <2>2, SmallPieces, SmallFits
<1> QED
  BY <1>1, <1>2, <1>3, <1>4, <1>5, <1>6 DEF Shape

(* A response means to the client what was answered. *)
LEMMA ResponseRead ==
    ASSUME NEW op \in CallOps, NEW token \in Seq(Nat), Len(token) <= MaxString,
           NEW r, Shape(op, token, r)
    PROVE  /\ EncodeResponse(op, r) \in Seq(Nat)
           /\ Len(EncodeResponse(op, r)) <= MaxUint32 - (MaxString + 4)
           /\ ParseResponse(op, EncodeResponse(op, r)) = ResultMeant(op, r)
<1>1. PICK x \in Seq(Nat) : x = Body(op, r) /\ Len(x) <= MaxList
  BY ResponseType
<1>2. PICK z \in Seq(Nat) : z = Flag(r.success) /\ Len(z) = 1
                            /\ z[1] = IF r.success THEN 1 ELSE 0
  <2>1. <<0>> \in Seq(Nat) /\ Len(<<0>>) = 1 /\ <<0>>[1] = 0
    OBVIOUS
  <2>2. <<1>> \in Seq(Nat) /\ Len(<<1>>) = 1 /\ <<1>>[1] = 1
    OBVIOUS
  <2>3. Flag(r.success) = IF r.success THEN <<1>> ELSE <<0>>
    BY DEF Flag
  <2> QED
    BY <2>1, <2>2, <2>3
<1>3. PICK out \in Seq(Nat) :
         out = EncodeResponse(op, r) /\ out = Cat(z, x) /\ Len(out) = Len(z) + Len(x)
  <2>1. EncodeResponse(op, r) = Cat(z, x)
    BY <1>1, <1>2, ResponseForm
  <2>2. Cat(z, x) \in Seq(Nat) /\ Len(Cat(z, x)) = Len(z) + Len(x)
    BY CatType
  <2> QED
    BY <2>1, <2>2
<1>4. PICK k \in Nat : k = Len(x)
  BY LenProperties
<1>5. Len(out) = 1 + k
  BY <1>2, <1>3, <1>4
<1>6. Len(out) <= MaxUint32 - (MaxString + 4)
  BY <1>1, <1>4, <1>5, MaxStringType DEF MaxList
<1>7. out # << >>
  BY <1>4, <1>5
<1>8. out[1] = IF r.success THEN 1 ELSE 0
  <2>1. 1 \in 1..Len(z)
    BY <1>2
  <2>2. Cat(z, x)[1] = z[1]
    BY <2>1, CatLeft
  <2> QED
    BY <1>2, <1>3, <2>2
<1>9. r.success \in BOOLEAN
  BY ResponseType
<1>10. ParseResponse(op, out) = ResultMeant(op, r)
  <2>1. CASE op = "login"
    <3>1. CASE r.success
      <4>1. x = WriteString(token) /\ r.token = token
        BY <1>1, <2>1, <3>1, ResponseType
      <4>2. At(out, 0, Cat(z, x))
        BY <1>3, AtStart
      <4>3. At(out, 0 + Len(z), x)
        BY <4>2, AtNext
      <4>4. At(out, 1, Cat(WriteString(token), << >>))
        <5>1. 0 + Len(z) = 1
          BY <1>2
        <5>2. Cat(x, << >>) = x
          BY CatEmpty
        <5> QED
          BY <4>1, <4>3, <5>1, <5>2
      <4>5. << >> \in Seq(Nat)
        BY EmptySeq
      <4>6. ReadString(out, 1) = Got(token, 1 + 2 + Len(token))
        BY <4>4, <4>5, ReadStringAt
      <4>7. ReadString(out, 1).ok = TRUE /\ ReadString(out, 1).value = token
        BY <4>6 DEF Got
      <4>8. out[1] # 0
        BY <1>8, <3>1
      <4>9. ParseLogin(out) = Returned(TRUE, <<token>>)
        BY <1>7, <4>7, <4>8 DEF ParseLogin
      <4> QED
        BY <1>9, <2>1, <3>1, <4>1, <4>9 DEF ParseResponse, ResultMeant
    <3>2. CASE ~r.success
      <4>1. out[1] = 0
        BY <1>8, <3>2
      <4>2. ParseLogin(out) = Returned(FALSE, << >>)
        BY <1>7, <4>1 DEF ParseLogin
      <4>3. r.success = FALSE
        BY <1>9, <3>2
      <4> QED
        BY <2>1, <4>2, <4>3 DEF ParseResponse, ResultMeant
    <3> QED
      BY <3>1, <3>2
  <2>2. CASE op \in {"pull", "friends"}
    <3>1. CASE r.success
      <4>1. r.list \in Lists(op) /\ x = WriteList(op, r.list)
        BY <1>1, <2>2, <3>1, ResponseType
      <4>2. PICK at : ReadList(op, out) = Got(r.list, at)
        BY <1>2, <1>3, <2>2, <4>1, ListMeant
      <4>3. Listed(ReadList(op, out)) = r.list
        BY <4>2 DEF Listed, Got
      <4>4. out[1] # 0
        BY <1>8, <3>1
      <4>5. ParseList(op, out) = r.list
        BY <1>7, <4>3, <4>4 DEF ParseList
      <4> QED
        BY <2>2, <4>5 DEF ParseResponse, ResultMeant
    <3>2. CASE ~r.success
      <4>1. out[1] = 0 /\ r.list = << >>
        BY <1>8, <2>2, <3>2, ResponseType
      <4>2. ParseList(op, out) = << >>
        BY <1>7, <4>1 DEF ParseList
      <4> QED
        BY <2>2, <4>1, <4>2 DEF ParseResponse, ResultMeant
    <3> QED
      BY <3>1, <3>2
  <2>3. CASE op \in {"logout", "join", "message", "push", "add", "remark"}
    <3>1. (out # << >> /\ out[1] # 0) = r.success
      BY <1>7, <1>8, <1>9
    <3>2. (out # << >> /\ out[1] = 1) = r.success
      BY <1>7, <1>8, <1>9
    <3> QED
      BY <2>3, <3>1, <3>2 DEF ParseResponse, ResultMeant
  <2> QED
    BY <2>1, <2>2, <2>3 DEF CallOps
<1> QED
  BY <1>3, <1>6, <1>10

AnswerOf(op, token, r) ==
    IF op = "login" THEN EncodeResponse(op, r)
    ELSE Cat(WriteString(token), Seal(EncodeResponse(op, r)))

ReplyOf(op, token, r) == EncodeFrame(TypeOf(op), AnswerOf(op, token, r))

(* The frame of a reply is read back. *)
Framed(op, token, r) ==
    \E p, at :
       /\ p \in Seq(Nat) /\ p = AnswerOf(op, token, r)
       /\ DecodeFrame(ReplyOf(op, token, r)) = Got([type |-> TypeOf(op), payload |-> p], at)

(* The frame of a reply is read as it was written. *)
LEMMA AnswerFrame ==
    ASSUME NEW op \in CallOps, NEW token \in Seq(Nat), NEW t \in Seq(Nat),
           Len(t) <= MaxString, NEW r, Shape(op, t, r)
    PROVE  Framed(op, token, r)
<1>1. PICK out \in Seq(Nat), k \in Nat :
         /\ out = EncodeResponse(op, r) /\ k = Len(out)
         /\ k <= MaxUint32 - (MaxString + 4)
  <2>1. /\ EncodeResponse(op, r) \in Seq(Nat)
        /\ Len(EncodeResponse(op, r)) <= MaxUint32 - (MaxString + 4)
    BY ResponseRead
  <2> QED
    BY <2>1, LenProperties
<1>2. PICK ms \in Nat, mu \in Nat : ms = MaxString /\ mu = MaxUint32
  BY MaxStringType
<1>3. AnswerOf(op, token, r) \in Seq(Nat) /\ Len(AnswerOf(op, token, r)) <= mu
  <2>1. CASE op = "login"
    <3>1. AnswerOf(op, token, r) = out
      BY <1>1, <2>1 DEF AnswerOf
    <3>2. k <= mu
      BY <1>1, <1>2
    <3> QED
      BY <1>1, <3>1, <3>2
  <2>2. CASE op # "login"
    <3>1. PICK w \in Seq(Nat), n \in Nat : w = WriteString(token) /\ n = Len(w) /\ n <= ms + 2
      <4>1. Len(WriteString(token))
               = 2 + IF Len(token) <= MaxString THEN Len(token) ELSE MaxString
        BY StringType
      <4>2. Len(token) \in Nat /\ WriteString(token) \in Seq(Nat)
        BY LenProperties, StringType
      <4>3. Len(WriteString(token)) <= ms + 2 /\ Len(WriteString(token)) \in Nat
        BY <1>2, <4>1, <4>2
      <4> QED
        BY <4>2, <4>3
    <3>2. Seal(out) \in Seq(Nat) /\ Len(Seal(out)) = k + 2
      BY <1>1, SealOpen
    <3>3. /\ Cat(w, Seal(out)) \in Seq(Nat)
          /\ Len(Cat(w, Seal(out))) = Len(w) + Len(Seal(out))
      BY <3>2, CatType
    <3>4. Len(Cat(w, Seal(out))) = n + (k + 2)
      BY <3>1, <3>2, <3>3
    <3>5. n + (k + 2) <= mu
      BY <1>1, <1>2, <3>1
    <3>6. AnswerOf(op, token, r) = Cat(w, Seal(out))
      BY <1>1, <2>2, <3>1 DEF AnswerOf
    <3> QED
      BY <3>3, <3>4, <3>5, <3>6
  <2> QED
    BY <2>1, <2>2
<1>4. TypeOf(op) \in 0..MaxString
  BY TypeNumberType DEF CallOps
<1>5. DecodeFrame(EncodeFrame(TypeOf(op), AnswerOf(op, token, r)))
         = Got([type |-> TypeOf(op), payload |-> AnswerOf(op, token, r)],
               12 + Len(AnswerOf(op, token, r)))
  BY <1>2, <1>3, <1>4, FrameRead
<1> QED
  BY <1>3, <1>5 DEF ReplyOf, Framed

(* What a client makes of a reply is what was answered. *)
LEMMA ReplyMeant ==
    ASSUME NEW c, NEW t \in Seq(Nat), Len(t) <= MaxString, NEW r,
           client[c].call.op \in CallOps, client[c].token \in Seq(Nat),
           Len(client[c].token) <= MaxString,
           Shape(client[c].call.op, t, r),
           client[c].reply = ReplyOf(client[c].call.op, client[c].token, r)
    PROVE  Result(c) = ResultMeant(client[c].call.op, r)
<1>1. PICK op \in CallOps, token \in Seq(Nat) :
         op = client[c].call.op /\ token = client[c].token
  OBVIOUS
<1>2. PICK p, at :
         /\ p \in Seq(Nat) /\ p = AnswerOf(op, token, r)
         /\ DecodeFrame(client[c].reply) = Got([type |-> TypeOf(op), payload |-> p], at)
  <2>1. Shape(op, t, r) /\ client[c].reply = ReplyOf(op, token, r)
    BY <1>1
  <2>2. Framed(op, token, r)
    BY <1>1, <2>1, AnswerFrame
  <2> QED
    BY <2>1, <2>2 DEF Framed
<1>3. /\ DecodeFrame(client[c].reply).ok = TRUE
      /\ DecodeFrame(client[c].reply).value = [type |-> TypeOf(op), payload |-> p]
  BY <1>2 DEF Got
<1>4. Result(c) = ResultOf(op, OpenReply(c, [type |-> TypeOf(op), payload |-> p]))
  BY <1>1, <1>3 DEF Result, Then
<1>5. /\ EncodeResponse(op, r) \in Seq(Nat)
      /\ ParseResponse(op, EncodeResponse(op, r)) = ResultMeant(op, r)
  BY <1>1, ResponseRead
<1>6. PICK f : f = [type |-> TypeOf(op), payload |-> p]
               /\ f.type = TypeOf(op) /\ f.payload = p
  <2>1. /\ [type |-> TypeOf(op), payload |-> p].type = TypeOf(op)
        /\ [type |-> TypeOf(op), payload |-> p].payload = p
    OBVIOUS
  <2> QED
    BY <2>1
<1>7. OpenReply(c, f) = Got(EncodeResponse(op, r), 0)
  <2>1. CASE op = "login"
    <3>1. p = EncodeResponse(op, r)
      BY <1>2, <2>1 DEF AnswerOf
    <3>2. f.type = FrameTypes.login
      BY <1>6, <2>1, TypeNumbers
    <3> QED
      BY <1>1, <1>6, <2>1, <3>1, <3>2 DEF OpenReply
  <2>2. CASE op # "login"
    <3>1. p = Cat(WriteString(token), Seal(EncodeResponse(op, r)))
      BY <1>2, <2>2 DEF AnswerOf
    <3>2. Len(token) <= MaxString
      BY <1>1
    <3>3. PICK end : /\ ReadString(p, 0) = Got(token, end)
                     /\ Open(SubSeq(p, end + 1, Len(p))) = EncodeResponse(op, r)
      BY <1>5, <3>1, <3>2, TokenRead
    <3>4. /\ ReadString(p, 0).ok = TRUE /\ ReadString(p, 0).value = token
          /\ ReadString(p, 0).at = end
      BY <3>3 DEF Got
    <3> QED
      BY <1>1, <1>6, <2>2, <3>3, <3>4 DEF OpenReply, Then
  <2> QED
    BY <2>1, <2>2
<1>8. Got(EncodeResponse(op, r), 0).ok = TRUE
      /\ Got(EncodeResponse(op, r), 0).value = EncodeResponse(op, r)
  BY DEF Got
<1> QED
  BY <1>1, <1>4, <1>5, <1>6, <1>7, <1>8 DEF ResultOf

-----------------------------------------------------------------------------
(* Clients and their connections.                                          *)

(* A client's record at a place of its connection: a call that is under    *)
(* way is one it may make, what was heard is that call, and what came back *)
(* is an answer to it.                                                     *)
Fields(k) ==
    k = [token |-> k.token, call |-> k.call, heard |-> k.heard,
         answer |-> k.answer, reply |-> k.reply]

Spoken(c, k) ==
    \/ k.heard = {} /\ k.answer = {} /\ k.reply = << >>
    \/ /\ k.heard = {k.call}
       /\ \E r : /\ k.answer = {r} /\ Shape(k.call.op, TokenOf[c], r)
                 /\ k.reply = ReplyOf(k.call.op, k.token, r)

Talk(c, p, k) ==
    /\ Fields(k)
    /\ k.token \in {<< >>, TokenOf[c]}
    /\ p # "idle" => /\ k.call \in Calls[c]
                     /\ k.call.op = "login" \/ k.token # << >>
    /\ p # "closed" => k.heard = {} /\ k.answer = {} /\ k.reply = << >>
    /\ Spoken(c, k)

TalkInv ==
    /\ client = [c \in Clients |-> client[c]]
    /\ \A c \in Clients : Talk(c, place[c], client[c])

(* Who waits at the socket does so once. *)
QueueInv ==
    /\ backlog \in Seq(Clients) /\ place = [c \in Clients |-> place[c]]
    /\ \A i \in 1..Len(backlog) : place[backlog[i]] = "queued"
    /\ \A i, j \in 1..Len(backlog) : backlog[i] = backlog[j] => i = j

(* Every step keeps the backlog in order. *)
LEMMA QueueStep ==
    ASSUME QueueInv, [Next]_vars
    PROVE  QueueInv'
<1> USE DEF QueueInv
<1>1. CASE UNCHANGED <<backlog, place>>
  BY <1>1
<1>2. CASE Joined
  <2>1. backlog' = << >> /\ place' = [c \in Clients |->
                   IF place[c] = "queued" THEN "closed" ELSE place[c]]
    BY <1>2 DEF Joined, StopSocket
  <2>2. backlog' \in Seq(Clients) /\ Len(backlog') = 0
    BY <2>1, EmptySeq
  <2> QED
    BY <2>1, <2>2
<1>3. CASE Accept
  <2>1. /\ backlog # << >> /\ backlog' = Tail(backlog)
        /\ place' = [place EXCEPT ![Head(backlog)] = "accepted"]
    BY <1>3 DEF Accept
  <2>2. PICK n \in Nat : n = Len(backlog) /\ n >= 1
    BY <2>1, LenProperties, EmptySeq
  <2>3. /\ backlog' \in Seq(Clients) /\ Len(backlog') = n - 1
        /\ \A i \in 1..Len(backlog') : backlog'[i] = backlog[i + 1]
    BY <2>1, <2>2, HeadTailProperties
  <2>4. Head(backlog) = backlog[1]
    BY <2>1
  <2>5. ASSUME NEW i \in 1..Len(backlog')
        PROVE  place'[backlog'[i]] = "queued"
    <3>1. i + 1 \in 1..n /\ i + 1 # 1 /\ 1 \in 1..n
      BY <2>2, <2>3
    <3>2. backlog[i + 1] # backlog[1] /\ place[backlog[i + 1]] = "queued"
          /\ backlog[i + 1] \in Clients
      BY <2>2, <3>1, ElementOfSeq
    <3> QED
      BY <2>1, <2>3, <2>4, <3>2
  <2>6. ASSUME NEW i \in 1..Len(backlog'), NEW j \in 1..Len(backlog'),
               backlog'[i] = backlog'[j]
        PROVE  i = j
    <3>1. i + 1 \in 1..n /\ j + 1 \in 1..n
      BY <2>2, <2>3
    <3>2. i + 1 = j + 1
      BY <2>2, <2>3, <2>6, <3>1
    <3> QED
      BY <3>2
  <2>7. place' = [c \in Clients |-> place'[c]]
    BY <2>1
  <2> QED
    BY <2>3, <2>5, <2>6, <2>7
<1>4. ASSUME NEW c \in Clients, Connect(c) PROVE QueueInv'
  <2>1. /\ backlog' = Append(backlog, c) /\ place[c] = "idle"
        /\ place' = [place EXCEPT ![c] = "queued"]
    BY <1>4 DEF Connect
  <2>2. PICK n \in Nat : n = Len(backlog)
    BY LenProperties
  <2>3. /\ backlog' \in Seq(Clients) /\ Len(backlog') = n + 1
        /\ \A i \in 1..n : backlog'[i] = backlog[i]
        /\ backlog'[n + 1] = c
    BY <2>1, <2>2, AppendProperties
  <2>4. \A i \in 1..n : backlog[i] # c /\ backlog[i] \in Clients
    BY <2>1, <2>2, ElementOfSeq
  <2>5. ASSUME NEW i \in 1..Len(backlog')
        PROVE  place'[backlog'[i]] = "queued"
    <3>1. i \in 1..n \/ i = n + 1
      BY <2>3
    <3> QED
      BY <2>1, <2>2, <2>3, <2>4, <3>1
  <2>6. ASSUME NEW i \in 1..Len(backlog'), NEW j \in 1..Len(backlog'),
               backlog'[i] = backlog'[j]
        PROVE  i = j
    <3>1. (i \in 1..n \/ i = n + 1) /\ (j \in 1..n \/ j = n + 1)
      BY <2>3
    <3> QED
      BY <2>2, <2>3, <2>4, <2>6, <3>1
  <2>7. place' = [d \in Clients |-> place'[d]]
    BY <2>1
  <2> QED
    BY <2>3, <2>5, <2>6, <2>7
<1>5. ASSUME NEW c \in Clients, place[c] # "queued", NEW p,
             backlog' = backlog, place' = [place EXCEPT ![c] = p]
      PROVE  QueueInv'
  <2>1. \A i \in 1..Len(backlog) : backlog[i] # c /\ backlog[i] \in Clients
    BY <1>5, ElementOfSeq
  <2>2. place' = [d \in Clients |-> place'[d]]
    BY <1>5
  <2> QED
    BY <1>5, <2>1, <2>2
<1>6. CASE Serve
  <2>1. PICK c \in Clients : place[c] = "accepted" /\ place' = [place EXCEPT ![c] = "closed"]
    BY <1>6 DEF Serve, Close
  <2>2. backlog' = backlog
    BY <1>6 DEF Serve
  <2> QED
    BY <1>5, <2>1, <2>2
<1>7. ASSUME NEW c \in Clients, Return(c) PROVE QueueInv'
  <2>1. place[c] = "closed" /\ backlog' = backlog /\ place' = [place EXCEPT ![c] = "idle"]
    BY <1>7 DEF Return
  <2> QED
    BY <1>5, <2>1
<1>8. CASE (ServerInit /\ UNCHANGED netVars) \/ Start \/ Stop \/ Loop \/ AcceptFails
           \/ UNCHANGED vars
  BY <1>1, <1>8 DEF netVars, vars, Start, Stop, Loop, AcceptFails
<1> QED
  BY <1>2, <1>3, <1>4, <1>6, <1>7, <1>8 DEF Next

(* What a call that is under way is made of. *)
LEMMA TalkTypes ==
    ASSUME NEW c \in Clients, NEW p, NEW k, Talk(c, p, k)
    PROVE  /\ k.token \in Seq(Nat) /\ Len(k.token) <= MaxString
           /\ TokenOf[c] \in Seq(Nat) /\ Len(TokenOf[c]) <= MaxString
           /\ p # "idle" => k.call \in ClientCalls /\ k.call.op \in CallOps
<1>1. TokenOf[c] \in Seq(Nat) /\ Len(TokenOf[c]) <= MaxString /\ Calls[c] \subseteq ClientCalls
  BY ProcessAssumption
<1>2. << >> \in Seq(Nat) /\ Len(<< >>) <= MaxString
  BY EmptySeq, MaxStringType
<1>3. \A call \in ClientCalls : call.op \in CallOps
  BY ClientCallType DEF CallOps
<1> QED
  BY <1>1, <1>2, <1>3 DEF Talk

(* The bytes that came back say what was answered. *)
LEMMA TalkMeant ==
    ASSUME NEW c \in Clients, Talk(c, place[c], client[c]), place[c] = "closed"
    PROVE  /\ client[c].heard \subseteq {client[c].call}
           /\ \A r \in client[c].answer : Result(c) = ResultMeant(client[c].call.op, r)
<1>1. /\ client[c].token \in Seq(Nat) /\ Len(client[c].token) <= MaxString
      /\ TokenOf[c] \in Seq(Nat) /\ Len(TokenOf[c]) <= MaxString
      /\ client[c].call.op \in CallOps
  BY TalkTypes
<1>2. Spoken(c, client[c])
  BY DEF Talk
<1>3. CASE client[c].heard = {} /\ client[c].answer = {}
  BY <1>3
<1>4. ASSUME client[c].heard = {client[c].call}, NEW r, client[c].answer = {r},
             Shape(client[c].call.op, TokenOf[c], r),
             client[c].reply = ReplyOf(client[c].call.op, client[c].token, r)
      PROVE  Result(c) = ResultMeant(client[c].call.op, r)
  BY <1>1, <1>4, ReplyMeant
<1> QED
  BY <1>2, <1>3, <1>4 DEF Spoken

(* A login that the caller sees succeed brings the client's token. *)
LEMMA LoginToken ==
    ASSUME NEW c \in Clients, Talk(c, place[c], client[c]), place[c] = "closed",
           client[c].call.op = "login", Result(c).ok
    PROVE  Result(c).list[1] = TokenOf[c]
<1>1. Spoken(c, client[c])
  BY DEF Talk
<1>2. CASE client[c].reply = << >>
  <2>1. DecodeFrame(<< >>) = Unread
    BY DEF DecodeFrame, HeaderSize
  <2>2. Result(c) = NoReply("login")
    BY <1>2, <2>1 DEF Result, Then, Unread, ResultOf
  <2>3. ("login" \in {"logout", "pull", "friends"}) = FALSE
    OBVIOUS
  <2>4. Result(c) = Returned(FALSE, << >>)
    BY <2>2, <2>3 DEF NoReply
  <2>5. Result(c).ok = FALSE
    BY <2>4 DEF Returned
  <2> QED
    BY <2>5
<1>3. ASSUME NEW r, client[c].answer = {r}, Shape("login", TokenOf[c], r)
      PROVE  Result(c).list[1] = TokenOf[c]
  <2>1. Result(c) = ResultMeant("login", r)
    BY <1>3, TalkMeant
  <2>2. Result(c) = Returned(r.success, IF r.success THEN <<r.token>> ELSE << >>)
    BY <2>1 DEF ResultMeant
  <2>3. r.success /\ Result(c).list = <<r.token>>
    BY <2>2 DEF Returned
  <2>4. r.token = TokenOf[c]
    <3>1. TokenOf[c] \in Seq(Nat)
      BY TalkTypes
    <3>2. "login" \in CallOps
      BY DEF CallOps
    <3> QED
      BY <1>3, <2>3, <3>1, <3>2, ResponseType
  <2> QED
    BY <2>3, <2>4
<1> QED
  BY <1>1, <1>2, <1>3 DEF Spoken

(* At first nobody calls. *)
LEMMA InitTalk == Init => TalkInv /\ QueueInv
<1> SUFFICES ASSUME Init PROVE TalkInv /\ QueueInv
  OBVIOUS
<1>1. /\ place = [c \in Clients |-> "idle"] /\ backlog = << >>
      /\ client = [c \in Clients |-> Idle(<< >>)]
  BY DEF Init
<1>2. QueueInv
  BY <1>1, EmptySeq DEF QueueInv
<1>3. ASSUME NEW c \in Clients PROVE Talk(c, place[c], client[c])
  <2>1. client[c] = Idle(<< >>) /\ place[c] = "idle"
    BY <1>1
  <2> QED
    BY <2>1 DEF Talk, Idle, Fields, Spoken
<1>4. client = [c \in Clients |-> client[c]]
  BY <1>1
<1> QED
  BY <1>2, <1>3, <1>4 DEF TalkInv

(* A connection goes on without the client. *)
LEMMA TalkOn ==
    ASSUME NEW c, NEW p, NEW k, Talk(c, p, k), p # "idle", NEW q,
           q # "idle", p # "closed"
    PROVE  Talk(c, q, k)
BY DEF Talk

Renewed(k, h, a, b, n) == n = [k EXCEPT !.heard = h, !.answer = a, !.reply = b]

(* What closing a connection leaves in the client's record. *)
LEMMA NewFields ==
    ASSUME NEW k, Fields(k), NEW h, NEW a, NEW b, NEW n, Renewed(k, h, a, b, n)
    PROVE  /\ n.token = k.token /\ n.call = k.call /\ n.heard = h /\ n.answer = a
           /\ n.reply = b /\ Fields(n)
BY DEF Fields, Renewed

(* A request that was answered. *)
LEMMA Served ==
    ASSUME NEW c \in Clients, NEW k, k = client[c], Talk(c, "accepted", k), NEW r,
           NEW data \in Received(Request(c)), Heard(data).ok,
           r \in Answers(c, Heard(data).value),
           NEW n, n = [k EXCEPT !.heard = {Heard(data).value}, !.answer = {r},
                                !.reply = Reply(c, Heard(data).value, r)]
    PROVE  Talk(c, "closed", n)
<1>1. /\ k.token \in Seq(Nat) /\ k.call \in ClientCalls /\ k.call.op \in CallOps
      /\ k.call.op = "login" \/ k.token # << >>
  BY TalkTypes DEF Talk
<1>2. Request(c) = EncodeFrame(TypeOf(k.call.op), PayloadOf(k.call, k.token))
  BY DEF Request, PayloadOf, Cat
<1>3. Heard(data).value = k.call
  BY <1>1, <1>2, RequestHeard
<1>4. Shape(k.call.op, TokenOf[c], r)
  BY <1>1, <1>3, AnswerShape
<1>5. Reply(c, k.call, r) = ReplyOf(k.call.op, k.token, r)
  BY DEF Reply, ReplyOf, AnswerOf, Cat
<1>6. n = [k EXCEPT !.heard = {k.call}, !.answer = {r},
                    !.reply = ReplyOf(k.call.op, k.token, r)]
  BY <1>3, <1>5
<1>7. Fields(k)
  BY DEF Talk
<1>8. /\ n.token = k.token /\ n.call = k.call /\ n.heard = {k.call} /\ n.answer = {r}
      /\ n.reply = ReplyOf(k.call.op, k.token, r)
      /\ Fields(n)
  BY <1>6, <1>7 DEF Fields
<1> QED
  BY <1>4, <1>8 DEF Talk, Spoken

(* Every step keeps the clients' records. *)
LEMMA TalkStep ==
    ASSUME TalkInv, QueueInv, [Next]_vars
    PROVE  TalkInv'
<1> USE DEF TalkInv
<1>1. CASE UNCHANGED <<place, client>>
  BY <1>1
<1>2. CASE Joined
  <2>1. /\ client' = client
        /\ place' = [c \in Clients |->
                       IF place[c] = "queued" THEN "closed" ELSE place[c]]
    BY <1>2 DEF Joined, StopSocket
  <2>2. ASSUME NEW c \in Clients PROVE Talk(c, place'[c], client[c])
    <3>1. Talk(c, place[c], client[c])
      OBVIOUS
    <3>2. CASE place[c] = "queued"
      <4>1. place'[c] = "closed"
        BY <2>1, <3>2
      <4> QED
        BY <3>1, <3>2, <4>1, TalkOn
    <3>3. CASE place[c] # "queued"
      BY <2>1, <3>1, <3>3
    <3> QED
      BY <3>2, <3>3
  <2> QED
    BY <2>1, <2>2
<1>3. CASE Accept
  <2>1. /\ backlog # << >> /\ client' = client
        /\ place' = [place EXCEPT ![Head(backlog)] = "accepted"]
    BY <1>3 DEF Accept
  <2>2. PICK h \in Clients : h = Head(backlog) /\ place[h] = "queued"
    <3>1. 1 \in 1..Len(backlog) /\ Head(backlog) = backlog[1] /\ Head(backlog) \in Clients
      BY <2>1, LenProperties, EmptySeq, HeadTailProperties DEF QueueInv
    <3> QED
      BY <3>1 DEF QueueInv
  <2>3. ASSUME NEW c \in Clients PROVE Talk(c, place'[c], client[c])
    <3>1. Talk(c, place[c], client[c])
      OBVIOUS
    <3>2. CASE c = h
      <4>1. place'[c] = "accepted"
        BY <2>1, <2>2, <3>2 DEF QueueInv
      <4> QED
        BY <2>2, <3>1, <3>2, <4>1, TalkOn
    <3>3. CASE c # h
      <4>1. place'[c] = place[c]
        BY <2>1, <2>2, <3>3 DEF QueueInv
      <4> QED
        BY <3>1, <4>1
    <3> QED
      BY <3>2, <3>3
  <2> QED
    BY <2>1, <2>3
<1>4. ASSUME NEW c \in Clients, NEW p, NEW k, Talk(c, p, k),
             place' = [place EXCEPT ![c] = p], client' = [client EXCEPT ![c] = k]
      PROVE  TalkInv'
  <2>1. client' = [d \in Clients |-> client'[d]]
    BY <1>4
  <2>2. ASSUME NEW d \in Clients PROVE Talk(d, place'[d], client'[d])
    <3>1. Talk(d, place[d], client[d])
      OBVIOUS
    <3>2. CASE d = c
      <4>1. place'[d] = p /\ client'[d] = k
        BY <1>4, <3>2 DEF QueueInv
      <4> QED
        BY <1>4, <3>2, <4>1
    <3>3. CASE d # c
      <4>1. place'[d] = place[d] /\ client'[d] = client[d]
        BY <1>4, <3>3 DEF QueueInv
      <4> QED
        BY <3>1, <4>1
    <3> QED
      BY <3>2, <3>3
  <2> QED
    BY <2>1, <2>2
<1>5. CASE Serve
  <2> DEFINE Answered(c, data) ==
                \/ Close(c, {}, {}, << >>)
                \/ /\ Heard(data).ok
                   /\ \E r \in Answers(c, Heard(data).value) :
                         Close(c, {Heard(data).value}, {r}, Reply(c, Heard(data).value, r))
  <2>0. PICK c \in Clients :
           place[c] = "accepted" /\ \E data \in Received(Request(c)) : Answered(c, data)
    BY <1>5, Zenon DEF Serve
  <2>1. PICK data \in Received(Request(c)) : Answered(c, data)
    BY <2>0
  <2>2. Talk(c, "accepted", client[c])
    BY <2>0
  <2>3. CASE Close(c, {}, {}, << >>)
    <3> DEFINE n == [client[c] EXCEPT !.heard = {}, !.answer = {}, !.reply = << >>]
    <3>1. Talk(c, "closed", n)
      <4>1. PICK k : k = client[c] /\ Fields(k) /\ Talk(c, "accepted", k)
        BY <2>2 DEF Talk
      <4>2. PICK m : /\ m = [k EXCEPT !.heard = {}, !.answer = {}, !.reply = << >>]
                     /\ Renewed(k, {}, {}, << >>, m)
        BY DEF Renewed
      <4>3. /\ m.token = k.token /\ m.call = k.call /\ m.heard = {}
            /\ m.answer = {} /\ m.reply = << >> /\ Fields(m)
        BY <4>1, <4>2, NewFields
      <4>4. Talk(c, "closed", m)
        BY <4>1, <4>3 DEF Talk, Spoken
      <4> QED
        BY <4>1, <4>2, <4>4
    <3>2. place' = [place EXCEPT ![c] = "closed"] /\ client' = [client EXCEPT ![c] = n]
      BY <2>3 DEF Close
    <3> HIDE DEF n
    <3> QED
      BY <1>4, <3>1, <3>2
  <2>4. ASSUME Heard(data).ok, NEW r \in Answers(c, Heard(data).value),
               Close(c, {Heard(data).value}, {r}, Reply(c, Heard(data).value, r))
        PROVE  TalkInv'
    <3> DEFINE n == [client[c] EXCEPT !.heard = {Heard(data).value}, !.answer = {r},
                                      !.reply = Reply(c, Heard(data).value, r)]
    <3>1. Talk(c, "closed", n)
      BY <2>2, <2>4, Served
    <3>2. place' = [place EXCEPT ![c] = "closed"] /\ client' = [client EXCEPT ![c] = n]
      BY <2>4 DEF Close
    <3> HIDE DEF n
    <3> QED
      BY <1>4, <3>1, <3>2
  <2> QED
    BY <2>1, <2>3, <2>4
<1>6. ASSUME NEW c \in Clients, Connect(c) PROVE TalkInv'
  <2>1. PICK call \in Calls[c] :
           /\ call.op = "login" \/ client[c].token # << >>
           /\ client' = [client EXCEPT ![c].call = call]
           /\ place' = [place EXCEPT ![c] = "queued"]
           /\ place[c] = "idle"
    BY <1>6 DEF Connect
  <2> DEFINE n == [client[c] EXCEPT !.call = call]
  <2>2. Talk(c, "idle", client[c])
    BY <2>1
  <2>3. Fields(client[c]) /\ client[c].heard = {} /\ client[c].answer = {}
        /\ client[c].reply = << >> /\ client[c].token \in {<< >>, TokenOf[c]}
    BY <2>2 DEF Talk
  <2>4. /\ n.token = client[c].token /\ n.call = call /\ n.heard = {}
        /\ n.answer = {} /\ n.reply = << >> /\ Fields(n)
    BY <2>3 DEF Fields
  <2>5. client' = [client EXCEPT ![c] = n]
    BY <2>1
  <2> HIDE DEF n
  <2>6. Talk(c, "queued", n)
    BY <2>1, <2>3, <2>4 DEF Talk, Spoken
  <2> QED
    BY <1>4, <2>1, <2>5, <2>6
<1>7. ASSUME NEW c \in Clients, Return(c) PROVE TalkInv'
  <2>1. place[c] = "closed" /\ place' = [place EXCEPT ![c] = "idle"]
    BY <1>7 DEF Return
  <2>2. PICK whole \in BOOLEAN :
           client' = [client EXCEPT ![c] =
              Idle(IF client[c].call.op = "logout" THEN << >>
                   ELSE IF /\ client[c].call.op = "login"
                           /\ (IF whole THEN Result(c) ELSE NoReply(client[c].call.op)).ok
                        THEN (IF whole THEN Result(c)
                              ELSE NoReply(client[c].call.op)).list[1]
                        ELSE client[c].token)]
    BY <1>7 DEF Return
  <2>3. PICK token : client' = [client EXCEPT ![c] = Idle(token)]
                     /\ token \in {<< >>, TokenOf[c]}
    <3>1. Talk(c, "closed", client[c])
      BY <2>1
    <3>2. client[c].token \in {<< >>, TokenOf[c]}
      BY <3>1 DEF Talk
    <3>3. ("login" \in {"logout", "pull", "friends"}) = FALSE
      OBVIOUS
    <3>4. ~NoReply("login").ok
      BY <3>3 DEF NoReply, Returned
    <3>5. client[c].call.op = "login" /\ Result(c).ok => Result(c).list[1] = TokenOf[c]
      BY <2>1, <3>1, LoginToken
    <3> QED
      BY <2>2, <3>2, <3>4, <3>5
  <2>4. Talk(c, "idle", Idle(token))
    BY <2>3 DEF Talk, Idle, Fields, Spoken
  <2> QED
    BY <1>4, <2>1, <2>3, <2>4
<1>8. CASE (ServerInit /\ UNCHANGED netVars) \/ Start \/ Stop \/ Loop \/ AcceptFails
           \/ UNCHANGED vars
  BY <1>1, <1>8 DEF netVars, vars, Start, Stop, Loop, AcceptFails
<1> QED
  BY <1>2, <1>3, <1>5, <1>6, <1>7, <1>8 DEF Next

(* The byte formats of TcpRoundTrip, FrameRouter and ClientCore: whatever   *)
(* part of a request one recv returns, the server does the call that was   *)
(* made or none, and the caller gets the result that was answered.         *)
THEOREM CallsMeanWhatTheySay == Spec => []CallsUnderstood
<1>1. Init => TalkInv /\ QueueInv
  BY InitTalk
<1>2. TalkInv /\ QueueInv /\ [Next]_vars => TalkInv' /\ QueueInv'
  BY TalkStep, QueueStep
<1>3. TalkInv => CallsUnderstood
  BY TalkMeant DEF TalkInv, CallsUnderstood
<1> QED
  BY <1>1, <1>2, <1>3, PTL DEF Spec

-----------------------------------------------------------------------------
(* Passwords.                                                              *)

(* Xor with the same bit takes back what it did. *)
LEMMA XorTwice ==
    \A a, k \in Bit : Xor(a, k) \in Bit /\ Xor(Xor(a, k), k) = a
BY DEF Xor, Bit

LEMMA KeyByteType ==
    ASSUME NEW key \in Keys, NEW i \in Nat, i >= 1
    PROVE  KeyByte(key, i) \in Bit
<1>1. (i - 1) % 4 \in 0..3
  OBVIOUS
<1> QED
  BY <1>1 DEF Keys, KeyByte

(* A text that is not turned around is read as what it was. *)
LEMMA ScrambledRead ==
    ASSUME NEW text \in Seq(Bit), NEW s \in Scrambled(text)
    PROVE  /\ Decrypt(s) \in Seq(Bit)
           /\ s.perm # 1 => Decrypt(s) = text
<1>1. PICK key \in Keys, perm \in Bit : s = Encrypt(text, key, perm)
  <2>1. PICK key \in Keys, perm \in IF Len(text) > 1 THEN Bit ELSE {0} :
           s = Encrypt(text, key, perm)
    BY DEF Scrambled
  <2>2. perm \in Bit
    BY DEF Bit
  <2> QED
    BY <2>1, <2>2
<1>2. PICK n \in Nat : n = Len(text) /\ DOMAIN text = 1..n /\ text \in [1..n -> Bit]
  BY LenProperties
<1> DEFINE From(i) == Place(i, n, perm)
<1>3. \A i \in 1..n : From(i) \in 1..n
  BY <1>2 DEF Place
<1>4. PICK buffer \in [1..n -> Bit] :
         /\ s.buffer = buffer /\ s.key = key /\ s.perm = perm
         /\ \A i \in 1..n : buffer[i] = Xor(text[From(i)], KeyByte(key, From(i)))
  <2> DEFINE b == [i \in 1..n |-> Xor(text[From(i)], KeyByte(key, From(i)))]
  <2>1. s = [buffer |-> b, key |-> key, perm |-> perm]
    BY <1>1, <1>2 DEF Encrypt
  <2>2. ASSUME NEW i \in 1..n PROVE b[i] \in Bit
    <3>1. From(i) \in 1..n /\ text[From(i)] \in Bit
      BY <1>2, <1>3
    <3>2. KeyByte(key, From(i)) \in Bit
      BY <3>1, KeyByteType
    <3> HIDE DEF From
    <3> QED
      BY <3>1, <3>2, XorTwice
  <2>3. b \in [1..n -> Bit]
    BY <2>2
  <2> HIDE DEF From
  <2> QED
    BY <2>1, <2>3
<1>5. s.buffer \in Seq(Bit) /\ Len(s.buffer) = n /\ DOMAIN s.buffer = 1..n
  <2>1. buffer \in Seq(Bit)
    BY SeqDef
  <2> QED
    BY <1>4, <2>1, LenProperties
<1>6. Decrypt(s) = [i \in 1..n |-> Xor(buffer[From(i)], KeyByte(key, From(i)))]
  BY <1>4, <1>5 DEF Decrypt
<1>7. Decrypt(s) \in Seq(Bit)
  <2>1. ASSUME NEW i \in 1..n
        PROVE  Xor(buffer[From(i)], KeyByte(key, From(i))) \in Bit
    <3>1. From(i) \in 1..n /\ buffer[From(i)] \in Bit
      BY <1>3
    <3>2. KeyByte(key, From(i)) \in Bit
      BY <3>1, KeyByteType
    <3> HIDE DEF From
    <3> QED
      BY <3>1, <3>2, XorTwice
  <2>2. Decrypt(s) \in [1..n -> Bit]
    BY <1>6, <2>1
  <2> QED
    BY <2>2, SeqDef
<1>8. ASSUME s.perm # 1 PROVE Decrypt(s) = text
  <2>1. perm = 0
    BY <1>4, <1>8 DEF Bit
  <2>2. \A i \in 1..n : From(i) = i
    BY <2>1 DEF Place
  <2>3. ASSUME NEW i \in 1..n
        PROVE  Xor(buffer[From(i)], KeyByte(key, From(i))) = text[i]
    <3>1. buffer[i] = Xor(text[i], KeyByte(key, i)) /\ text[i] \in Bit
      BY <1>2, <1>4, <2>2
    <3>2. KeyByte(key, i) \in Bit
      BY KeyByteType
    <3>3. Xor(buffer[i], KeyByte(key, i)) = text[i]
      BY <3>1, <3>2, XorTwice
    <3> QED
      BY <2>2, <3>3
  <2> HIDE DEF From
  <2>4. Decrypt(s) = [i \in 1..n |-> text[i]]
    BY <1>6, <2>3
  <2> QED
    BY <1>2, <2>4
<1> QED
  BY <1>7, <1>8

(* Setting or reading a scrambled text keeps it unless it is turned around. *)
LEMMA ScrambleKeeps ==
    ASSUME NEW text \in Seq(Bit), NEW before \in BOOLEAN, Scramble(text, before)
    PROVE  /\ secret' \in Seq(Bit) /\ turned' \in BOOLEAN
           /\ before => turned'
           /\ ~turned' => secret' = text
<1>1. PICK s \in Scrambled(text) :
         secret' = Decrypt(s) /\ turned' = (before \/ s.perm = 1)
  BY DEF Scramble
<1> QED
  BY <1>1, ScrambledRead
-----------------------------------------------------------------------------
(* The first place of a colon, if there is one. *)
FirstColon(text) == SelectInSeq(text, LAMBDA b : b = Colon)

LEMMA FirstColonIs ==
    ASSUME NEW text \in Seq(Nat)
    PROVE  \/ /\ FirstColon(text) \in 1..Len(text)
              /\ text[FirstColon(text)] = Colon
              /\ \A i \in 1..(FirstColon(text) - 1) : text[i] # Colon
           \/ FirstColon(text) = 0 /\ \A i \in 1..Len(text) : text[i] # Colon
<1> DEFINE I == {i \in 1..Len(text) : text[i] = Colon}
<1>1. FirstColon(text) = IF I # {} THEN Min(I) ELSE 0
  BY DEF FirstColon, SelectInSeq
<1>2. CASE I = {}
  BY <1>1, <1>2
<1>3. CASE I # {}
  <2>1. PICK m \in I : \A i \in I : m <= i
    <3> DEFINE T == {k \in Nat : \A i \in I : k <= i}
    <3>1. PICK i \in I : TRUE
      BY <1>3
    <3>2. 0 \in T /\ i + 1 \notin T
      BY <3>1
    <3>3. PICK k \in Nat : k \in T /\ k + 1 \notin T
      <4> HIDE DEF T, I
      <4> SUFFICES ASSUME \A k \in Nat : k \in T => k + 1 \in T PROVE FALSE
        OBVIOUS
      <4>1. Nat \subseteq T
        BY <3>2, NatSetInduction
      <4>2. i + 1 \in Nat
        BY <3>1 DEF I
      <4> QED
        BY <3>2, <4>1, <4>2
    <3>4. k \in I
      BY <3>3
    <3> QED
      BY <3>3, <3>4
  <2>2. Min(I) = m
    <3>1. Min(I) \in I /\ \A i \in I : Min(I) <= i
      BY <2>1 DEF Min
    <3> QED
      BY <2>1, <3>1
  <2>3. FirstColon(text) = m
    BY <1>1, <1>3, <2>2
  <2>4. m \in 1..Len(text) /\ text[m] = Colon
    OBVIOUS
  <2>5. ASSUME NEW i \in 1..(m - 1) PROVE text[i] # Colon
    <3>1. i \in 1..Len(text) /\ ~(m <= i)
      BY <2>4
    <3> QED
      BY <2>1, <3>1
  <2> QED
    BY <2>3, <2>4, <2>5
<1> QED
  BY <1>2, <1>3

(* The database's check takes the stored text, its hash, and a salt with a *)
(* colon and a hash, and nothing else.                                     *)
LEMMA VerifiedAsWritten ==
    ASSUME NEW stored \in Seq(Nat), NEW input \in Seq(Nat),
           Colon \notin Range(Sha256Hex(input)), Mode = "mysql"
    PROVE  VerifyPassword(input, stored) <=> WrittenAs(Mode, input, stored)
<1> DEFINE f == FirstColon(stored)
           Salted(n) ==
              Sha256Hex(SubSeq(stored, 1, n - 1) \o input)
                = SubSeq(stored, n + 1, Len(stored))
           FirstAt(n) == stored[n] = Colon /\ \A i \in 1..(n - 1) : stored[i] # Colon
<1>1. VerifyPassword(input, stored) <=>
         \/ stored = input
         \/ f # 0 /\ Salted(f)
         \/ f = 0 /\ stored = Sha256Hex(input)
  BY DEF VerifyPassword, FirstColon
<1>2. WrittenAs(Mode, input, stored) <=>
         \/ stored = input
         \/ stored = Sha256Hex(input)
         \/ \E n \in 1..Len(stored) : FirstAt(n) /\ Salted(n)
  BY DEF WrittenAs
<1>3. \/ f \in 1..Len(stored) /\ FirstAt(f)
      \/ f = 0 /\ \A i \in 1..Len(stored) : stored[i] # Colon
  BY FirstColonIs
<1> HIDE DEF f, Salted
<1>4. \A n \in 1..Len(stored) : FirstAt(n) => f = n
  BY <1>3
<1>5. stored = Sha256Hex(input) => f = 0
  <2> SUFFICES ASSUME stored = Sha256Hex(input), f \in 1..Len(stored), FirstAt(f)
               PROVE  FALSE
    BY <1>3
  <2>1. f \in DOMAIN stored
    OBVIOUS
  <2> QED
    BY <2>1 DEF Range
<1>6. f # 0 => f \in 1..Len(stored) /\ FirstAt(f)
  BY <1>3
<1> HIDE DEF FirstAt
<1>7. 0 \notin 1..Len(stored)
  OBVIOUS
<1> QED
  BY <1>1, <1>2, <1>4, <1>5, <1>6, <1>7

(* A password in the text file is compared as it is. *)
ProviderAccepts(input, stored) ==
    IF Mode = "demo" THEN stored = input ELSE VerifyPassword(input, stored)

LEMMA AcceptedAsWritten ==
    ASSUME NEW stored \in Seq(Nat), NEW input \in Seq(Nat),
           Colon \notin Range(Sha256Hex(input))
    PROVE  ProviderAccepts(input, stored) <=> WrittenAs(Mode, input, stored)
<1>1. CASE Mode = "demo"
  <2>1. Mode # "mysql"
    BY <1>1
  <2> QED
    BY <1>1, <2>1 DEF ProviderAccepts, WrittenAs
<1>2. CASE Mode # "demo"
  <2>1. Mode = "mysql"
    BY <1>2 DEF Mode
  <2> QED
    BY <1>2, <2>1, VerifiedAsWritten DEF ProviderAccepts
<1> QED
  BY <1>1, <1>2

(* The first line with a name. *)
NamesUpTo(list, i) == {list[j].name : j \in 1..i}
FirstWith(list, name) ==
    CHOOSE k \in 1..Len(list) : /\ list[k].name = name
                                /\ \A j \in 1..Len(list) : list[j].name = name => k <= j

(* A name that occurs has a first line. *)
LEMMA FirstWithIs ==
    ASSUME NEW list, Len(list) \in Nat, NEW i \in 1..Len(list), NEW name,
           list[i].name = name
    PROVE  /\ FirstWith(list, name) \in 1..Len(list)
           /\ list[FirstWith(list, name)].name = name
           /\ \A j \in 1..Len(list) : list[j].name = name => FirstWith(list, name) <= j
<1> DEFINE T == {k \in Nat : \A j \in 1..Len(list) : j <= k => list[j].name # name}
<1>1. 0 \in T
  OBVIOUS
<1>2. i \notin T
  OBVIOUS
<1>3. PICK k \in Nat : k \in T /\ k + 1 \notin T
  <2> HIDE DEF T
  <2> SUFFICES ASSUME \A k \in Nat : k \in T => k + 1 \in T PROVE FALSE
    OBVIOUS
  <2>1. Nat \subseteq T
    BY <1>1, NatSetInduction
  <2> QED
    BY <1>2, <2>1
<1>4. /\ k + 1 \in 1..Len(list) /\ list[k + 1].name = name
      /\ \A j \in 1..Len(list) : list[j].name = name => k + 1 <= j
  BY <1>3
<1> QED
  BY <1>4 DEF FirstWith

(* A table that has the first line of each name among some lines. *)
TableIs(table, list, i) ==
    /\ DOMAIN table = NamesUpTo(list, i)
    /\ \A name \in NamesUpTo(list, i) : table[name] = list[FirstWith(list, name)].stored

(* One more line. *)
LEMMA EmplaceNext ==
    ASSUME NEW list, Len(list) \in Nat, NEW i \in 1..Len(list), NEW table,
           TableIs(table, list, i - 1)
    PROVE  TableIs(Emplace(table, list[i]), list, i)
<1>1. NamesUpTo(list, i) = NamesUpTo(list, i - 1) \cup {list[i].name}
  <2>1. 1..i = 1..(i - 1) \cup {i}
    OBVIOUS
  <2> QED
    BY <2>1 DEF NamesUpTo
<1>2. Emplace(table, list[i])
         = [name \in NamesUpTo(list, i) |->
              IF name \in NamesUpTo(list, i - 1) THEN table[name] ELSE list[i].stored]
  BY <1>1 DEF Emplace, TableIs
<1>3. ASSUME NEW name \in NamesUpTo(list, i)
      PROVE  Emplace(table, list[i])[name] = list[FirstWith(list, name)].stored
  <2>1. CASE name \in NamesUpTo(list, i - 1)
    BY <1>2, <2>1 DEF TableIs
  <2>2. CASE name \notin NamesUpTo(list, i - 1)
    <3>1. list[i].name = name
      BY <1>1, <2>2
    <3>2. \A j \in 1..(i - 1) : list[j].name # name
      BY <2>2 DEF NamesUpTo
    <3>3. FirstWith(list, name) = i
      <4>1. /\ FirstWith(list, name) \in 1..Len(list)
            /\ list[FirstWith(list, name)].name = name
            /\ FirstWith(list, name) <= i
        BY <3>1, FirstWithIs
      <4> QED
        BY <3>2, <4>1
    <3>4. Emplace(table, list[i])[name] = list[i].stored
      BY <1>2, <2>2
    <3> QED
      BY <3>3, <3>4
  <2> QED
    BY <2>1, <2>2
<1>4. DOMAIN Emplace(table, list[i]) = NamesUpTo(list, i)
  BY <1>2
<1> QED
  BY <1>3, <1>4 DEF TableIs

TablesOf(g, list) ==
    g = [i \in 0..Len(list) |-> IF i = 0 THEN << >> ELSE Emplace(g[i - 1], list[i])]

(* There are such tables. *)
LEMMA TablesOfExists ==
    ASSUME NEW list, Len(list) \in Nat
    PROVE  \E g : TablesOf(g, list)
<1> DEFINE Table(i) == IF i = 0 THEN << >>
                       ELSE [name \in NamesUpTo(list, i) |->
                               list[FirstWith(list, name)].stored]
           G == [i \in 0..Len(list) |-> Table(i)]
<1>1. ASSUME NEW i \in 0..Len(list) PROVE TableIs(Table(i), list, i)
  <2>1. CASE i = 0
    <3>1. DOMAIN << >> = {} /\ NamesUpTo(list, 0) = {}
      BY DEF NamesUpTo
    <3> QED
      BY <2>1, <3>1 DEF TableIs
  <2>2. CASE i # 0
    BY <2>2 DEF TableIs
  <2> QED
    BY <2>1, <2>2
<1>2. ASSUME NEW i \in 1..Len(list) PROVE Table(i) = Emplace(Table(i - 1), list[i])
  <2>1. i - 1 \in 0..Len(list) /\ i # 0
    OBVIOUS
  <2>2. TableIs(Table(i - 1), list, i - 1)
    BY <1>1, <2>1
  <2> DEFINE e == Emplace(Table(i - 1), list[i])
  <2>3. TableIs(e, list, i)
    <3> HIDE DEF Table
    <3> QED
      BY <2>2, EmplaceNext
  <2>4. e = [name \in DOMAIN e |-> e[name]]
    <3> HIDE DEF Table
    <3> QED
      BY DEF Emplace
  <2>5. e = [name \in NamesUpTo(list, i) |-> list[FirstWith(list, name)].stored]
    <3> HIDE DEF e
    <3> QED
      BY <2>3, <2>4 DEF TableIs
  <2> QED
    BY <2>1, <2>5
<1>3. TablesOf(G, list)
  <2> DEFINE Rule(i) == IF i = 0 THEN << >> ELSE Emplace(G[i - 1], list[i])
  <2>1. ASSUME NEW i \in 0..Len(list) PROVE G[i] = Rule(i)
    <3>1. CASE i = 0
      BY <3>1
    <3>2. CASE i # 0
      <4>1. i \in 1..Len(list) /\ i - 1 \in 0..Len(list)
        BY <3>2
      <4>2. G[i] = Table(i) /\ G[i - 1] = Table(i - 1)
        BY <4>1
      <4> HIDE DEF Table, G
      <4> QED
        BY <1>2, <3>2, <4>1, <4>2
    <3> QED
      BY <3>1, <3>2
  <2>2. G = [i \in 0..Len(list) |-> G[i]]
    OBVIOUS
  <2> HIDE DEF G
  <2> QED
    BY <2>1, <2>2 DEF TablesOf
<1> QED
  BY <1>3

(* The table of a list has the first line of each of its names. *)
LEMMA TableOfFirst ==
    ASSUME NEW list, Len(list) \in Nat
    PROVE  TableIs(TableOf(list), list, Len(list))
<1> DEFINE g == CHOOSE h : TablesOf(h, list)
           n == Len(list)
<1>1. TableOf(list) = g[n]
  BY DEF TableOf, TablesOf
<1>2. TablesOf(g, list)
  BY TablesOfExists
<1> HIDE DEF g
<1>3. g[0] = << >> /\ \A i \in 1..n : g[i] = Emplace(g[i - 1], list[i])
  <2>1. 0 \in 0..n /\ \A i \in 1..n : i \in 0..n /\ i # 0
    OBVIOUS
  <2> QED
    BY <1>2, <2>1 DEF TablesOf
<1> DEFINE T == {i \in Nat : i <= n => TableIs(g[i], list, i)}
<1>4. 0 \in T
  <2>1. DOMAIN << >> = {} /\ NamesUpTo(list, 0) = {}
    BY DEF NamesUpTo
  <2> QED
    BY <1>3, <2>1 DEF TableIs
<1>5. ASSUME NEW i \in Nat, i \in T PROVE i + 1 \in T
  <2> SUFFICES ASSUME i + 1 <= n PROVE TableIs(g[i + 1], list, i + 1)
    OBVIOUS
  <2>1. PICK j \in 1..n : j = i + 1 /\ j - 1 = i
    OBVIOUS
  <2>2. TableIs(g[j - 1], list, j - 1)
    BY <1>5, <2>1
  <2>3. TableIs(Emplace(g[j - 1], list[j]), list, j)
    BY <2>2, EmplaceNext
  <2> QED
    BY <1>3, <2>1, <2>3
<1>6. Nat \subseteq T
  <2> HIDE DEF T
  <2> QED
    BY <1>4, <1>5, NatSetInduction
<1> QED
  BY <1>1, <1>6

-----------------------------------------------------------------------------
(* Verdicts.                                                               *)

Lines(list, name) == {i \in 1..Len(list) : list[i].name = name}
Right(mode, list, call) ==
    /\ call.text # << >>
    /\ \E i \in Lines(list, call.name) :
          /\ WrittenAs(mode, call.text, list[i].stored)
          /\ \A j \in Lines(list, call.name) : i <= j

JustTo(mode, list, trn, call, r) ==
    /\ call.op = "login" =>
          /\ r.success => Right(mode, list, call)
          /\ r.error = ErrorText.refused => ~Right(mode, list, call)
          /\ r.error = ErrorText.denied => trn
    /\ call.op = "add" /\ r.success => Lines(list, call.name) # {}

(* The configuration, the table and the secret a server came up with. *)
StartInv ==
    /\ stage \in {"config", "auth", "dirs", "ready", "failed"}
    /\ stage \in {"dirs", "ready"} =>
          registered \in Seq(UserLines) /\ users = TableOf(registered)
    /\ config = [k \in ConfigKeys |-> config[k]]
    /\ secret \in Seq(Bit) /\ turned \in BOOLEAN
    /\ stage \in {"config", "auth"} =>
          (config["mysql_password"] # 0 /\ ~turned => secret = DbPassword)
    /\ stage = "auth" /\ Mode = "mysql" => config["mysql_password"] # 0
    /\ stage \in {"dirs", "ready"} =>
          (Mode = "mysql" /\ ~turned => secret = DbPassword)

(* Who asks the provider for a name finds the name's first line. *)
LEMMA Looked ==
    ASSUME registered \in Seq(UserLines), users = TableOf(registered),
           NEW call, call.text \in Seq(Nat), Colon \notin Range(Sha256Hex(call.text))
    PROVE  /\ call.name \in DOMAIN users <=> Lines(registered, call.name) # {}
           /\ Right(Mode, registered, call) <=>
                 /\ call.name \in DOMAIN users
                 /\ ProviderAccepts(call.text, users[call.name])
                 /\ << >> \notin {call.name, call.text}
<1>1. PICK n \in Nat : n = Len(registered)
  BY LenProperties
<1>2. /\ DOMAIN users = NamesUpTo(registered, n)
      /\ \A name \in NamesUpTo(registered, n) :
            users[name] = registered[FirstWith(registered, name)].stored
  <2>1. TableIs(TableOf(registered), registered, n)
    BY <1>1, TableOfFirst
  <2> QED
    BY <2>1 DEF TableIs
<1>3. call.name \in DOMAIN users <=> Lines(registered, call.name) # {}
  BY <1>1, <1>2 DEF NamesUpTo, Lines
<1>4. CASE Lines(registered, call.name) = {}
  BY <1>3, <1>4 DEF Right
<1>5. CASE Lines(registered, call.name) # {}
  <2>1. PICK f \in 1..n : /\ f = FirstWith(registered, call.name)
                          /\ registered[f].name = call.name
                          /\ \A j \in Lines(registered, call.name) : f <= j
    <3>1. PICK i \in 1..n : registered[i].name = call.name
      BY <1>1, <1>5 DEF Lines
    <3>2. /\ FirstWith(registered, call.name) \in 1..Len(registered)
          /\ registered[FirstWith(registered, call.name)].name = call.name
          /\ \A j \in 1..Len(registered) :
                registered[j].name = call.name => FirstWith(registered, call.name) <= j
      BY <1>1, <3>1, FirstWithIs
    <3> QED
      BY <1>1, <3>2 DEF Lines
  <2>2. registered[f] \in UserLines
    BY <1>1, ElementOfSeq
  <2>3. users[call.name] = registered[f].stored /\ registered[f].stored \in Seq(Nat)
    BY <1>2, <1>3, <1>5, <2>1, <2>2 DEF UserLines
  <2>4. ProviderAccepts(call.text, users[call.name])
           <=> WrittenAs(Mode, call.text, registered[f].stored)
    BY <2>3, AcceptedAsWritten
  <2>5. registered[f].name # << >>
    BY <2>2 DEF UserLines, Text
  <2>6. f \in Lines(registered, call.name)
    BY <1>1, <2>1 DEF Lines
  <2>7. \A i \in Lines(registered, call.name) :
           (\A j \in Lines(registered, call.name) : i <= j) => i = f
    <3>1. ASSUME NEW i \in Lines(registered, call.name),
                 \A j \in Lines(registered, call.name) : i <= j
          PROVE  i = f
      <4>1. i \in 1..n /\ i <= f /\ f <= i
        BY <1>1, <2>1, <2>6, <3>1 DEF Lines
      <4> QED
        BY <4>1
    <3> QED
      BY <3>1
  <2>8. Right(Mode, registered, call)
           <=> call.text # << >> /\ WrittenAs(Mode, call.text, registered[f].stored)
    BY <2>1, <2>6, <2>7 DEF Right
  <2> QED
    BY <1>3, <1>5, <2>1, <2>4, <2>5, <2>8
<1> QED
  BY <1>3, <1>4, <1>5

(* What a question to the provider comes to, and when. *)
LEMMA OutcomeIs ==
    ASSUME NEW yes \in BOOLEAN, NEW v \in Outcomes(yes)
    PROVE  /\ v = "denied" => Mode = "mysql" /\ secret # DbPassword
           /\ v = "accepted" => yes
           /\ v = "refused" => ~yes
           /\ v \in {"denied", "failed", "accepted", "refused"}
<1>1. CASE Mode = "mysql" /\ secret # DbPassword
  BY <1>1 DEF Outcomes
<1>2. CASE ~(Mode = "mysql" /\ secret # DbPassword)
  <2>1. v = "failed" \/ v = (IF yes THEN "accepted" ELSE "refused")
    BY <1>2 DEF Outcomes
  <2> QED
    BY <2>1
<1> QED
  BY <1>1, <1>2

(* An answer of ApiService is a just one. *)
LEMMA Judged ==
    ASSUME registered \in Seq(UserLines), users = TableOf(registered),
           Mode = "mysql" /\ ~turned => secret = DbPassword,
           NEW c \in Clients, NEW call, call.text \in Seq(Nat),
           Colon \notin Range(Sha256Hex(call.text)), NEW r \in Answers(c, call)
    PROVE  JustTo(Mode, registered, turned, call, r)
<1>1. /\ ErrorText.refused = <<1>> /\ ErrorText.denied = <<2>>
      /\ ErrorText["accepted"] = << >> /\ ErrorText["refused"] = <<1>>
      /\ ErrorText["denied"] = <<2>> /\ ErrorText["failed"] = <<3>>
      /\ << >> # <<1>> /\ << >> # <<2>> /\ <<1>> # <<2>> /\ <<3>> # <<1>> /\ <<3>> # <<2>>
  BY DEF ErrorText
<1>2. CASE call.op = "login"
  <2>1. PICK v \in Verdicts(call.name, call.text) :
           r = Response(v = "accepted", ErrorText[v],
                        IF v = "accepted" THEN TokenOf[c] ELSE << >>, << >>, << >>)
    BY <1>2 DEF Answers
  <2>2. r.success = (v = "accepted") /\ r.error = ErrorText[v]
    BY <2>1 DEF Response
  <2>3. /\ v = "denied" => turned
        /\ v = "accepted" => Right(Mode, registered, call)
        /\ v = "refused" => ~Right(Mode, registered, call)
        /\ v \in {"denied", "failed", "accepted", "refused"}
    <3>1. PICK yes \in BOOLEAN :
             yes = (/\ call.name \in DOMAIN users
                    /\ ProviderAccepts(call.text, users[call.name])
                    /\ << >> \notin {call.name, call.text})
      OBVIOUS
    <3>2. yes <=> Right(Mode, registered, call)
      BY <3>1, Looked
    <3>3. v \in Outcomes(yes)
      BY <2>1, <3>1 DEF Verdicts, ProviderAccepts
    <3> QED
      BY <3>2, <3>3, OutcomeIs
  <2>4. r.success => v = "accepted"
    BY <2>2
  <2>5. /\ r.error = <<1>> => v = "refused"
        /\ r.error = <<2>> => v = "denied"
    BY <1>1, <2>2, <2>3
  <2> QED
    BY <1>1, <1>2, <2>3, <2>4, <2>5 DEF JustTo
<1>3. CASE call.op = "add"
  <2>1. ASSUME r.success PROVE Lines(registered, call.name) # {}
    <3>1. \/ r = Response(FALSE, <<1>>, << >>, << >>, << >>)
          \/ \E v \in UserExists(call.name) \cap {"accepted"} :
                r = Response(TRUE, << >>, << >>, << >>, << >>)
      BY <1>3 DEF Answers
    <3>2. "accepted" \in UserExists(call.name)
      BY <2>1, <3>1 DEF Response
    <3>3. call.name \in DOMAIN users
      BY <3>2 DEF UserExists, Outcomes
    <3> QED
      BY <3>3, Looked
  <2> QED
    BY <1>3, <2>1 DEF JustTo
<1>4. CASE call.op \notin {"login", "add"}
  BY <1>4 DEF JustTo
<1> QED
  BY <1>2, <1>3, <1>4

(* A worker, and what a client was told, mean that the server came up. *)
JudgedInv ==
    /\ worker # "none" => stage = "ready"
    /\ \A c \in Clients :
          /\ client[c].heard # {} => stage = "ready"
          /\ \A call \in client[c].heard, r \in client[c].answer :
                JustTo(Mode, registered, turned, call, r)

(* At first nothing is configured and nothing was answered. *)
LEMMA InitStart == Init => StartInv /\ JudgedInv
<1> SUFFICES ASSUME Init PROVE StartInv /\ JudgedInv
  OBVIOUS
<1>1. /\ stage = "config" /\ config = Unset /\ secret = << >> /\ turned = FALSE
      /\ worker = "none" /\ client = [c \in Clients |-> Idle(<< >>)]
  BY DEF Init, StartInit
<1>2. StartInv
  <2>1. config = [k \in ConfigKeys |-> config[k]] /\ config["mysql_password"] = 0
    BY <1>1 DEF Unset, ConfigKeys, SectionOf
  <2>2. << >> \in Seq(Bit)
    BY EmptySeq
  <2> QED
    BY <1>1, <2>1, <2>2 DEF StartInv
<1>3. \A c \in Clients : client[c].heard = {}
  BY <1>1 DEF Idle
<1> QED
  BY <1>1, <1>2, <1>3 DEF JudgedInv

(* While the server comes up. *)
LEMMA ServerInitStep ==
    ASSUME StartInv, ServerInit
    PROVE  StartInv' /\ stage # "ready"
<1>1. ASSUME NEW name \in Sections, ReadSection(name)
      PROVE  StartInv' /\ stage # "ready"
  BY <1>1 DEF ReadSection, StartInv, Mode
<1>2. ASSUME NEW key \in ConfigKeys, NEW value \in Values, ApplyKV(key, value)
      PROVE  StartInv' /\ stage # "ready"
  <2>1. stage = "config" /\ stage' = "config"
    BY <1>2 DEF ApplyKV
  <2>2. CASE UNCHANGED <<config, secret, turned>>
    BY <2>1, <2>2 DEF StartInv
  <2>3. ASSUME NEW x, config' = [config EXCEPT ![key] = x], key = "mysql_password",
               x = value, Scramble(IF value = 0 THEN << >> ELSE DbPassword, FALSE)
        PROVE  StartInv'
    <3>1. PICK text \in Seq(Bit) : text = IF value = 0 THEN << >> ELSE DbPassword
      BY StartAssumption, EmptySeq
    <3>2. /\ secret' \in Seq(Bit) /\ turned' \in BOOLEAN
          /\ ~turned' => secret' = text
      BY <2>3, <3>1, ScrambleKeeps
    <3>3. config' = [k \in ConfigKeys |-> config'[k]] /\ config'["mysql_password"] = value
      BY <2>3 DEF StartInv
    <3> QED
      BY <2>1, <3>1, <3>2, <3>3 DEF StartInv
  <2>4. ASSUME NEW x, config' = [config EXCEPT ![key] = x], key # "mysql_password",
               UNCHANGED <<secret, turned>>
        PROVE  StartInv'
    <3>1. "mysql_password" \in ConfigKeys
      BY DEF ConfigKeys, SectionOf
    <3>2. /\ config' = [k \in ConfigKeys |-> config'[k]]
          /\ config'["mysql_password"] = config["mysql_password"]
      BY <2>4, <3>1 DEF StartInv
    <3> QED
      BY <2>1, <2>4, <3>2 DEF StartInv
  <2>5. CASE SectionOf[key] = section
    <3>1. config' = [config EXCEPT ![key] =
                       IF key \in {"mysql_port", "list_port"}
                       THEN ParseUint16(value, config[key]) ELSE value]
      BY <1>2, <2>5 DEF ApplyKV
    <3>2. CASE key = "mysql_password"
      <4>1. config' = [config EXCEPT ![key] = value]
        BY <3>1, <3>2
      <4>2. Scramble(IF value = 0 THEN << >> ELSE DbPassword, FALSE)
        BY <1>2, <2>5, <3>2 DEF ApplyKV
      <4> QED
        BY <2>1, <2>3, <3>2, <4>1, <4>2
    <3>3. CASE key # "mysql_password"
      <4>1. UNCHANGED <<secret, turned>>
        BY <1>2, <2>5, <3>3 DEF ApplyKV
      <4> QED
        BY <2>1, <2>4, <3>1, <3>3, <4>1
    <3> QED
      BY <2>1, <3>2, <3>3
  <2>6. CASE SectionOf[key] # section
    BY <1>2, <2>1, <2>2, <2>6 DEF ApplyKV
  <2> QED
    BY <2>1, <2>5, <2>6
<1>3. CASE BadConfig
  BY <1>3 DEF BadConfig, StartInv
<1>4. CASE EndOfConfig
  <2>1. /\ stage = "config" /\ UNCHANGED <<secret, turned>>
        /\ \E x : config' = [config EXCEPT !["rotation_threshold"] = x]
        /\ stage' \in {"auth", "failed"}
        /\ stage' = "auth" => ~(Mode = "mysql" /\ \E k \in MySqlKeys : config[k] = 0)
    BY <1>4 DEF EndOfConfig
  <2>2. {"mysql_password", "mode", "rotation_threshold"} \subseteq ConfigKeys
    BY DEF ConfigKeys, SectionOf
  <2>3. /\ config' = [k \in ConfigKeys |-> config'[k]]
        /\ config'["mysql_password"] = config["mysql_password"]
        /\ config'["mode"] = config["mode"]
    BY <2>1, <2>2 DEF StartInv
  <2>4. Mode' = Mode
    BY <2>3 DEF Mode
  <2>5. stage' = "auth" /\ Mode = "mysql" => config["mysql_password"] # 0
    BY <2>1 DEF MySqlKeys
  <2> QED
    BY <2>1, <2>3, <2>4, <2>5 DEF StartInv
<1>5. CASE MakeAuthProvider
  <2>1. /\ stage = "auth" /\ stage' = "dirs"
        /\ registered' \in Registries /\ users' = TableOf(registered')
        /\ config' = [Unset EXCEPT !["mode"] = IF Mode = "demo" THEN 1 ELSE 0]
        /\ IF Mode = "demo" THEN secret' = << >> /\ turned' = FALSE
           ELSE UNCHANGED <<secret, turned>>
    BY <1>5 DEF MakeAuthProvider
  <2>2. registered' \in Seq(UserLines)
    BY <2>1, RegistryAssumption
  <2>3. /\ config' = [k \in ConfigKeys |-> config'[k]]
        /\ config'["mode"] = IF Mode = "demo" THEN 1 ELSE 0
    <3>1. "mode" \in ConfigKeys
      BY DEF ConfigKeys, SectionOf
    <3> QED
      BY <2>1, <3>1 DEF Unset
  <2>4. Mode' = Mode /\ Mode \in {"demo", "mysql"}
    BY <2>3 DEF Mode
  <2>5. << >> \in Seq(Bit)
    BY EmptySeq
  <2> QED
    BY <2>1, <2>2, <2>3, <2>4, <2>5 DEF StartInv
<1>6. CASE BadUserFile
  BY <1>6 DEF BadUserFile, StartInv
<1>7. CASE CreateParts
  BY <1>7 DEF CreateParts, StartInv, Mode
<1> QED
  BY <1>1, <1>2, <1>3, <1>4, <1>5, <1>6, <1>7 DEF ServerInit

(* An answer stays right when a password is turned around later. *)
LEMMA JustLater ==
    ASSUME NEW mode, NEW list, NEW trn, NEW later, NEW call, NEW r, trn => later,
           JustTo(mode, list, trn, call, r)
    PROVE  JustTo(mode, list, later, call, r)
BY DEF JustTo

(* Steps that answer nothing. *)
LEMMA JudgedOn ==
    ASSUME JudgedInv,
           worker' # "none" => worker # "none" \/ stage = "ready",
           stage = "ready" =>
              stage' = "ready" /\ registered' = registered /\ config' = config,
           turned => turned',
           \A c \in Clients : \/ client'[c].heard = {}
                              \/ /\ client'[c].heard = client[c].heard
                                 /\ client'[c].answer = client[c].answer
    PROVE  JudgedInv'
<1>1. ASSUME NEW c \in Clients
      PROVE  /\ client'[c].heard # {} => stage' = "ready"
             /\ \A call \in client'[c].heard, r \in client'[c].answer :
                   JustTo(Mode', registered', turned', call, r)
  <2>1. CASE client'[c].heard = {}
    BY <2>1
  <2>2. CASE /\ client'[c].heard = client[c].heard /\ client[c].heard # {}
             /\ client'[c].answer = client[c].answer
    <3>1. stage = "ready" /\ \A call \in client[c].heard, r \in client[c].answer :
                                JustTo(Mode, registered, turned, call, r)
      BY <2>2 DEF JudgedInv
    <3>2. registered' = registered /\ Mode' = Mode
      BY <3>1 DEF Mode
    <3> QED
      BY <2>2, <3>1, <3>2, JustLater
  <2> QED
    BY <2>1, <2>2
<1> QED
  BY <1>1 DEF JudgedInv

(* A provider that is asked keeps the password or loses it for good. *)
LEMMA ReadSecretKeeps ==
    ASSUME StartInv, stage = "ready", ReadSecret
    PROVE  /\ secret' \in Seq(Bit) /\ turned' \in BOOLEAN
           /\ turned => turned'
           /\ Mode = "mysql" /\ ~turned' => secret' = DbPassword
<1>1. CASE Mode = "mysql"
  <2>1. Scramble(secret, turned)
    BY <1>1 DEF ReadSecret
  <2>2. secret \in Seq(Bit) /\ turned \in BOOLEAN
    BY DEF StartInv
  <2>3. /\ secret' \in Seq(Bit) /\ turned' \in BOOLEAN
        /\ turned => turned'
        /\ ~turned' => secret' = secret
    BY <2>1, <2>2, ScrambleKeeps
  <2> QED
    BY <1>1, <2>3 DEF StartInv
<1>2. CASE Mode # "mysql"
  BY <1>2 DEF ReadSecret, StartInv
<1> QED
  BY <1>1, <1>2

(* Serving changes nothing of the start but the secret. *)
LEMMA ServeKeeps ==
    ASSUME StartInv, JudgedInv, Serve
    PROVE  /\ StartInv' /\ (turned => turned')
           /\ stage = "ready" /\ stage' = "ready" /\ registered' = registered
           /\ config' = config /\ Mode' = Mode
           /\ worker' = "loop"
<1>1. /\ stage = "ready" /\ worker' = "loop"
      /\ UNCHANGED <<stage, config, registered, users>>
  BY DEF Serve, JudgedInv
<1>2. ReadSecret \/ UNCHANGED <<secret, turned>>
  BY DEF Serve
<1>3. /\ secret' \in Seq(Bit) /\ turned' \in BOOLEAN
      /\ turned => turned'
      /\ Mode = "mysql" /\ ~turned' => secret' = DbPassword
  BY <1>1, <1>2, ReadSecretKeeps DEF StartInv
<1>4. Mode' = Mode
  BY <1>1 DEF Mode
<1> QED
  BY <1>1, <1>3, <1>4 DEF StartInv

(* Every step keeps what the server came up with. *)
LEMMA StartStep ==
    ASSUME StartInv, JudgedInv, [Next]_vars
    PROVE  StartInv'
<1>1. CASE UNCHANGED startVars
  BY <1>1 DEF StartInv, Mode, startVars
<1>2. CASE ServerInit /\ UNCHANGED netVars
  BY <1>2, ServerInitStep
<1>3. CASE Serve
  BY <1>3, ServeKeeps
<1>4. CASE Start \/ Stop \/ Joined \/ Loop \/ Accept \/ AcceptFails \/ UNCHANGED vars
  BY <1>1, <1>4 DEF Start, Stop, Joined, Loop, Accept, AcceptFails, vars
<1>5. ASSUME NEW c \in Clients, Connect(c) \/ Return(c)
      PROVE  StartInv'
  BY <1>1, <1>5 DEF Connect, Return
<1> QED
  BY <1>2, <1>3, <1>4, <1>5 DEF Next

(* The answer that a client is given in the end. *)
LEMMA ServedJustly ==
    ASSUME StartInv, JudgedInv, TalkInv, Serve, NEW c \in Clients, place[c] = "accepted",
           NEW data \in Received(Request(c)), Heard(data).ok,
           NEW r \in Answers(c, Heard(data).value)
    PROVE  JustTo(Mode', registered', turned', Heard(data).value, r)
<1>1. /\ stage = "ready" /\ registered' = registered /\ (turned => turned')
      /\ Mode' = Mode
  BY ServeKeeps
<1> DEFINE k == client[c]
<1>2. Talk(c, "accepted", k)
  BY DEF TalkInv
<1>3. /\ k.token \in Seq(Nat) /\ k.call \in ClientCalls
      /\ k.call.op = "login" \/ k.token # << >>
  BY <1>2, TalkTypes DEF Talk
<1>4. Request(c) = EncodeFrame(TypeOf(k.call.op), PayloadOf(k.call, k.token))
  BY DEF Request, PayloadOf, Cat
<1>5. Heard(data).value = k.call
  <2> HIDE DEF k
  <2> QED
    BY <1>3, <1>4, RequestHeard
<1>6. k.call.text \in Seq(Nat) /\ Colon \notin Range(Sha256Hex(k.call.text))
  BY <1>2, <1>3, ClientCallType, HashAssumption DEF Talk
<1>7. /\ registered \in Seq(UserLines) /\ users = TableOf(registered)
      /\ Mode = "mysql" /\ ~turned => secret = DbPassword
  BY <1>1 DEF StartInv
<1>8. JustTo(Mode, registered, turned, k.call, r)
  BY <1>5, <1>6, <1>7, Judged
<1> QED
  BY <1>1, <1>5, <1>8, JustLater

(* Every step keeps the answers just. *)
LEMMA JudgedStep ==
    ASSUME StartInv, JudgedInv, TalkInv, [Next]_vars
    PROVE  JudgedInv'
<1>1. CASE ServerInit /\ UNCHANGED netVars
  <2>1. stage # "ready"
    BY <1>1, ServerInitStep
  <2>2. worker = "none" /\ \A c \in Clients : client[c].heard = {}
    BY <2>1 DEF JudgedInv
  <2> QED
    BY <1>1, <2>2 DEF JudgedInv, netVars
<1>2. CASE /\ UNCHANGED <<startVars, client>>
           /\ worker' # "none" => worker # "none" \/ stage = "ready"
  BY <1>2, JudgedOn DEF startVars
<1>3. CASE Start \/ Stop \/ Joined \/ Loop \/ Accept \/ AcceptFails \/ UNCHANGED vars
  <2>1. /\ UNCHANGED <<startVars, client>>
        /\ worker' # "none" => worker # "none" \/ stage = "ready"
    BY <1>3 DEF Start, Stop, Joined, Loop, Accept, AcceptFails, vars, netVars
  <2> QED
    BY <1>2, <2>1
<1>4. ASSUME NEW c \in Clients, NEW k, UNCHANGED <<startVars, worker>>,
             client' = [client EXCEPT ![c] = k],
             k.heard = {} \/ (k.heard = client[c].heard /\ k.answer = client[c].answer)
      PROVE  JudgedInv'
  <2>1. \A d \in Clients : \/ client'[d].heard = {}
                           \/ /\ client'[d].heard = client[d].heard
                              /\ client'[d].answer = client[d].answer
    <3>1. client = [d \in Clients |-> client[d]]
      BY DEF TalkInv
    <3>2. \A d \in Clients : client'[d] = IF d = c THEN k ELSE client[d]
      BY <1>4, <3>1
    <3> QED
      BY <1>4, <3>2
  <2>2. UNCHANGED <<stage, config, registered, turned, worker>>
    BY <1>4 DEF startVars
  <2> QED
    BY <2>1, <2>2, JudgedOn
<1>5. ASSUME NEW c \in Clients, Connect(c) PROVE JudgedInv'
  <2>1. PICK call : client' = [client EXCEPT ![c].call = call]
    BY <1>5 DEF Connect
  <2>2. UNCHANGED <<startVars, worker>>
    BY <1>5 DEF Connect
  <2>3. PICK k : k = [client[c] EXCEPT !.call = call]
    OBVIOUS
  <2>4. client' = [client EXCEPT ![c] = k]
    BY <2>1, <2>3
  <2>5. k.heard = client[c].heard /\ k.answer = client[c].answer
    <3>1. Fields(client[c])
      BY DEF TalkInv, Talk
    <3> QED
      BY <2>3, <3>1 DEF Fields
  <2> QED
    BY <1>4, <2>2, <2>4, <2>5
<1>6. ASSUME NEW c \in Clients, Return(c) PROVE JudgedInv'
  <2>1. PICK token : client' = [client EXCEPT ![c] = Idle(token)]
    BY <1>6 DEF Return
  <2>2. UNCHANGED <<startVars, worker>>
    BY <1>6 DEF Return
  <2>3. Idle(token).heard = {}
    BY DEF Idle
  <2> QED
    BY <1>4, <2>1, <2>2, <2>3
<1>7. CASE Serve
  <2> DEFINE Answered(c, data) ==
                \/ Close(c, {}, {}, << >>)
                \/ /\ Heard(data).ok
                   /\ \E r \in Answers(c, Heard(data).value) :
                         Close(c, {Heard(data).value}, {r}, Reply(c, Heard(data).value, r))
  <2>1. PICK c \in Clients :
           place[c] = "accepted" /\ \E data \in Received(Request(c)) : Answered(c, data)
    BY <1>7, Zenon DEF Serve
  <2>2. PICK data \in Received(Request(c)) : Answered(c, data)
    BY <2>1
  <2>3. /\ stage = "ready" /\ stage' = "ready" /\ registered' = registered
        /\ config' = config /\ Mode' = Mode
        /\ turned => turned'
        /\ worker' = "loop"
    BY <1>7, ServeKeeps
  <2>4. client = [d \in Clients |-> client[d]] /\ Fields(client[c])
    BY DEF TalkInv, Talk
  <2>5. ASSUME NEW h, NEW a, NEW b, Close(c, h, a, b)
        PROVE  /\ client'[c].heard = h /\ client'[c].answer = a
               /\ \A d \in Clients \ {c} : client'[d] = client[d]
    <3>1. PICK k : k = [client[c] EXCEPT !.heard = h, !.answer = a, !.reply = b]
                   /\ Renewed(client[c], h, a, b, k)
      BY DEF Renewed
    <3>2. client' = [client EXCEPT ![c] = k]
      BY <2>5, <3>1 DEF Close
    <3>3. k.heard = h /\ k.answer = a
      BY <2>4, <3>1, NewFields
    <3> QED
      BY <2>4, <3>2, <3>3
  <2>6. CASE Close(c, {}, {}, << >>)
    <3>1. \A d \in Clients : \/ client'[d].heard = {}
                             \/ /\ client'[d].heard = client[d].heard
                                /\ client'[d].answer = client[d].answer
      BY <2>5, <2>6
    <3> QED
      BY <2>3, <3>1, JudgedOn
  <2>7. ASSUME Heard(data).ok, NEW r \in Answers(c, Heard(data).value),
               Close(c, {Heard(data).value}, {r}, Reply(c, Heard(data).value, r))
        PROVE  JudgedInv'
    <3>1. PICK call : call = Heard(data).value
      OBVIOUS
    <3>2. JustTo(Mode', registered', turned', call, r)
      BY <1>7, <2>1, <2>7, <3>1, ServedJustly
    <3>3. /\ client'[c].heard = {call} /\ client'[c].answer = {r}
          /\ \A d \in Clients \ {c} : client'[d] = client[d]
      BY <2>5, <2>7, <3>1
    <3>4. ASSUME NEW d \in Clients, d # c
          PROVE  \A m \in client'[d].heard, s \in client'[d].answer :
                    JustTo(Mode', registered', turned', m, s)
      <4>1. client'[d] = client[d]
        BY <3>3, <3>4
      <4>2. \A m \in client[d].heard, s \in client[d].answer :
               JustTo(Mode, registered, turned, m, s)
        BY DEF JudgedInv
      <4> QED
        BY <2>3, <4>1, <4>2, JustLater
    <3>5. \A m \in client'[c].heard, s \in client'[c].answer :
             JustTo(Mode', registered', turned', m, s)
      BY <3>2, <3>3
    <3> QED
      BY <2>3, <3>4, <3>5 DEF JudgedInv
  <2> QED
    BY <2>2, <2>6, <2>7
<1> QED
  BY <1>1, <1>3, <1>5, <1>6, <1>7 DEF Next

(* ServerApp::Init, the auth providers and ScrambledString: a login        *)
(* succeeds only with a text that the first line of its name is a writing  *)
(* of, it is refused only without one, and only a database password that   *)
(* was turned around makes the server unable to tell.                      *)
THEOREM VerdictsAreJust == Spec => []VerdictsJust
<1> DEFINE IInv == TalkInv /\ QueueInv /\ StartInv /\ JudgedInv
<1>1. Init => IInv
  BY InitTalk, InitStart
<1>2. IInv /\ [Next]_vars => IInv'
  BY TalkStep, QueueStep, StartStep, JudgedStep
<1>3. IInv => VerdictsJust
  BY DEF JudgedInv, JustTo, Right, Lines, VerdictsJust
<1> QED
  BY <1>1, <1>2, <1>3, PTL DEF Spec
=============================================================================
