---------------------------- MODULE FilterProofs ----------------------------
(***************************************************************************)
(* What Kept returns for an empty, a longer and a concatenated sequence,   *)
(* which elements it has and in which order.  Kept is a recursive          *)
(* function, and these facts are proved by induction on a set: the lengths *)
(* for which the fact holds are a subset of Nat whose complement would     *)
(* have a least element.                                                   *)
(***************************************************************************)
EXTENDS Filter, Functions, SequenceTheorems, WellFoundedInduction, TLAPS

(* Induction with the set a property holds on in the place of the          *)
(* property, so that the provers can apply it.                             *)
LEMMA NatSetInduction ==
    ASSUME NEW T, 0 \in T, \A n \in Nat : n \in T => n + 1 \in T
    PROVE  Nat \subseteq T
<1> DEFINE less == {p \in Nat \X Nat : p[1] < p[2]}
<1>1. IsWellFoundedOn(less, Nat)
  BY NatLessThanWellFounded DEF OpToRel
<1> SUFFICES ASSUME Nat \ T # {} PROVE FALSE
  OBVIOUS
<1>2. \E n \in Nat \ T : \A m \in Nat \ T : <<m, n>> \notin less
  BY <1>1, WFMin
<1>3. PICK n \in Nat \ T : \A m \in Nat \ T : ~(m < n)
  BY <1>2
<1>4. n # 0
  OBVIOUS
<1>5. n - 1 \in Nat /\ n - 1 \in T /\ (n - 1) + 1 = n
  BY <1>3, <1>4
<1> QED
  BY <1>5

LEMMA SeqSetInduction ==
    ASSUME NEW X, NEW T, << >> \in T,
           \A s \in Seq(X), x \in X : s \in T => Append(s, x) \in T
    PROVE  Seq(X) \subseteq T
<1> DEFINE N == {n \in Nat : \A s \in Seq(X) : Len(s) = n => s \in T}
<1>1. 0 \in N
  BY EmptySeq
<1>2. ASSUME NEW n \in Nat, n \in N
      PROVE  n + 1 \in N
  <2> SUFFICES ASSUME NEW s \in Seq(X), Len(s) = n + 1 PROVE s \in T
    OBVIOUS
  <2>1. s # << >>
    BY EmptySeq
  <2>2. PICK front \in Seq(X), x \in X : s = Append(front, x)
    BY <2>1, SequenceEmptyOrAppend
  <2>3. Len(front) = n
    BY <2>2, LenProperties, AppendProperties
  <2> QED
    BY <1>2, <2>2, <2>3
<1> HIDE DEF N
<1>3. Nat \subseteq N
  BY <1>1, <1>2, NatSetInduction
<1> QED
  BY <1>3, LenProperties DEF N

(* A step function and a first value define a sequence of values. *)
Steps(first, step, g, n) ==
    g[0] = first /\ \A i \in 1..n : g[i] = step[<<i, g[i - 1]>>]

LEMMA Recursion ==
    ASSUME NEW X, NEW first \in X, NEW step \in [Nat \X X -> X]
    PROVE  \A n \in Nat : \E g \in [0..n -> X] : Steps(first, step, g, n)
<1> USE DEF Steps
<1> DEFINE Good(n, g) == Steps(first, step, g, n)
           T == {n \in Nat : \E g \in [0..n -> X] : Good(n, g)}
<1>1. 0 \in T
  <2>1. [i \in 0..0 |-> first] \in [0..0 -> X] /\ Good(0, [i \in 0..0 |-> first])
    OBVIOUS
  <2> QED
    BY <2>1
<1>2. ASSUME NEW n \in Nat, n \in T
      PROVE  n + 1 \in T
  <2>1. PICK g \in [0..n -> X] : Good(n, g)
    BY <1>2
  <2> DEFINE h == [i \in 0..(n + 1) |->
                     IF i = n + 1 THEN step[<<n + 1, g[n]>>] ELSE g[i]]
  <2>2. h \in [0..(n + 1) -> X]
    OBVIOUS
  <2>3. h[0] = first
    BY <2>1
  <2>4. ASSUME NEW i \in 1..(n + 1)
        PROVE  h[i] = step[<<i, h[i - 1]>>]
    <3>1. i - 1 \in 0..n /\ h[i - 1] = g[i - 1]
      OBVIOUS
    <3>2. CASE i = n + 1
      <4>1. i - 1 = n /\ h[i] = step[<<n + 1, g[n]>>]
        BY <3>2
      <4> QED
        BY <3>1, <3>2, <4>1
    <3>3. CASE i \in 1..n
      <4>1. h[i] = g[i] /\ g[i] = step[<<i, g[i - 1]>>]
        BY <2>1, <3>3
      <4> QED
        BY <3>1, <4>1
    <3> QED
      BY <3>2, <3>3
  <2> HIDE DEF h
  <2> QED
    BY <2>2, <2>3, <2>4
<1> HIDE DEF T
<1>3. Nat \subseteq T
  BY <1>1, <1>2, NatSetInduction
<1> QED
  BY <1>3 DEF T

(* The function Kept is the last value of. *)
KeptTo(g, s, S) ==
    g = [i \in 0..Len(s) |->
           IF i = 0 THEN << >>
           ELSE IF s[i] \in S THEN Append(g[i - 1], s[i]) ELSE g[i - 1]]

LEMMA KeptToExists ==
    ASSUME NEW X, NEW s \in Seq(X), NEW S
    PROVE  \E g \in [0..Len(s) -> Seq(X)] : KeptTo(g, s, S)
<1> DEFINE n == Len(s)
           step == [p \in Nat \X Seq(X) |->
                      IF p[1] \in 1..n /\ s[p[1]] \in S
                      THEN Append(p[2], s[p[1]]) ELSE p[2]]
<1>1. n \in Nat /\ \A i \in 1..n : s[i] \in X
  BY LenProperties, ElementOfSeq
<1>2. step \in [Nat \X Seq(X) -> Seq(X)] /\ << >> \in Seq(X)
  BY <1>1, AppendProperties, EmptySeq
<1>3. \A i \in 1..n, t \in Seq(X) :
         step[<<i, t>>] = IF s[i] \in S THEN Append(t, s[i]) ELSE t
  BY <1>1
<1> HIDE DEF step
<1>4. PICK g \in [0..n -> Seq(X)] :
         g[0] = << >> /\ \A i \in 1..n : g[i] = step[<<i, g[i - 1]>>]
  <2>1. \A m \in Nat : \E g \in [0..m -> Seq(X)] : Steps(<< >>, step, g, m)
    BY <1>2, Recursion
  <2> QED
    BY <1>1, <2>1 DEF Steps
<1>5. \A i \in 0..n :
         g[i] = IF i = 0 THEN << >>
                ELSE IF s[i] \in S THEN Append(g[i - 1], s[i]) ELSE g[i - 1]
  <2> SUFFICES ASSUME NEW i \in 0..n, i # 0
               PROVE  g[i] = IF s[i] \in S THEN Append(g[i - 1], s[i]) ELSE g[i - 1]
    BY <1>4
  <2>1. i \in 1..n /\ i - 1 \in 0..n
    BY <1>1
  <2> QED
    BY <1>3, <1>4, <2>1
<1>6. g = [i \in 0..n |-> g[i]]
  BY <1>4
<1> QED
  BY <1>5, <1>6 DEF KeptTo

(* It is the only one, and is the same for the sequences that begin alike. *)
LEMMA KeptToUnique ==
    ASSUME NEW s, NEW t, NEW S, NEW g, NEW h, KeptTo(g, s, S), KeptTo(h, t, S),
           Len(s) \in Nat, Len(t) \in Nat, NEW n \in Nat, n <= Len(s), n <= Len(t),
           \A i \in 1..n : s[i] = t[i]
    PROVE  \A i \in 0..n : g[i] = h[i]
<1> DEFINE T == {i \in Nat : i <= n => g[i] = h[i]}
<1>1. 0 \in T
  BY DEF KeptTo
<1>2. ASSUME NEW i \in Nat, i \in T
      PROVE  i + 1 \in T
  <2> SUFFICES ASSUME i + 1 <= n PROVE g[i + 1] = h[i + 1]
    OBVIOUS
  <2>1. /\ i + 1 \in 0..Len(s) /\ i + 1 \in 0..Len(t) /\ i + 1 # 0
        /\ (i + 1) - 1 = i /\ s[i + 1] = t[i + 1]
    OBVIOUS
  <2>2. g[i + 1] = IF s[i + 1] \in S THEN Append(g[i], s[i + 1]) ELSE g[i]
    BY <2>1 DEF KeptTo
  <2>3. h[i + 1] = IF t[i + 1] \in S THEN Append(h[i], t[i + 1]) ELSE h[i]
    BY <2>1 DEF KeptTo
  <2> QED
    BY <1>2, <2>1, <2>2, <2>3
<1> HIDE DEF T
<1>3. Nat \subseteq T
  BY <1>1, <1>2, NatSetInduction
<1> QED
  BY <1>3 DEF T

LEMMA KeptIs ==
    ASSUME NEW X, NEW s \in Seq(X), NEW S
    PROVE  \E g \in [0..Len(s) -> Seq(X)] : KeptTo(g, s, S) /\ Kept(s, S) = g[Len(s)]
<1> DEFINE g == CHOOSE h : KeptTo(h, s, S)
<1>1. Kept(s, S) = g[Len(s)]
  BY DEF Kept, KeptTo
<1>2. PICK h \in [0..Len(s) -> Seq(X)] : KeptTo(h, s, S)
  BY KeptToExists
<1>3. KeptTo(g, s, S)
  BY <1>2
<1> HIDE DEF g
<1>4. Len(s) \in Nat
  BY LenProperties
<1>5. \A i \in 0..Len(s) : g[i] = h[i]
  BY <1>2, <1>3, <1>4, KeptToUnique
<1>6. g = [i \in 0..Len(s) |-> g[i]]
  BY <1>3 DEF KeptTo
<1>7. g \in [0..Len(s) -> Seq(X)]
  BY <1>4, <1>5, <1>6
<1> QED
  BY <1>1, <1>3, <1>7

LEMMA KeptEmpty == \A S : Kept(<< >>, S) = << >>
<1> SUFFICES ASSUME NEW S PROVE Kept(<< >>, S) = << >>
  OBVIOUS
<1>1. << >> \in Seq({}) /\ Len(<< >>) = 0
  BY EmptySeq
<1>2. PICK g : KeptTo(g, << >>, S) /\ Kept(<< >>, S) = g[Len(<< >>)]
  BY <1>1, KeptIs
<1>3. g[0] = << >>
  BY <1>1, <1>2 DEF KeptTo
<1> QED
  BY <1>1, <1>2, <1>3

LEMMA KeptType ==
    ASSUME NEW X, NEW s \in Seq(X), NEW S
    PROVE  Kept(s, S) \in Seq(X)
<1>1. Len(s) \in 0..Len(s)
  BY LenProperties
<1> QED
  BY <1>1, KeptIs

LEMMA KeptAppend ==
    ASSUME NEW X, NEW s \in Seq(X), NEW x \in X, NEW S
    PROVE  Kept(Append(s, x), S) =
              IF x \in S THEN Append(Kept(s, S), x) ELSE Kept(s, S)
<1> DEFINE t == Append(s, x)
           n == Len(s)
<1>1. /\ t \in Seq(X) /\ n \in Nat /\ Len(t) = n + 1 /\ t[n + 1] = x
      /\ \A i \in 1..n : t[i] = s[i]
  BY LenProperties, AppendProperties
<1>2. PICK g : KeptTo(g, s, S) /\ Kept(s, S) = g[n]
  BY KeptIs
<1> HIDE DEF t
<1>3. PICK h : KeptTo(h, t, S) /\ Kept(t, S) = h[n + 1]
  BY <1>1, KeptIs
<1>4. h[n] = g[n]
  <2>1. \A i \in 0..n : g[i] = h[i]
    BY <1>1, <1>2, <1>3, KeptToUnique
  <2> QED
    BY <1>1, <2>1
<1>5. h[n + 1] = IF t[n + 1] \in S THEN Append(h[n], t[n + 1]) ELSE h[n]
  <2>1. n + 1 \in 0..Len(t) /\ n + 1 # 0 /\ (n + 1) - 1 = n
    BY <1>1
  <2> QED
    BY <1>3, <2>1 DEF KeptTo
<1> QED
  BY <1>1, <1>2, <1>3, <1>4, <1>5 DEF t
-----------------------------------------------------------------------------
(* What Kept keeps: the elements of S and nothing else. *)
In(x, s) == \E i \in 1..Len(s) : s[i] = x

LEMMA InAppend ==
    ASSUME NEW X, NEW s \in Seq(X), NEW x \in X, NEW y
    PROVE  In(y, Append(s, x)) <=> In(y, s) \/ y = x
<1>1. /\ Len(s) \in Nat /\ Len(Append(s, x)) = Len(s) + 1
      /\ Append(s, x)[Len(s) + 1] = x
      /\ \A i \in 1..Len(s) : Append(s, x)[i] = s[i]
  BY LenProperties, AppendProperties
<1> QED
  BY <1>1 DEF In

LEMMA KeptIn ==
    ASSUME NEW X, NEW S
    PROVE  \A s \in Seq(X) : \A y : In(y, Kept(s, S)) <=> In(y, s) /\ y \in S
<1> DEFINE T == {s \in Seq(X) : \A y : In(y, Kept(s, S)) <=> In(y, s) /\ y \in S}
<1>1. << >> \in T
  <2>1. << >> \in Seq(X) /\ Len(<< >>) = 0
    BY EmptySeq
  <2> QED
    BY <2>1, KeptEmpty DEF In
<1>2. ASSUME NEW s \in Seq(X), NEW x \in X, s \in T
      PROVE  Append(s, x) \in T
  <2>1. Append(s, x) \in Seq(X)
    BY AppendProperties
  <2>2. Kept(s, S) \in Seq(X)
    BY KeptType
  <2>3. \A y : In(y, Append(Kept(s, S), x)) <=> In(y, Kept(s, S)) \/ y = x
    BY <2>2, InAppend
  <2>4. \A y : In(y, Append(s, x)) <=> In(y, s) \/ y = x
    BY InAppend
  <2>5. Kept(Append(s, x), S) =
           IF x \in S THEN Append(Kept(s, S), x) ELSE Kept(s, S)
    BY KeptAppend
  <2>6. \A y : In(y, Kept(s, S)) <=> In(y, s) /\ y \in S
    BY <1>2
  <2>7. \A y : In(y, Kept(Append(s, x), S)) <=> In(y, Append(s, x)) /\ y \in S
    BY <2>3, <2>4, <2>5, <2>6
  <2> QED
    BY <2>1, <2>7
<1> HIDE DEF T
<1>3. Seq(X) \subseteq T
  BY <1>1, <1>2, SeqSetInduction
<1> QED
  BY <1>3 DEF T

LEMMA KeptSame ==
    ASSUME NEW X, NEW S, NEW R
    PROVE  \A s \in Seq(X) :
              (\A y : In(y, s) => (y \in S <=> y \in R)) => Kept(s, S) = Kept(s, R)
<1> DEFINE T == {s \in Seq(X) : (\A y : In(y, s) => (y \in S <=> y \in R))
                                   => Kept(s, S) = Kept(s, R)}
<1>1. << >> \in T
  BY EmptySeq, KeptEmpty
<1>2. ASSUME NEW s \in Seq(X), NEW x \in X, s \in T
      PROVE  Append(s, x) \in T
  <2>1. Append(s, x) \in Seq(X)
    BY AppendProperties
  <2>2. In(x, Append(s, x)) /\ \A y : In(y, s) => In(y, Append(s, x))
    BY InAppend
  <2>3. /\ Kept(Append(s, x), S) = IF x \in S THEN Append(Kept(s, S), x) ELSE Kept(s, S)
        /\ Kept(Append(s, x), R) = IF x \in R THEN Append(Kept(s, R), x) ELSE Kept(s, R)
    BY KeptAppend
  <2>4. ASSUME \A y : In(y, Append(s, x)) => (y \in S <=> y \in R)
        PROVE  Kept(Append(s, x), S) = Kept(Append(s, x), R)
    <3>1. x \in S <=> x \in R
      BY <2>2, <2>4
    <3>2. Kept(s, S) = Kept(s, R)
      BY <1>2, <2>2, <2>4
    <3> QED
      BY <2>3, <3>1, <3>2
  <2> QED
    BY <2>1, <2>4
<1> HIDE DEF T
<1>3. Seq(X) \subseteq T
  BY <1>1, <1>2, SeqSetInduction
<1> QED
  BY <1>3 DEF T

LEMMA KeptAll ==
    ASSUME NEW X, NEW S
    PROVE  \A s \in Seq(X) : (\A y : In(y, s) => y \in S) => Kept(s, S) = s
<1> DEFINE T == {s \in Seq(X) : (\A y : In(y, s) => y \in S) => Kept(s, S) = s}
<1>1. << >> \in T
  BY EmptySeq, KeptEmpty
<1>2. ASSUME NEW s \in Seq(X), NEW x \in X, s \in T
      PROVE  Append(s, x) \in T
  <2>1. Append(s, x) \in Seq(X)
    BY AppendProperties
  <2>2. \A y : In(y, Append(s, x)) <=> In(y, s) \/ y = x
    BY InAppend
  <2> QED
    BY <1>2, <2>1, <2>2, KeptAppend
<1> HIDE DEF T
<1>3. Seq(X) \subseteq T
  BY <1>1, <1>2, SeqSetInduction
<1> QED
  BY <1>3 DEF T

LEMMA KeptKept ==
    ASSUME NEW X, NEW S, NEW R
    PROVE  \A s \in Seq(X) : Kept(Kept(s, S), R) = Kept(s, S \cap R)
<1> DEFINE T == {s \in Seq(X) : Kept(Kept(s, S), R) = Kept(s, S \cap R)}
<1>1. << >> \in T
  BY EmptySeq, KeptEmpty
<1>2. ASSUME NEW s \in Seq(X), NEW x \in X, s \in T
      PROVE  Append(s, x) \in T
  <2>1. Append(s, x) \in Seq(X)
    BY AppendProperties
  <2>2. Kept(s, S) \in Seq(X)
    BY KeptType
  <2>3. Kept(Append(Kept(s, S), x), R) =
           IF x \in R THEN Append(Kept(Kept(s, S), R), x) ELSE Kept(Kept(s, S), R)
    BY <2>2, KeptAppend
  <2>4. Kept(Append(s, x), S) =
           IF x \in S THEN Append(Kept(s, S), x) ELSE Kept(s, S)
    BY KeptAppend
  <2>5. Kept(Append(s, x), S \cap R) =
           IF x \in S \cap R THEN Append(Kept(s, S \cap R), x) ELSE Kept(s, S \cap R)
    BY KeptAppend
  <2>6. Kept(Kept(s, S), R) = Kept(s, S \cap R)
    BY <1>2
  <2>7. Kept(Kept(Append(s, x), S), R) = Kept(Append(s, x), S \cap R)
    <3>1. CASE x \in S
      <4>1. Kept(Append(s, x), S) = Append(Kept(s, S), x) /\ (x \in S \cap R <=> x \in R)
        BY <2>4, <3>1
      <4>2. Kept(Append(s, x), S \cap R) =
               IF x \in R THEN Append(Kept(s, S \cap R), x) ELSE Kept(s, S \cap R)
        BY <2>5, <4>1
      <4> QED
        BY <2>3, <2>6, <4>1, <4>2
    <3>2. CASE x \notin S
      BY <2>4, <2>5, <2>6, <3>2
    <3> QED
      BY <3>1, <3>2
  <2> QED
    BY <2>1, <2>7
<1> HIDE DEF T
<1>3. Seq(X) \subseteq T
  BY <1>1, <1>2, SeqSetInduction
<1> QED
  BY <1>3 DEF T

LEMMA KeptConcat ==
    ASSUME NEW X, NEW S, NEW r \in Seq(X)
    PROVE  \A s \in Seq(X) : Kept(r \o s, S) = Kept(r, S) \o Kept(s, S)
<1> DEFINE T == {s \in Seq(X) : Kept(r \o s, S) = Kept(r, S) \o Kept(s, S)}
<1>0. Kept(r, S) \in Seq(X)
  BY KeptType
<1>1. << >> \in T
  BY <1>0, EmptySeq, KeptEmpty, ConcatEmptySeq
<1>2. ASSUME NEW s \in Seq(X), NEW x \in X, s \in T
      PROVE  Append(s, x) \in T
  <2>1. Append(s, x) \in Seq(X) /\ r \o s \in Seq(X)
    BY AppendProperties, ConcatProperties
  <2>2. Kept(s, S) \in Seq(X)
    BY KeptType
  <2>3. r \o Append(s, x) = Append(r \o s, x)
    BY <2>1
  <2>4. Kept(r, S) \o Append(Kept(s, S), x) = Append(Kept(r, S) \o Kept(s, S), x)
    BY <1>0, <2>2
  <2>5. Kept(Append(s, x), S) =
           IF x \in S THEN Append(Kept(s, S), x) ELSE Kept(s, S)
    BY KeptAppend
  <2>6. Kept(Append(r \o s, x), S) =
           IF x \in S THEN Append(Kept(r \o s, S), x) ELSE Kept(r \o s, S)
    BY <2>1, KeptAppend
  <2>7. Kept(r \o s, S) = Kept(r, S) \o Kept(s, S)
    BY <1>2
  <2>8. Kept(r \o Append(s, x), S) = Kept(r, S) \o Kept(Append(s, x), S)
    BY <2>3, <2>4, <2>5, <2>6, <2>7
  <2> QED
    BY <2>1, <2>8
<1> HIDE DEF T
<1>3. Seq(X) \subseteq T
  BY <1>1, <1>2, SeqSetInduction
<1> QED
  BY <1>3 DEF T
-----------------------------------------------------------------------------
(* Sequences in which nothing stands twice. *)
Injective(s) == \A i, j \in 1..Len(s) : s[i] = s[j] => i = j

LEMMA InjectiveAppend ==
    ASSUME NEW X, NEW s \in Seq(X), NEW x \in X
    PROVE  Injective(Append(s, x)) <=> Injective(s) /\ ~In(x, s)
<1>1. /\ Len(s) \in Nat /\ Len(Append(s, x)) = Len(s) + 1
      /\ Append(s, x)[Len(s) + 1] = x
      /\ \A i \in 1..Len(s) : Append(s, x)[i] = s[i]
  BY LenProperties, AppendProperties
<1>2. ASSUME Injective(Append(s, x))
      PROVE  Injective(s) /\ ~In(x, s)
  BY <1>1, <1>2 DEF Injective, In
<1>3. ASSUME Injective(s), ~In(x, s)
      PROVE  Injective(Append(s, x))
  <2> SUFFICES ASSUME NEW i \in 1..(Len(s) + 1), NEW j \in 1..(Len(s) + 1),
                      Append(s, x)[i] = Append(s, x)[j]
               PROVE  i = j
    BY <1>1 DEF Injective
  <2>1. i \in 1..Len(s) \/ i = Len(s) + 1
    BY <1>1
  <2>2. j \in 1..Len(s) \/ j = Len(s) + 1
    BY <1>1
  <2> QED
    BY <1>1, <1>3, <2>1, <2>2 DEF Injective, In
<1> QED
  BY <1>2, <1>3

LEMMA KeptInjective ==
    ASSUME NEW X, NEW S
    PROVE  \A s \in Seq(X) : Injective(s) => Injective(Kept(s, S))
<1> DEFINE T == {s \in Seq(X) : Injective(s) => Injective(Kept(s, S))}
<1>1. << >> \in T
  BY EmptySeq, KeptEmpty
<1>2. ASSUME NEW s \in Seq(X), NEW x \in X, s \in T
      PROVE  Append(s, x) \in T
  <2>1. Append(s, x) \in Seq(X) /\ Kept(s, S) \in Seq(X)
    BY AppendProperties, KeptType
  <2>2. Injective(Append(s, x)) <=> Injective(s) /\ ~In(x, s)
    BY InjectiveAppend
  <2>3. Injective(Append(Kept(s, S), x)) <=> Injective(Kept(s, S)) /\ ~In(x, Kept(s, S))
    BY <2>1, InjectiveAppend
  <2>4. In(x, Kept(s, S)) => In(x, s)
    BY KeptIn
  <2>5. Kept(Append(s, x), S) =
           IF x \in S THEN Append(Kept(s, S), x) ELSE Kept(s, S)
    BY KeptAppend
  <2>6. Injective(Append(s, x)) => Injective(Kept(Append(s, x), S))
    BY <1>2, <2>2, <2>3, <2>4, <2>5
  <2> QED
    BY <2>1, <2>6
<1> HIDE DEF T
<1>3. Seq(X) \subseteq T
  BY <1>1, <1>2, SeqSetInduction
<1> QED
  BY <1>3 DEF T

LEMMA InConcat ==
    ASSUME NEW X, NEW r \in Seq(X), NEW s \in Seq(X), NEW y
    PROVE  In(y, r \o s) <=> In(y, r) \/ In(y, s)
<1>1. /\ Len(r) \in Nat /\ Len(s) \in Nat /\ Len(r \o s) = Len(r) + Len(s)
      /\ \A i \in 1..(Len(r) + Len(s)) :
            (r \o s)[i] = IF i <= Len(r) THEN r[i] ELSE s[i - Len(r)]
  BY LenProperties, ConcatProperties
<1>2. ASSUME In(y, r \o s)
      PROVE  In(y, r) \/ In(y, s)
  <2>1. PICK i \in 1..(Len(r) + Len(s)) : (r \o s)[i] = y
    BY <1>1, <1>2 DEF In
  <2>2. i \in 1..Len(r) \/ i - Len(r) \in 1..Len(s)
    BY <1>1
  <2> QED
    BY <1>1, <2>1, <2>2 DEF In
<1>3. ASSUME In(y, r)
      PROVE  In(y, r \o s)
  BY <1>1, <1>3 DEF In
<1>4. ASSUME In(y, s)
      PROVE  In(y, r \o s)
  <2>1. PICK j \in 1..Len(s) : s[j] = y
    BY <1>4 DEF In
  <2>2. /\ Len(r) + j \in 1..(Len(r) + Len(s)) /\ ~(Len(r) + j <= Len(r))
        /\ (Len(r) + j) - Len(r) = j
    BY <1>1
  <2> QED
    BY <1>1, <2>1, <2>2 DEF In
<1> QED
  BY <1>2, <1>3, <1>4

(* No element of an injective sequence stands in both of its halves. *)
LEMMA InjectiveConcat ==
    ASSUME NEW X, NEW r \in Seq(X), NEW s \in Seq(X), Injective(r \o s), NEW y, In(y, r)
    PROVE  ~In(y, s)
<1> SUFFICES ASSUME In(y, s) PROVE FALSE
  OBVIOUS
<1>1. /\ Len(r) \in Nat /\ Len(s) \in Nat /\ Len(r \o s) = Len(r) + Len(s)
      /\ \A i \in 1..(Len(r) + Len(s)) :
            (r \o s)[i] = IF i <= Len(r) THEN r[i] ELSE s[i - Len(r)]
  BY LenProperties, ConcatProperties
<1>2. PICK i \in 1..Len(r) : r[i] = y
  BY DEF In
<1>3. PICK j \in 1..Len(s) : s[j] = y
  BY DEF In
<1>4. /\ i \in 1..(Len(r) + Len(s)) /\ Len(r) + j \in 1..(Len(r) + Len(s))
      /\ i # Len(r) + j /\ i <= Len(r) /\ ~(Len(r) + j <= Len(r))
      /\ (Len(r) + j) - Len(r) = j
  BY <1>1
<1>5. (r \o s)[i] = (r \o s)[Len(r) + j]
  BY <1>1, <1>2, <1>3, <1>4
<1> QED
  BY <1>1, <1>4, <1>5 DEF Injective

LEMMA RangeIsIn ==
    ASSUME NEW X, NEW s \in Seq(X), NEW y
    PROVE  y \in Range(s) <=> In(y, s)
<1>1. DOMAIN s = 1..Len(s)
  BY LenProperties
<1> QED
  BY <1>1 DEF Range, In

LEMMA InjectiveFront ==
    ASSUME NEW X, NEW r \in Seq(X), NEW s \in Seq(X), Injective(r \o s)
    PROVE  Injective(r)
<1>1. /\ Len(r) \in Nat /\ Len(s) \in Nat /\ Len(r \o s) = Len(r) + Len(s)
      /\ \A i \in 1..(Len(r) + Len(s)) :
            (r \o s)[i] = IF i <= Len(r) THEN r[i] ELSE s[i - Len(r)]
  BY LenProperties, ConcatProperties
<1>2. \A i \in 1..Len(r) : i \in 1..(Len(r) + Len(s)) /\ (r \o s)[i] = r[i]
  BY <1>1
<1> QED
  BY <1>1, <1>2 DEF Injective

LEMMA KeptNone ==
    ASSUME NEW X, NEW s \in Seq(X), NEW S, \A y : In(y, s) => y \notin S
    PROVE  Kept(s, S) = << >>
<1>1. Kept(s, S) \in Seq(X) /\ \A y : ~In(y, Kept(s, S))
  BY KeptType, KeptIn
<1>2. ASSUME Kept(s, S) # << >>
      PROVE  FALSE
  <2>1. 1 \in 1..Len(Kept(s, S))
    BY <1>1, <1>2, EmptySeq
  <2> QED
    BY <1>1, <2>1 DEF In
<1> QED
  BY <1>2

(* A sequence of which every part stands in r in the order of r: what is   *)
(* read off r one stretch at a time, and may then lose its end.            *)
LEMMA SubsequenceFront ==
    ASSUME NEW X, NEW r \in Seq(X), NEW s \in Seq(X), NEW t \in Seq(X), Injective(r),
           s \o t = Kept(r, Range(s \o t))
    PROVE  s = Kept(r, Range(s))
<1>1. s \o t \in Seq(X)
  BY ConcatProperties
<1>2. /\ \A y : y \in Range(s) <=> In(y, s)
      /\ \A y : y \in Range(s \o t) <=> In(y, s) \/ In(y, t)
  BY <1>1, RangeIsIn, InConcat
<1>3. Injective(s \o t)
  BY KeptInjective
<1>4. Kept(s \o t, Range(s)) = Kept(s, Range(s)) \o Kept(t, Range(s))
  BY KeptConcat
<1>5. Kept(s, Range(s)) = s
  BY <1>2, KeptAll
<1>6. Kept(t, Range(s)) = << >>
  <2>1. \A y : In(y, t) => y \notin Range(s)
    BY <1>2, <1>3, InjectiveConcat
  <2> QED
    BY <2>1, KeptNone
<1>7. s \o << >> = s
  BY ConcatEmptySeq
<1>8. Kept(Kept(r, Range(s \o t)), Range(s)) = Kept(r, Range(s \o t) \cap Range(s))
  BY KeptKept
<1>9. Range(s \o t) \cap Range(s) = Range(s)
  BY <1>2
<1> QED
  BY <1>4, <1>5, <1>6, <1>7, <1>8, <1>9

LEMMA SubsequenceGrows ==
    ASSUME NEW X, NEW r \in Seq(X), NEW s \in Seq(X), NEW t \in Seq(X), Injective(r \o t),
           s = Kept(r, Range(s))
    PROVE  s \o t = Kept(r \o t, Range(s \o t))
<1>1. s \o t \in Seq(X)
  BY ConcatProperties
<1>2. /\ \A y : y \in Range(s) <=> In(y, s)
      /\ \A y : y \in Range(s \o t) <=> In(y, s) \/ In(y, t)
  BY <1>1, RangeIsIn, InConcat
<1>3. Kept(r \o t, Range(s \o t)) = Kept(r, Range(s \o t)) \o Kept(t, Range(s \o t))
  BY KeptConcat
<1>4. Kept(t, Range(s \o t)) = t
  BY <1>2, KeptAll
<1>5. Kept(r, Range(s \o t)) = Kept(r, Range(s))
  <2>1. \A y : In(y, r) => (y \in Range(s \o t) <=> y \in Range(s))
    BY <1>2, InjectiveConcat
  <2> QED
    BY <2>1, KeptSame
<1> QED
  BY <1>3, <1>4, <1>5

LEMMA SubsequenceStays ==
    ASSUME NEW X, NEW r \in Seq(X), NEW s \in Seq(X), NEW t \in Seq(X), Injective(r \o t),
           s = Kept(r, Range(s))
    PROVE  s = Kept(r \o t, Range(s))
<1>1. \A y : y \in Range(s) <=> In(y, s)
  BY RangeIsIn
<1>2. Kept(r \o t, Range(s)) = Kept(r, Range(s)) \o Kept(t, Range(s))
  BY KeptConcat
<1>3. \A y : In(y, s) => In(y, r)
  BY KeptIn
<1>4. Kept(t, Range(s)) = << >>
  <2>1. \A y : In(y, t) => y \notin Range(s)
    BY <1>1, <1>3, InjectiveConcat
  <2> QED
    BY <2>1, KeptNone
<1>5. s \o << >> = s
  BY ConcatEmptySeq
<1> QED
  BY <1>2, <1>4, <1>5
=============================================================================
