----------------------------- MODULE PromptTurn_proofs -----------------------------
(***************************************************************************)
(* For every set of inputs, every number of retries, tool calls, aborts    *)
(* and cancels: types, an abort sends nothing more, no input is lost or    *)
(* sent twice, and what a prompt leaves agrees with its session.           *)
(*                                                                         *)
(* First the operators on sequences: Without, and Times, the number of     *)
(* places an element has.  Then the parts of the invariant, each with the  *)
(* lemma that a step keeps it: Typed and Stopping; Behind, Matches, Counts *)
(* and NotMissed (Homed); Bound, Escaping and Due (Honoured).              *)
(***************************************************************************)
EXTENDS PromptTurn, FiniteSetTheorems, SequenceTheorems, WellFoundedInduction, TLAPS

\* A set of numbers that is not empty has a lowest one.
LEMMA Lowest ==
  ASSUME NEW S \in SUBSET Nat, S # {}
  PROVE  \E m \in S : \A d \in S : m <= d
<1>1. IsWellFoundedOn(OpToRel(<, Nat), Nat)
  BY NatLessThanWellFounded
<1>2. PICK m \in S : \A d \in S : ~(<<d, m>> \in OpToRel(<, Nat))
  BY <1>1, WFMin
<1>3. ASSUME NEW d \in S PROVE m <= d
  <2>1. d \in Nat /\ m \in Nat
    OBVIOUS
  <2>2. ~(d < m)
    BY <1>2, <2>1 DEF OpToRel
  <2> QED
    BY <2>1, <2>2
<1> QED
  BY <1>3

\* Induction
LEMMA Upwards ==
  ASSUME NEW n \in Nat, NEW P \in SUBSET Nat, 0 \in P, \A i \in 0..n : i > 0 /\ i - 1 \in P => i \in P
  PROVE  0..n \subseteq P
<1> SUFFICES ASSUME ~(0..n \subseteq P) PROVE FALSE
  OBVIOUS
<1> DEFINE B == {i \in 0..n : i \notin P}
<1>1. B \in SUBSET Nat /\ B # {}
  OBVIOUS
<1>2. PICK m \in B : \A d \in B : m <= d
  BY <1>1, Lowest
<1>3. m \in 0..n /\ m # 0
  OBVIOUS
<1>4. m - 1 \in 0..n /\ m - 1 \notin B
  BY <1>2, <1>3
<1> QED
  BY <1>3, <1>4

\* The function of the prefixes behind Without(s, S).
Sieve(rest, s, S, T) ==
  /\ rest \in [0..Len(s) -> Seq(T)]
  /\ Without(s, S) = rest[Len(s)]
  /\ rest[0] = <<>>
  /\ \A i \in 1..Len(s) : rest[i] = IF s[i] \in S THEN rest[i - 1] ELSE Append(rest[i - 1], s[i])

LEMMA WithoutIs ==
  ASSUME NEW T, NEW s \in Seq(T), NEW S
  PROVE  \E rest : Sieve(rest, s, S, T)
<1> DEFINE n == Len(s)
           next(q, i) == IF s[i] \in S THEN q ELSE Append(q, s[i])
           Ok(g, k) == /\ g \in [0..k -> Seq(T)] /\ g[0] = <<>>
                       /\ \A i \in 1..k : g[i] = next(g[i - 1], i)
           P == {k \in 0..n : \E g : Ok(g, k)}
<1>0. n \in Nat
  OBVIOUS
<1>1. 0 \in P
  <2>1. Ok([i \in 0..0 |-> <<>>], 0)
    <3>1. <<>> \in Seq(T)
      OBVIOUS
    <3> QED
      BY <3>1
  <2>2. 0 \in 0..n /\ \E g : Ok(g, 0)
    <3> HIDE DEF Ok
    <3> QED
      BY <1>0, <2>1
  <2> QED
    BY <2>2
<1>2. ASSUME NEW i \in 0..n, i > 0, i - 1 \in P PROVE i \in P
  <2>1. PICK g : Ok(g, i - 1)
    BY <1>2
  <2> DEFINE h == [j \in 0..i |-> IF j = i THEN next(g[i - 1], i) ELSE g[j]]
  <2>2. s[i] \in T /\ g[i - 1] \in Seq(T)
    BY <1>2, <2>1
  <2>3. next(g[i - 1], i) \in Seq(T)
    BY <2>2
  <2>4. h \in [0..i -> Seq(T)]
    <3>1. ASSUME NEW j \in 0..i, j # i PROVE g[j] \in Seq(T)
      <4>1. j \in 0..(i - 1)
        BY <3>1
      <4> QED
        BY <2>1, <4>1
    <3> HIDE DEF next
    <3> QED
      BY <2>3, <3>1
  <2>5. h[0] = <<>>
    BY <2>1, <1>2
  <2>6. ASSUME NEW j \in 1..i PROVE h[j] = next(h[j - 1], j)
    <3>1. j - 1 \in 0..i /\ j - 1 # i /\ h[j - 1] = g[j - 1]
      BY <2>6
    <3>2. CASE j = i
      BY <3>1, <3>2
    <3>3. CASE j # i
      <4>1. j \in 1..(i - 1) /\ h[j] = g[j]
        BY <3>3
      <4> QED
        BY <2>1, <3>1, <4>1
    <3> QED
      BY <3>2, <3>3
  <2>7. Ok(h, i)
    BY <2>4, <2>5, <2>6
  <2> QED
    BY <2>7
<1>3. n \in P
  <2>1. P \in SUBSET Nat
    <3> HIDE DEF Ok
    <3> QED
      BY <1>0
  <2> HIDE DEF P
  <2>2. 0..n \subseteq P
    BY <1>0, <1>1, <1>2, <2>1, Upwards
  <2> QED
    BY <1>0, <2>2
<1>4. PICK g : Ok(g, n)
  BY <1>3
<1> DEFINE rest == CHOOSE f : f = [i \in 0..n |-> IF i = 0 THEN <<>> ELSE next(f[i - 1], i)]
<1>5. g = [i \in 0..n |-> IF i = 0 THEN <<>> ELSE next(g[i - 1], i)]
  <2>1. g = [i \in 0..n |-> g[i]]
    BY <1>4
  <2>2. ASSUME NEW i \in 0..n PROVE g[i] = IF i = 0 THEN <<>> ELSE next(g[i - 1], i)
    <3>1. i = 0 \/ i \in 1..n
      OBVIOUS
    <3> HIDE DEF next
    <3> QED
      BY <1>4, <3>1
  <2> QED
    BY <2>1, <2>2
<1>6. rest = [i \in 0..n |-> IF i = 0 THEN <<>> ELSE next(rest[i - 1], i)]
  BY <1>5
<1>7. Without(s, S) = rest[n]
  BY DEF Without
<1> HIDE DEF rest
<1>8. rest[0] = <<>> /\ \A i \in 1..n : rest[i] = next(rest[i - 1], i)
  <2>1. \A i \in 0..n : rest[i] = IF i = 0 THEN <<>> ELSE next(rest[i - 1], i)
    <3> HIDE DEF next
    <3> QED
      BY <1>6
  <2>2. 0 \in 0..n /\ \A i \in 1..n : i \in 0..n /\ i # 0
    BY <1>0
  <2> HIDE DEF next
  <2> QED
    BY <2>1, <2>2
<1>9. \A i \in 0..n : rest[i] \in Seq(T)
  <2> DEFINE Q == {i \in 0..n : rest[i] \in Seq(T)}
  <2>1. 0 \in Q
    <3>1. <<>> \in Seq(T) /\ 0 \in 0..n
      BY <1>0
    <3> QED
      BY <1>8, <3>1
  <2>2. ASSUME NEW i \in 0..n, i > 0, i - 1 \in Q PROVE i \in Q
    <3>1. i \in 1..n /\ s[i] \in T /\ rest[i - 1] \in Seq(T)
      BY <2>2
    <3>2. rest[i] = next(rest[i - 1], i)
      BY <1>8, <3>1
    <3>3. next(rest[i - 1], i) \in Seq(T)
      BY <3>1
    <3> QED
      BY <3>2, <3>3
  <2> HIDE DEF Q
  <2>3. Q \in SUBSET Nat
    BY DEF Q
  <2>4. 0..n \subseteq Q
    BY <1>0, <2>1, <2>2, <2>3, Upwards
  <2> QED
    BY <2>4 DEF Q
<1>10. rest \in [0..n -> Seq(T)]
  <2>1. rest = [i \in 0..n |-> rest[i]]
    BY <1>6
  <2> QED
    BY <1>9, <2>1
<1> QED
  BY <1>7, <1>8, <1>10 DEF Sieve

\* Induction over a sequence, from its empty prefix on.
LEMMA Growing ==
  ASSUME NEW T, NEW s \in Seq(T), NEW P \in SUBSET Seq(T), <<>> \in P,
         \A q \in P : \A e \in T : Append(q, e) \in P
  PROVE  s \in P
<1> DEFINE Q == {i \in 0..Len(s) : SubSeq(s, 1, i) \in P}
<1>1. 0 \in Q
  <2>1. SubSeq(s, 1, 0) = <<>> /\ 0 \in 0..Len(s)
    OBVIOUS
  <2> QED
    BY <2>1
<1>2. ASSUME NEW i \in 0..Len(s), i > 0, i - 1 \in Q PROVE i \in Q
  <2>1. i \in 1..Len(s) /\ s[i] \in T /\ SubSeq(s, 1, i - 1) \in Seq(T)
    <3>1. i \in 1..Len(s) /\ i - 1 \in Int /\ 1 \in Int /\ \A j \in 1..(i - 1) : s[j] \in T
      BY <1>2
    <3>2. SubSeq(s, 1, i - 1) \in Seq(T)
      BY ONLY <3>1, SubSeqProperties
    <3>3. s[i] \in T
      BY <3>1, ElementOfSeq
    <3> QED
      BY <3>1, <3>2, <3>3
  <2>2. SubSeq(s, 1, i) = SubSeq(s, 1, i - 1) \o <<s[i]>>
    <3>1. 1 \in 1..Len(s) /\ i \in 1..Len(s)
      BY <2>1
    <3> QED
      BY <3>1, SubSeqRecursiveSecond
  <2>3. SubSeq(s, 1, i) = Append(SubSeq(s, 1, i - 1), s[i])
    BY <2>1, <2>2, AppendIsConcat
  <2> QED
    BY <1>2, <2>1, <2>3
<1>3. Q \in SUBSET Nat
  OBVIOUS
<1> HIDE DEF Q
<1>4. Len(s) \in Nat /\ Len(s) \in 0..Len(s)
  OBVIOUS
<1>5. 0..Len(s) \subseteq Q
  BY <1>1, <1>2, <1>3, <1>4, Upwards
<1>QQ. Len(s) \in Q
  BY <1>4, <1>5
<1>6. SubSeq(s, 1, Len(s)) = s
  OBVIOUS
<1>7. SubSeq(s, 1, Len(s)) \in P
  BY <1>QQ DEF Q
<1> QED
  BY <1>6, <1>7

LEMMA WithoutNothing ==
  ASSUME NEW S
  PROVE  Without(<<>>, S) = <<>>
<1>1. <<>> \in Seq({})
  OBVIOUS
<1>2. PICK rest : Sieve(rest, <<>>, S, {})
  BY <1>1, WithoutIs
<1>3. Len(<<>>) = 0
  OBVIOUS
<1> QED
  BY <1>2, <1>3 DEF Sieve

LEMMA WithoutMore ==
  ASSUME NEW T, NEW s \in Seq(T), NEW e \in T, NEW S
  PROVE  Without(Append(s, e), S) = IF e \in S THEN Without(s, S) ELSE Append(Without(s, S), e)
<1> DEFINE t == Append(s, e)
           n == Len(s)
<1>0. t \in Seq(T) /\ Len(t) = n + 1 /\ n \in Nat /\ t[n + 1] = e
  OBVIOUS
<1>1. PICK f : Sieve(f, s, S, T)
  BY WithoutIs
<1> HIDE DEF t
<1>2. PICK g : Sieve(g, t, S, T)
  BY <1>0, WithoutIs
<1> DEFINE P == {i \in 0..n : f[i] = g[i]}
<1>3. 0 \in P
  BY <1>0, <1>1, <1>2 DEF Sieve
<1>4. ASSUME NEW i \in 0..n, i > 0, i - 1 \in P PROVE i \in P
  <2>1. i \in 1..n /\ i \in 1..Len(t) /\ f[i - 1] = g[i - 1] /\ s[i] = t[i]
    BY <1>0, <1>4 DEF t
  <2>2. f[i] = IF s[i] \in S THEN f[i - 1] ELSE Append(f[i - 1], s[i])
    BY <1>1, <2>1 DEF Sieve
  <2>3. g[i] = IF t[i] \in S THEN g[i - 1] ELSE Append(g[i - 1], t[i])
    BY <1>2, <2>1 DEF Sieve
  <2> QED
    BY <2>1, <2>2, <2>3
<1>5. P \in SUBSET Nat
  OBVIOUS
<1>6. 0..n \subseteq P
  <2> HIDE DEF P
  <2> QED
    BY <1>0, <1>3, <1>4, <1>5, Upwards
<1>7. f[n] = g[n]
  BY <1>0, <1>6
<1>8. g[n + 1] = IF e \in S THEN g[n] ELSE Append(g[n], e)
  <2>1. n + 1 \in 1..Len(t) /\ (n + 1) - 1 = n
    BY <1>0
  <2> QED
    BY <1>0, <1>2, <2>1 DEF Sieve
<1> QED
  BY <1>0, <1>1, <1>2, <1>7, <1>8 DEF t, Sieve

LEMMA WithoutTyped ==
  ASSUME NEW T, NEW s \in Seq(T), NEW S
  PROVE  Without(s, S) \in Seq(T)
<1> DEFINE P == {q \in Seq(T) : Without(q, S) \in Seq(T)}
<1>1. <<>> \in P
  <2>1. <<>> \in Seq(T)
    OBVIOUS
  <2> QED
    BY <2>1, WithoutNothing
<1>2. ASSUME NEW q \in P, NEW e \in T PROVE Append(q, e) \in P
  <2>1. Append(q, e) \in Seq(T) /\ Without(q, S) \in Seq(T)
    BY <1>2
  <2>2. Without(Append(q, e), S) = IF e \in S THEN Without(q, S) ELSE Append(Without(q, S), e)
    BY <1>2, WithoutMore
  <2> QED
    BY SMTT(60), <2>1, <2>2
<1>3. s \in P
  <2> HIDE DEF P
  <2>1. P \in SUBSET Seq(T)
    BY DEF P
  <2> QED
    BY <1>1, <1>2, <2>1, Growing
<1> QED
  BY <1>3

LEMMA WithoutBoth ==
  ASSUME NEW T, NEW s \in Seq(T), NEW t \in Seq(T), NEW S
  PROVE  Without(s \o t, S) = Without(s, S) \o Without(t, S)
<1> DEFINE P == {q \in Seq(T) : Without(s \o q, S) = Without(s, S) \o Without(q, S)}
<1>0. Without(s, S) \in Seq(T)
  BY WithoutTyped
<1>1. <<>> \in P
  <2>1. s \o <<>> = s /\ Without(s, S) \o <<>> = Without(s, S) /\ <<>> \in Seq(T)
    BY <1>0
  <2> QED
    BY <2>1, WithoutNothing
<1>2. ASSUME NEW q \in P, NEW e \in T PROVE Append(q, e) \in P
  <2>1. s \o Append(q, e) = Append(s \o q, e) /\ s \o q \in Seq(T) /\ Append(q, e) \in Seq(T) /\ q \in Seq(T)
    BY <1>2
  <2>2. Without(Append(q, e), S) = IF e \in S THEN Without(q, S) ELSE Append(Without(q, S), e)
    BY <2>1, WithoutMore
  <2>3. Without(Append(s \o q, e), S) = IF e \in S THEN Without(s \o q, S) ELSE Append(Without(s \o q, S), e)
    BY ZenonT(60), <2>1, WithoutMore
  <2>4. Without(q, S) \in Seq(T)
    BY <2>1, WithoutTyped
  <2>5. Append(Without(s, S) \o Without(q, S), e) = Without(s, S) \o Append(Without(q, S), e)
    <3>1. Without(q, S) \o <<e>> = Append(Without(q, S), e) /\ <<e>> \in Seq(T)
      BY <2>4, AppendIsConcat
    <3>2. Append(Without(s, S) \o Without(q, S), e) = (Without(s, S) \o Without(q, S)) \o <<e>>
      BY <1>0, <2>4, AppendIsConcat
    <3>3. (Without(s, S) \o Without(q, S)) \o <<e>> = Without(s, S) \o (Without(q, S) \o <<e>>)
      BY SMTT(60), <1>0, <2>4, <3>1, ConcatAssociative
    <3> QED
      BY <3>1, <3>2, <3>3
  <2>6. Without(s \o q, S) = Without(s, S) \o Without(q, S)
    BY <1>2
  <2>7. Without(s \o Append(q, e), S) = Without(s, S) \o Without(Append(q, e), S)
    BY <2>1, <2>2, <2>3, <2>5, <2>6
  <2> QED
    BY <2>1, <2>7
<1>3. t \in P
  <2> HIDE DEF P
  <2>1. P \in SUBSET Seq(T)
    BY DEF P
  <2> QED
    BY <1>1, <1>2, <2>1, Growing
<1> QED
  BY <1>3

LEMMA Members ==
  ASSUME NEW T, NEW s \in Seq(T), NEW t \in Seq(T), NEW e \in T
  PROVE  /\ ToSet(s) \in SUBSET T
         /\ ToSet(<<>>) = {}
         /\ ToSet(Append(s, e)) = ToSet(s) \cup {e}
         /\ ToSet(s \o t) = ToSet(s) \cup ToSet(t)
<1>1. ToSet(s) \in SUBSET T /\ ToSet(<<>>) = {}
  BY DEF ToSet
<1>2. ToSet(Append(s, e)) = ToSet(s) \cup {e}
  <2>1. Append(s, e)[Len(s) + 1] = e /\ DOMAIN Append(s, e) = 1..(Len(s) + 1) /\ DOMAIN s = 1..Len(s) /\ Len(s) \in Nat
    OBVIOUS
  <2>2. \A i \in 1..Len(s) : Append(s, e)[i] = s[i]
    OBVIOUS
  <2>3. 1..(Len(s) + 1) = 1..Len(s) \cup {Len(s) + 1}
    BY <2>1
  <2> QED
    BY SMTT(60), <2>1, <2>2, <2>3, Zenon DEF ToSet
<1>3. ToSet(s \o t) = ToSet(s) \cup ToSet(t)
  <2>1. /\ s \o t \in Seq(T) /\ Len(s \o t) = Len(s) + Len(t)
        /\ \A i \in 1..Len(s) + Len(t) : (s \o t)[i] = IF i <= Len(s) THEN s[i] ELSE t[i - Len(s)]
    BY ConcatProperties
  <2>2. DOMAIN s = 1..Len(s) /\ DOMAIN t = 1..Len(t) /\ DOMAIN (s \o t) = 1..Len(s \o t) /\ Len(s) \in Nat /\ Len(t) \in Nat
    BY <2>1, LenProperties
  <2>3. ASSUME NEW i \in DOMAIN (s \o t) PROVE (s \o t)[i] \in ToSet(s) \cup ToSet(t)
    <3>1. CASE i <= Len(s)
      <4>1. i \in DOMAIN s /\ (s \o t)[i] = s[i]
        BY <2>1, <2>2, <2>3, <3>1
      <4> QED
        BY <4>1 DEF ToSet
    <3>2. CASE ~(i <= Len(s))
      <4>1. i - Len(s) \in DOMAIN t /\ (s \o t)[i] = t[i - Len(s)]
        BY <2>1, <2>2, <2>3, <3>2
      <4> QED
        BY <4>1 DEF ToSet
    <3> QED
      BY <3>1, <3>2
  <2>4. ASSUME NEW i \in DOMAIN s PROVE s[i] \in ToSet(s \o t)
    <3>1. i \in DOMAIN (s \o t) /\ (s \o t)[i] = s[i]
      BY <2>1, <2>2, <2>4
    <3> QED
      BY <3>1 DEF ToSet
  <2>5. ASSUME NEW i \in DOMAIN t PROVE t[i] \in ToSet(s \o t)
    <3>1. i + Len(s) \in DOMAIN (s \o t) /\ (s \o t)[i + Len(s)] = t[i]
      <4>1. i \in 1..Len(t) /\ i + Len(s) \in 1..Len(s) + Len(t) /\ ~(i + Len(s) <= Len(s)) /\ (i + Len(s)) - Len(s) = i
        BY <2>2, <2>5
      <4> QED
        BY <2>1, <2>2, <4>1
    <3> QED
      BY <3>1 DEF ToSet
  <2> QED
    BY <2>3, <2>4, <2>5 DEF ToSet
<1> QED
  BY <1>1, <1>2, <1>3

LEMMA WithoutMembers ==
  ASSUME NEW T, NEW s \in Seq(T), NEW S
  PROVE  ToSet(Without(s, S)) = ToSet(s) \ S
<1> DEFINE P == {q \in Seq(T) : ToSet(Without(q, S)) = ToSet(q) \ S}
<1>0. <<>> \in Seq(T)
  OBVIOUS
<1>1. <<>> \in P
  <2>1. ToSet(<<>>) = {}
    BY DEF ToSet
  <2> QED
    BY <1>0, <2>1, WithoutNothing
<1>2. ASSUME NEW q \in P, NEW e \in T PROVE Append(q, e) \in P
  <2>1. q \in Seq(T) /\ Append(q, e) \in Seq(T)
    BY <1>2
  <2>0. Without(q, S) \in Seq(T)
    BY <2>1, WithoutTyped
  <2>2. Without(Append(q, e), S) = IF e \in S THEN Without(q, S) ELSE Append(Without(q, S), e)
    BY <2>1, WithoutMore
  <2>3. ToSet(Append(q, e)) = ToSet(q) \cup {e} /\ ToSet(Append(Without(q, S), e)) = ToSet(Without(q, S)) \cup {e}
    BY <2>1, <2>0, Members
  <2> QED
    BY <1>2, <2>1, <2>2, <2>3
<1> HIDE DEF P
<1>3. P \in SUBSET Seq(T)
  BY DEF P
<1>4. s \in P
  BY <1>1, <1>2, <1>3, Growing
<1> QED
  BY <1>4 DEF P

LEMMA WithoutSame ==
  ASSUME NEW T, NEW s \in Seq(T), NEW S, NEW U, \A x \in ToSet(s) : x \in S <=> x \in U
  PROVE  Without(s, S) = Without(s, U)
<1> DEFINE P == {q \in Seq(T) : (\A x \in ToSet(q) : x \in S <=> x \in U) => Without(q, S) = Without(q, U)}
<1>1. <<>> \in P
  <2>1. <<>> \in Seq(T)
    OBVIOUS
  <2> QED
    BY <2>1, WithoutNothing
<1>2. ASSUME NEW q \in P, NEW e \in T PROVE Append(q, e) \in P
  <2>1. q \in Seq(T) /\ Append(q, e) \in Seq(T)
    BY <1>2
  <2>2. Without(Append(q, e), S) = IF e \in S THEN Without(q, S) ELSE Append(Without(q, S), e)
    BY <2>1, WithoutMore
  <2>3. Without(Append(q, e), U) = IF e \in U THEN Without(q, U) ELSE Append(Without(q, U), e)
    BY <2>1, WithoutMore
  <2>4. ToSet(Append(q, e)) = ToSet(q) \cup {e}
    BY <2>1, Members
  <2> QED
    BY <1>2, <2>1, <2>2, <2>3, <2>4
<1> HIDE DEF P
<1>3. P \in SUBSET Seq(T)
  BY DEF P
<1>4. s \in P
  BY <1>1, <1>2, <1>3, Growing
<1> QED
  BY <1>4 DEF P

LEMMA WithoutAll ==
  ASSUME NEW T, NEW s \in Seq(T), NEW S, ToSet(s) \subseteq S
  PROVE  Without(s, S) = <<>>
<1>1. Without(s, S) \in Seq(T)
  BY WithoutTyped
<1>3. ToSet(Without(s, S)) = {}
  BY WithoutMembers
<1>2. ASSUME Without(s, S) # <<>> PROVE FALSE
  <2>1. 1 \in DOMAIN Without(s, S)
    BY <1>1, <1>2
  <2> QED
    BY <1>3, <2>1 DEF ToSet
<1> QED
  BY <1>2

LEMMA WithoutTwice ==
  ASSUME NEW T, NEW s \in Seq(T), NEW S, NEW U
  PROVE  Without(Without(s, S), U) = Without(s, S \cup U)
<1> DEFINE P == {q \in Seq(T) : Without(Without(q, S), U) = Without(q, S \cup U)}
<1>1. <<>> \in P
  <2>1. <<>> \in Seq(T)
    OBVIOUS
  <2> QED
    BY <2>1, WithoutNothing
<1>2. ASSUME NEW q \in P, NEW e \in T PROVE Append(q, e) \in P
  <2>1. q \in Seq(T) /\ Append(q, e) \in Seq(T)
    BY <1>2
  <2>0. Without(q, S) \in Seq(T)
    BY <2>1, WithoutTyped
  <2>2. Without(Append(q, e), S) = IF e \in S THEN Without(q, S) ELSE Append(Without(q, S), e)
    BY <2>1, WithoutMore
  <2>3. Without(Append(Without(q, S), e), U) = IF e \in U THEN Without(Without(q, S), U) ELSE Append(Without(Without(q, S), U), e)
    <3>1. \A r \in Seq(T) : Without(Append(r, e), U) = IF e \in U THEN Without(r, U) ELSE Append(Without(r, U), e)
      BY WithoutMore
    <3> QED
      BY <2>0, <3>1
  <2>4. Without(Append(q, e), S \cup U) = IF e \in S \cup U THEN Without(q, S \cup U) ELSE Append(Without(q, S \cup U), e)
    BY <2>1, WithoutMore
  <2> QED
    BY <1>2, <2>1, <2>2, <2>3, <2>4
<1> HIDE DEF P
<1>3. P \in SUBSET Seq(T)
  BY DEF P
<1>4. s \in P
  BY <1>1, <1>2, <1>3, Growing
<1> QED
  BY <1>4 DEF P

-----------------------------------------------------------------------------
LEMMA TimesMore ==
  ASSUME NEW T, NEW s \in Seq(T), NEW e \in T, NEW m
  PROVE  /\ Times(m, <<>>) = 0
         /\ Times(m, s) \in Nat
         /\ Times(m, Append(s, e)) = Times(m, s) + IF e = m THEN 1 ELSE 0
<1> DEFINE A == {i \in DOMAIN s : s[i] = m}
           B == {i \in DOMAIN Append(s, e) : Append(s, e)[i] = m}
<1>1. Times(m, <<>>) = 0
  <2>1. {i \in DOMAIN <<>> : <<>>[i] = m} = {}
    OBVIOUS
  <2> QED
    BY <2>1, FS_EmptySet DEF Times
<1>2. IsFiniteSet(A) /\ Cardinality(A) \in Nat
  <2>1. IsFiniteSet(1..Len(s)) /\ A \subseteq 1..Len(s)
    BY FS_Interval
  <2>2. IsFiniteSet(A)
    BY ONLY <2>1, FS_Subset
  <2> QED
    BY ONLY <2>2, FS_CardinalityType
<1>3. B = IF e = m THEN A \cup {Len(s) + 1} ELSE A
  <2>1. /\ Append(s, e)[Len(s) + 1] = e /\ DOMAIN Append(s, e) = 1..(Len(s) + 1)
        /\ DOMAIN s = 1..Len(s) /\ Len(s) \in Nat
        /\ \A i \in 1..Len(s) : Append(s, e)[i] = s[i]
    OBVIOUS
  <2>2. \A i : i \in 1..(Len(s) + 1) <=> i \in 1..Len(s) \/ i = Len(s) + 1
    BY <2>1
  <2>3. Len(s) + 1 \notin 1..Len(s)
    BY <2>1
  <2> QED
    BY <2>1, <2>2, <2>3, Zenon
<1>4. Len(s) + 1 \notin A
  BY LenProperties
<1>5. Cardinality(A \cup {Len(s) + 1}) = Cardinality(A) + 1
  BY <1>2, <1>4, FS_AddElement
<1>6. Cardinality(B) = Cardinality(A) + IF e = m THEN 1 ELSE 0
  <2> HIDE DEF A, B
  <2> QED
    BY <1>2, <1>3, <1>5
<1> QED
  BY <1>1, <1>2, <1>6 DEF Times

LEMMA TimesBoth ==
  ASSUME NEW T, NEW s \in Seq(T), NEW t \in Seq(T), NEW m
  PROVE  Times(m, s \o t) = Times(m, s) + Times(m, t)
<1> DEFINE P == {q \in Seq(T) : Times(m, s \o q) = Times(m, s) + Times(m, q)}
<1>1. <<>> \in P
  <2>1. <<>> \in Seq(T) /\ s \o <<>> = s
    OBVIOUS
  <2>2. Times(m, <<>>) = 0
    BY EmptySeq, FS_EmptySet DEF Times
  <2>3. Times(m, s) \in Nat
    <3>1. T = {} => s = <<>>
      OBVIOUS
    <3> QED
      BY <2>2, <3>1, TimesMore
  <2> QED
    BY <2>1, <2>2, <2>3
<1>2. ASSUME NEW q \in P, NEW e \in T PROVE Append(q, e) \in P
  <2>1. q \in Seq(T) /\ Append(q, e) \in Seq(T) /\ s \o q \in Seq(T)
    BY <1>2
  <2>2. s \o Append(q, e) = Append(s \o q, e)
    BY <2>1
  <2>3. Times(m, Append(q, e)) = Times(m, q) + IF e = m THEN 1 ELSE 0
    BY <2>1, TimesMore
  <2>4. Times(m, Append(s \o q, e)) = Times(m, s \o q) + IF e = m THEN 1 ELSE 0
    BY ZenonT(60), <2>1, TimesMore
  <2>5. Times(m, s) \in Nat /\ Times(m, q) \in Nat
    BY <2>1, TimesMore
  <2>6. Times(m, s \o q) = Times(m, s) + Times(m, q)
    BY <1>2
  <2>7. Times(m, s \o Append(q, e)) = Times(m, s) + Times(m, Append(q, e))
    BY <2>2, <2>3, <2>4, <2>5, <2>6
  <2> QED
    BY <2>1, <2>7
<1> HIDE DEF P
<1>3. P \in SUBSET Seq(T)
  BY DEF P
<1>4. t \in P
  BY <1>1, <1>2, <1>3, Growing
<1> QED
  BY <1>4 DEF P

LEMMA TimesIn ==
  ASSUME NEW T, NEW s \in Seq(T), NEW m
  PROVE  Times(m, s) \in Nat /\ (Times(m, s) = 0 <=> m \notin ToSet(s))
<1> DEFINE A == {i \in DOMAIN s : s[i] = m}
<1>1. IsFiniteSet(A)
  <2>1. IsFiniteSet(1..Len(s)) /\ A \subseteq 1..Len(s)
    BY FS_Interval
  <2> QED
    BY ONLY <2>1, FS_Subset
<1>2. Cardinality(A) \in Nat /\ (Cardinality(A) = 0 <=> A = {})
  BY <1>1, FS_CardinalityType, FS_EmptySet
<1>3. A = {} <=> m \notin ToSet(s)
  BY DEF ToSet
<1> QED
  BY <1>2, <1>3 DEF Times

LEMMA TimesWithout ==
  ASSUME NEW T, NEW s \in Seq(T), NEW S, NEW m
  PROVE  Times(m, Without(s, S)) = IF m \in S THEN 0 ELSE Times(m, s)
<1> DEFINE P == {q \in Seq(T) : Times(m, Without(q, S)) = IF m \in S THEN 0 ELSE Times(m, q)}
<1>1. <<>> \in P
  <2>1. <<>> \in Seq(T) /\ ToSet(<<>>) = {}
    BY DEF ToSet
  <2>2. Times(m, <<>>) = 0
    BY <2>1, TimesIn
  <2> QED
    BY <2>1, <2>2, WithoutNothing
<1>2. ASSUME NEW q \in P, NEW e \in T PROVE Append(q, e) \in P
  <2>1. q \in Seq(T) /\ Append(q, e) \in Seq(T)
    BY <1>2
  <2>0. Without(q, S) \in Seq(T)
    BY <2>1, WithoutTyped
  <2>2. Without(Append(q, e), S) = IF e \in S THEN Without(q, S) ELSE Append(Without(q, S), e)
    BY <2>1, WithoutMore
  <2>3. Times(m, Append(q, e)) = Times(m, q) + IF e = m THEN 1 ELSE 0
    BY <2>1, TimesMore
  <2>4. Times(m, Append(Without(q, S), e)) = Times(m, Without(q, S)) + IF e = m THEN 1 ELSE 0
    BY <2>0, TimesMore
  <2>5. Times(m, q) \in Nat /\ Times(m, Without(q, S)) \in Nat
    BY <2>1, <2>0, TimesMore
  <2>6. Times(m, Without(q, S)) = IF m \in S THEN 0 ELSE Times(m, q)
    BY <1>2
  <2>7. Times(m, Without(Append(q, e), S)) = IF m \in S THEN 0 ELSE Times(m, Append(q, e))
    BY <2>2, <2>3, <2>4, <2>5, <2>6
  <2> QED
    BY <2>1, <2>7
<1> HIDE DEF P
<1>3. P \in SUBSET Seq(T)
  BY DEF P
<1>4. s \in P
  BY <1>1, <1>2, <1>3, Growing
<1> QED
  BY <1>4 DEF P

-----------------------------------------------------------------------------
LEMMA Ends ==
  ASSUME NEW T, NEW s \in Seq(T), s # <<>>
  PROVE  /\ Front(s) \in Seq(T) /\ Last(s) \in T /\ s = Append(Front(s), Last(s))
         /\ Head(s) \in T /\ Tail(s) \in Seq(T) /\ s = <<Head(s)>> \o Tail(s)
         /\ RestOf(s) = Tail(s) /\ FirstOf(s) = <<Head(s)>>
<1>1. PICK q \in Seq(T), e \in T : s = Append(q, e)
  BY SequenceEmptyOrAppend
<1>2. Front(s) = q /\ Last(s) = e
  <2>1. Len(s) = Len(q) + 1 /\ Len(q) \in Nat /\ s[Len(s)] = e
    BY <1>1
  <2>2. SubSeq(s, 1, Len(s) - 1) = q
    <3>1. (Len(q) + 1) - 1 = Len(q)
      BY <2>1
    <3> QED
      BY <1>1, <2>1, <3>1
  <2> QED
    BY <2>1, <2>2 DEF Front, Last
<1>3. RestOf(s) = Tail(s)
  BY TailIsSubSeq DEF RestOf
<1>4. FirstOf(s) = <<Head(s)>>
  <2>1. 1 \in 1..Len(s) /\ s[1] = Head(s) /\ s[1] \in T
    BY EmptySeq
  <2>2. SubSeq(s, 1, 1) = <<s[1]>> \o SubSeq(s, 2, 1)
    BY <2>1, SubSeqRecursiveFirst
  <2>3. SubSeq(s, 2, 1) = <<>> /\ <<s[1]>> \o <<>> = <<s[1]>>
    BY <2>1, SubSeqEmpty
  <2> QED
    BY <2>1, <2>2, <2>3 DEF FirstOf
<1>5. s = <<Head(s)>> \o Tail(s) /\ Head(s) \in T /\ Tail(s) \in Seq(T)
  OBVIOUS
<1> QED
  BY <1>1, <1>2, <1>3, <1>4, <1>5

LEMMA Parts ==
  ASSUME NEW T, NEW s \in Seq(T)
  PROVE  /\ FirstOf(s) \in Seq(T) /\ RestOf(s) \in Seq(T) /\ s = FirstOf(s) \o RestOf(s)
         /\ s = <<>> => FirstOf(s) = <<>>
<1>1. CASE s = <<>>
  <2>1. FirstOf(s) = <<>> /\ RestOf(s) = <<>>
    BY <1>1, SubSeqEmpty DEF FirstOf, RestOf
  <2>2. <<>> \in Seq(T) /\ <<>> \o <<>> = <<>>
    BY EmptySeq, ConcatEmptySeq
  <2> QED
    BY <1>1, <2>1, <2>2
<1>2. CASE s # <<>>
  <2>1. Head(s) \in T /\ Tail(s) \in Seq(T) /\ s = <<Head(s)>> \o Tail(s) /\ RestOf(s) = Tail(s) /\ FirstOf(s) = <<Head(s)>>
    BY <1>2, Ends
  <2> QED
    BY <1>2, <2>1
<1> QED
  BY <1>1, <1>2

LEMMA FirstAtIs ==
  ASSUME NEW T, NEW s \in Seq(T), NEW m \in ToSet(s)
  PROVE  /\ FirstAt(s, m) \in 1..Len(s) /\ s[FirstAt(s, m)] = m
         /\ \A i \in 1..(FirstAt(s, m) - 1) : s[i] # m
<1> DEFINE I == {i \in 1..Len(s) : s[i] = m}
<1>1. I # {} /\ I \in SUBSET Nat
  BY DEF ToSet
<1>2. PICK x \in I : \A d \in I : x <= d
  BY <1>1, Lowest
<1>3. FirstAt(s, m) = Min(I)
  BY <1>1 DEF FirstAt, SelectInSeq
<1>4. Min(I) \in I /\ \A d \in I : Min(I) <= d
  BY <1>2 DEF Min
<1>5. \A i \in 1..(FirstAt(s, m) - 1) : i \in 1..Len(s) /\ ~(FirstAt(s, m) <= i)
  BY <1>3, <1>4
<1> QED
  BY <1>3, <1>4, <1>5

LEMMA RemoveHead ==
  ASSUME NEW T, NEW s \in Seq(T), s # <<>>
  PROVE  RemoveFirst(s, Head(s)) = Tail(s)
<1>1. Len(s) \in Nat \ {0} /\ s[1] = Head(s)
  BY EmptySeq
<1>2. Head(s) \in ToSet(s)
  BY <1>1 DEF ToSet
<1>3. FirstAt(s, Head(s)) = 1
  <2>1. FirstAt(s, Head(s)) \in 1..Len(s) /\ \A i \in 1..(FirstAt(s, Head(s)) - 1) : s[i] # Head(s)
    BY <1>2, FirstAtIs
  <2> QED
    BY <1>1, <2>1
<1>4. RemoveFirst(s, Head(s)) = RemoveAt(s, 1)
  BY <1>1, <1>3 DEF RemoveFirst, FirstAt
<1>5. SubSeq(s, 1, 0) = <<>> /\ SubSeq(s, 2, Len(s)) = Tail(s) /\ Tail(s) \in Seq(T)
  BY SubSeqEmpty, TailIsSubSeq
<1>6. <<>> \o Tail(s) = Tail(s)
  BY <1>5
<1> QED
  BY <1>4, <1>5, <1>6 DEF RemoveAt

\* What a compaction does to the context: the inputs stay.
LEMMA AgedIs ==
  ASSUME NEW T, NEW s \in Seq(T), "stale" \in T, NEW S, "overflow" \in S, "stale" \in S
  PROVE  Aged(s) \in Seq(T) /\ Len(Aged(s)) = Len(s) /\ Without(Aged(s), S) = Without(s, S)
<1> DEFINE P == {q \in Seq(T) : Without(Aged(q), S) = Without(q, S)}
<1>0. \A q \in Seq(T) : Aged(q) \in Seq(T) /\ Len(Aged(q)) = Len(q)
  BY DEF Aged
<1>1. <<>> \in P
  <2>1. Aged(<<>>) = <<>> /\ <<>> \in Seq(T)
    BY DEF Aged
  <2> QED
    BY <2>1
<1>2. ASSUME NEW q \in P, NEW e \in T PROVE Append(q, e) \in P
  <2>1. q \in Seq(T) /\ Append(q, e) \in Seq(T) /\ Aged(q) \in Seq(T)
    BY <1>0, <1>2
  <2> DEFINE a == IF e = "overflow" THEN "stale" ELSE e
  <2>0. a \in T
    OBVIOUS
  <2> HIDE DEF a
  <2>2. Aged(Append(q, e)) = Append(Aged(q), a)
    <3>0. Len(Append(q, e)) = Len(q) + 1 /\ Len(q) \in Nat /\ Len(Aged(q)) = Len(q)
      BY <1>0, <2>1
    <3>1. Aged(Append(q, e)) \in Seq(T) /\ Len(Aged(Append(q, e))) = Len(q) + 1
      BY <1>0, <2>1, <3>0
    <3>2. Append(Aged(q), a) \in Seq(T) /\ Len(Append(Aged(q), a)) = Len(q) + 1
      BY <2>0, <2>1, <3>0, AppendProperties
    <3>3. ASSUME NEW i \in 1..(Len(q) + 1) PROVE Aged(Append(q, e))[i] = Append(Aged(q), a)[i]
      <4>1. CASE i = Len(q) + 1
        BY <2>0, <2>1, <3>0, <4>1, <1>0 DEF Aged, a
      <4>2. CASE i \in 1..Len(q)
        BY <2>0, <2>1, <3>0, <4>2, <1>0 DEF Aged, a
      <4>3. i = Len(q) + 1 \/ i \in 1..Len(q)
        BY <3>0
      <4> QED
        BY <4>1, <4>2, <4>3
    <3> QED
      BY <3>0, <3>1, <3>2, <3>3, SeqEqual
  <2>3. Without(Append(Aged(q), a), S) = IF a \in S THEN Without(Aged(q), S) ELSE Append(Without(Aged(q), S), a)
    <3>1. \A r \in Seq(T) : Without(Append(r, a), S) = IF a \in S THEN Without(r, S) ELSE Append(Without(r, S), a)
      BY <2>0, WithoutMore
    <3> QED
      BY <2>1, <3>1
  <2>4. Without(Append(q, e), S) = IF e \in S THEN Without(q, S) ELSE Append(Without(q, S), e)
    BY <2>1, WithoutMore
  <2> QED
    BY <1>2, <2>1, <2>2, <2>3, <2>4 DEF a
<1> HIDE DEF P
<1>3. P \in SUBSET Seq(T)
  BY DEF P
<1>4. s \in P
  BY <1>1, <1>2, <1>3, Growing
<1> QED
  BY <1>0, <1>4 DEF P

-----------------------------------------------------------------------------
Items == Inputs \cup Answers \cup Failures

\* Whose prompt a turn is, and what its task last heard.
Seated ==
  /\ pc = "idle" \/ current \in Texts
  /\ pc \in {"idle", "asked"} => drained = <<>>
  /\ pc = "answered" => /\ live # <<>> /\ Last(live) \in Assistant
                        /\ Last(live) \in Answers => tracker.committed = <<>>
  /\ cuts \in Nat /\ (cut = "prompt" => cuts > 0)

\* What the running turn still carries.
Carried ==
  /\ open # <<>> => pc \in {"build", "prompts", "closeout", "closing"}
  /\ todo # <<>> => pc \in {"build", "prompts", "feeding"}
  /\ storing => pc = "answered" \/ (pc \in {"prompts", "feeding"} /\ todo # <<>>)
  /\ pc = "build" => open = todo /\ (rerun \/ open # <<>>)
  /\ pc = "prompts" => open = IF storing THEN Tail(todo) ELSE todo
  /\ pc = "feeding" => todo \in Seq(Steers \cup FollowUps)

\* An abort the prompt answers to is flagged, and where it met the loop its cancel is on its way or
\* comes with the last of the prompt's inputs.
Stopping == stopped \in {"entry", "yes"} =>
  /\ abortReq
  /\ ~(pc = "build" /\ rerun)
  /\ pc \in Looping => cut # "none" \/ (before /\ pc = "prompts" /\ (open # <<>> \/ storing))

\* What the tracker points at is there.
Rooted ==
  /\ tracker.safe <= Len(path)
  /\ ToSet(tracker.committed) \subseteq ToSet(live)

Typed == TypeOK /\ Seated /\ Carried /\ Rooted

LEMMA StoppingKept ==
  ASSUME TypeOK, Seated, Carried, Stopping, Next
  PROVE  Stopping'
<1>1. CASE TurnAway
  BY <1>1 DEF TurnAway, context, queues, run, flags, tail, bounds, Stopping, Looping
<1>2. CASE Accept
  BY <1>2 DEF Accept, context, queues, run, flags, tail, bounds, Stopping, Looping
<1>3. CASE SetupFails
  BY <1>3 DEF SetupFails, context, queues, run, flags, tail, bounds, Stopping, Looping
<1>4. CASE FirstRun
  BY <1>4 DEF FirstRun, context, queues, run, flags, tail, bounds, Stopping, Looping
<1>5. CASE BuildFails
  BY <1>5 DEF BuildFails, context, queues, run, flags, tail, bounds, Stopping, Looping
<1>6. CASE StartLoop
  BY <1>6 DEF StartLoop, Carried, context, queues, run, flags, tail, bounds, Stopping, Looping
<1>7. CASE CommitInput
  BY <1>7 DEF CommitInput, context, queues, run, flags, tail, bounds, Stopping, Looping
<1>8. CASE StoreInput
  BY <1>8 DEF StoreInput, context, queues, run, flags, tail, bounds, Stopping, Looping
<1>9. CASE FirstSteer
  BY <1>9 DEF FirstSteer, TakeSteer, Carried, context, queues, run, flags, tail, bounds, Stopping,
     Looping
<1>10. CASE Request
  BY <1>10 DEF Request, context, queues, run, flags, tail, bounds, Stopping, Looping
<1>11. ASSUME NEW k \in {"ok", "tools", "retryable", "overflow", "fatal"}, Answer(k) PROVE Stopping'
  BY <1>11 DEF Answer, context, queues, run, flags, tail, bounds, Stopping, Looping
<1>12. CASE StoreAnswer
  BY <1>12 DEF StoreAnswer, context, queues, run, flags, tail, bounds, Stopping, Looping
<1>13. CASE ProviderRaises
  BY <1>13 DEF ProviderRaises, context, queues, run, flags, tail, bounds, Stopping, Looping
<1>14. CASE ToolsEnd
  BY <1>14 DEF ToolsEnd, context, queues, run, flags, tail, bounds, Stopping, Looping
<1>15. CASE TurnEnds
  BY <1>15 DEF TurnEnds, TakeSteer, context, queues, run, flags, tail, bounds, Stopping, Looping
<1>16. CASE RunReturns
  BY <1>16 DEF RunReturns, context, queues, run, flags, tail, bounds, Stopping, Looping
<1>17. CASE Unwind
  BY <1>17 DEF Unwind, context, queues, run, flags, tail, bounds, Stopping, Looping
<1>18. CASE Closeout
  BY <1>18 DEF Closeout, context, queues, run, flags, tail, bounds, Stopping, Looping
<1>19. CASE CloseoutCut
  BY <1>19 DEF CloseoutCut, context, queues, run, flags, tail, bounds, Stopping, Looping
<1>20. CASE CloseoutEnds
  BY <1>20 DEF CloseoutEnds, context, queues, run, flags, tail, bounds, Stopping, Looping
<1>21. CASE RetryStarts
  BY <1>21 DEF RetryStarts, context, queues, run, flags, tail, bounds, Stopping, Looping
<1>22. CASE RunsOver
  BY <1>22 DEF RunsOver, Onward, ToThreshold, context, queues, run, flags, tail, bounds, Stopping,
     Looping
<1>23. CASE Countdown
  BY <1>23 DEF Countdown, context, queues, run, flags, tail, bounds, Stopping, Looping
<1>24. CASE RetryRuns
  BY <1>24 DEF RetryRuns, Rerun, context, queues, run, flags, tail, bounds, Stopping, Looping
<1>25. CASE RetryStops
  BY <1>25 DEF RetryStops, Onward, ToThreshold, context, queues, run, flags, tail, bounds, Stopping,
     Looping
<1>26. CASE NoRecovery
  BY <1>26 DEF NoRecovery, Onward, ToThreshold, context, queues, run, flags, tail, bounds, Stopping,
     Looping
<1>27. CASE Recover
  BY <1>27 DEF Recover, context, queues, run, flags, tail, bounds, Stopping, Looping
<1>28. CASE CompactFails
  BY <1>28 DEF CompactFails, Onward, ToThreshold, context, queues, run, flags, tail, bounds, Stopping,
     Looping
<1>29. CASE CompactWrites
  BY <1>29 DEF CompactWrites, context, queues, run, flags, tail, bounds, Stopping, Looping
<1>30. CASE RecoveryRuns
  BY <1>30 DEF RecoveryRuns, Rerun, context, queues, run, flags, tail, bounds, Stopping, Looping
<1>31. CASE RecoveryStops
  BY <1>31 DEF RecoveryStops, Onward, ToThreshold, context, queues, run, flags, tail, bounds, Stopping,
     Looping
<1>32. CASE TailWithdraws
  BY <1>32 DEF TailWithdraws, context, queues, run, flags, tail, bounds, Stopping, Looping
<1>33. CASE NoThreshold
  BY <1>33 DEF NoThreshold, context, queues, run, flags, tail, bounds, Stopping, Looping
<1>34. CASE Threshold
  BY <1>34 DEF Threshold, context, queues, run, flags, tail, bounds, Stopping, Looping
<1>35. CASE ThresholdEnds
  BY <1>35 DEF ThresholdEnds, context, queues, run, flags, tail, bounds, Stopping, Looping
<1>36. CASE Raise
  BY <1>36 DEF Raise, context, queues, run, flags, tail, bounds, Stopping, Looping
<1>37. CASE Release
  BY <1>37 DEF Release, context, queues, run, flags, tail, bounds, Stopping, Looping
<1>38. CASE Idle
  BY <1>38 DEF Idle, context, queues, run, flags, tail, bounds, Stopping, Looping
<1>39. CASE CutTail
  BY <1>39 DEF CutTail, context, queues, run, flags, tail, bounds, Stopping, Looping
<1>40. CASE CutWithdraw
  BY <1>40 DEF CutWithdraw, context, queues, run, flags, tail, bounds, Stopping, Looping
<1>41. ASSUME NEW m \in scope.sent, Steer(m) PROVE Stopping'
  BY <1>41 DEF Steer, context, queues, run, flags, tail, bounds, Stopping, Looping
<1>42. ASSUME NEW m \in scope.sent, FollowUp(m) PROVE Stopping'
  BY <1>42 DEF FollowUp, context, queues, run, flags, tail, bounds, Stopping, Looping
<1>43. ASSUME NEW m \in scope.sent, NextTurn(m) PROVE Stopping'
  BY <1>43 DEF NextTurn, context, queues, run, flags, tail, bounds, Stopping, Looping
<1>44. ASSUME NEW m \in scope.sent, Prompt(m) PROVE Stopping'
  BY <1>44 DEF Prompt, context, queues, run, flags, tail, bounds, Stopping, Looping
<1>45. ASSUME NEW w \in BOOLEAN, Abort(w) PROVE Stopping'
  BY <1>45 DEF Abort, context, queues, run, flags, tail, bounds, Stopping, Looping
<1>46. ASSUME NEW w \in BOOLEAN, AbortRetry(w) PROVE Stopping'
  BY <1>46 DEF AbortRetry, context, queues, run, flags, tail, bounds, Stopping, Looping
<1>47. CASE CtxAbort
  BY <1>47 DEF CtxAbort, context, queues, run, flags, tail, bounds, Stopping, Looping
<1>48. CASE CancelPrompt
  BY <1>48 DEF CancelPrompt, context, queues, run, flags, tail, bounds, Stopping, Looping
<1> QED
  BY <1>1, <1>2, <1>3, <1>4, <1>5, <1>6, <1>7, <1>8, <1>9, <1>10, <1>11, <1>12, <1>13, <1>14, <1>15,
     <1>16, <1>17, <1>18, <1>19, <1>20, <1>21, <1>22, <1>23, <1>24, <1>25, <1>26, <1>27, <1>28, <1>29,
     <1>30, <1>31, <1>32, <1>33, <1>34, <1>35, <1>36, <1>37, <1>38, <1>39, <1>40, <1>41, <1>42, <1>43,
     <1>44, <1>45, <1>46, <1>47, <1>48 DEF Next, Turn, TailStep, Callers

LEMMA CarriedKept ==
  ASSUME TypeOK, Seated, Carried, Next
  PROVE  Carried'
<1>1. CASE TurnAway
  BY <1>1 DEF TurnAway, context, queues, run, flags, tail, bounds, Carried, TypeOK, Looping
<1>2. CASE Accept
  BY <1>2 DEF Accept, context, queues, run, flags, tail, bounds, Carried, TypeOK, Looping
<1>3. CASE SetupFails
  BY <1>3 DEF SetupFails, context, queues, run, flags, tail, bounds, Carried, TypeOK, Looping
<1>4. CASE FirstRun
  BY <1>4 DEF FirstRun, context, queues, run, flags, tail, bounds, Carried, TypeOK, Looping
<1>5. CASE BuildFails
  BY <1>5 DEF BuildFails, context, queues, run, flags, tail, bounds, Carried, TypeOK, Looping
<1>6. CASE StartLoop
  BY <1>6 DEF StartLoop, context, queues, run, flags, tail, bounds, Carried, TypeOK, Looping
<1>7. CASE CommitInput
  <2>1. CASE pc = "prompts"
    <3>1. open = todo /\ todo # <<>> /\ todo \in Seq(Inputs)
      BY <1>7, <2>1 DEF CommitInput, Carried, TypeOK
    <3>2. open' = Tail(todo)
      BY <1>7, <3>1, RemoveHead DEF CommitInput
    <3> QED
      BY <1>7, <2>1, <3>1, <3>2 DEF CommitInput, Carried
  <2>2. CASE pc = "feeding"
    <3>1. open = <<>> /\ open' = <<>>
      BY <1>7, <2>2 DEF CommitInput, Carried, RemoveFirst
    <3> QED
      BY <1>7, <2>2, <3>1 DEF CommitInput, Carried
  <2> QED
    BY <1>7, <2>1, <2>2 DEF CommitInput
<1>8. CASE StoreInput
  BY <1>8 DEF StoreInput, context, queues, run, flags, tail, bounds, Carried, TypeOK, Looping
<1>9. CASE FirstSteer
  <2>1. todo' \in Seq(Steers)
    BY <1>9, Parts DEF FirstSteer, TakeSteer, TypeOK
  <2>2. todo' \in Seq(Steers \cup FollowUps)
    BY <2>1
  <2> QED
    BY <1>9, <2>2 DEF FirstSteer, Carried
<1>10. CASE Request
  BY <1>10 DEF Request, context, queues, run, flags, tail, bounds, Carried, TypeOK, Looping
<1>11. ASSUME NEW k \in {"ok", "tools", "retryable", "overflow", "fatal"}, Answer(k) PROVE Carried'
  BY <1>11 DEF Answer, context, queues, run, flags, tail, bounds, Carried, TypeOK, Looping
<1>12. CASE StoreAnswer
  BY <1>12 DEF StoreAnswer, context, queues, run, flags, tail, bounds, Carried, TypeOK, Looping
<1>13. CASE ProviderRaises
  BY <1>13 DEF ProviderRaises, context, queues, run, flags, tail, bounds, Carried, TypeOK, Looping
<1>14. CASE ToolsEnd
  BY <1>14 DEF ToolsEnd, context, queues, run, flags, tail, bounds, Carried, TypeOK, Looping
<1>15. CASE TurnEnds
  <2>1. CASE TakeSteer /\ pc' = "feeding"
    <3>1. todo' \in Seq(Steers)
      BY <2>1, Parts DEF TakeSteer, TypeOK
    <3>2. todo' \in Seq(Steers \cup FollowUps)
      BY <3>1
    <3> QED
      BY <1>15, <2>1, <3>2 DEF TurnEnds, Carried
  <2>2. CASE todo' = FirstOf(followQ) /\ pc' = IF followQ = <<>> THEN "ended" ELSE "feeding"
    <3>1. todo' \in Seq(FollowUps) /\ (followQ = <<>> => todo' = <<>>)
      BY <2>2, Parts DEF TypeOK
    <3>2. todo' \in Seq(Steers \cup FollowUps)
      BY <3>1
    <3> QED
      BY <1>15, <2>2, <3>1, <3>2 DEF TurnEnds, Carried
  <2> QED
    BY <1>15, <2>1, <2>2 DEF TurnEnds
<1>16. CASE RunReturns
  BY <1>16 DEF RunReturns, context, queues, run, flags, tail, bounds, Carried, TypeOK, Looping
<1>17. CASE Unwind
  BY <1>17 DEF Unwind, context, queues, run, flags, tail, bounds, Carried, TypeOK, Looping
<1>18. CASE Closeout
  BY <1>18 DEF Closeout, Withdraw, Keep, context, queues, run, flags, tail, bounds, Carried, TypeOK,
     Looping
<1>19. CASE CloseoutCut
  BY <1>19 DEF CloseoutCut, WithdrawCut, context, queues, run, flags, tail, bounds, Carried, TypeOK,
     Looping
<1>20. CASE CloseoutEnds
  BY <1>20 DEF CloseoutEnds, context, queues, run, flags, tail, bounds, Carried, TypeOK, Looping
<1>21. CASE RetryStarts
  BY <1>21 DEF RetryStarts, context, queues, run, flags, tail, bounds, Carried, TypeOK, Looping
<1>22. CASE RunsOver
  BY <1>22 DEF RunsOver, Onward, ToThreshold, context, queues, run, flags, tail, bounds, Carried,
     TypeOK, Looping
<1>23. CASE Countdown
  BY <1>23 DEF Countdown, context, queues, run, flags, tail, bounds, Carried, TypeOK, Looping
<1>24. CASE RetryRuns
  BY <1>24 DEF RetryRuns, Rerun, context, queues, run, flags, tail, bounds, Carried, TypeOK, Looping
<1>25. CASE RetryStops
  BY <1>25 DEF RetryStops, Onward, ToThreshold, context, queues, run, flags, tail, bounds, Carried,
     TypeOK, Looping
<1>26. CASE NoRecovery
  BY <1>26 DEF NoRecovery, Onward, ToThreshold, context, queues, run, flags, tail, bounds, Carried,
     TypeOK, Looping
<1>27. CASE Recover
  BY <1>27 DEF Recover, context, queues, run, flags, tail, bounds, Carried, TypeOK, Looping
<1>28. CASE CompactFails
  BY <1>28 DEF CompactFails, Onward, ToThreshold, context, queues, run, flags, tail, bounds, Carried,
     TypeOK, Looping
<1>29. CASE CompactWrites
  BY <1>29 DEF CompactWrites, context, queues, run, flags, tail, bounds, Carried, TypeOK, Looping
<1>30. CASE RecoveryRuns
  BY <1>30 DEF RecoveryRuns, Rerun, context, queues, run, flags, tail, bounds, Carried, TypeOK, Looping
<1>31. CASE RecoveryStops
  BY <1>31 DEF RecoveryStops, Onward, ToThreshold, context, queues, run, flags, tail, bounds, Carried,
     TypeOK, Looping
<1>32. CASE TailWithdraws
  BY <1>32 DEF TailWithdraws, Withdraw, context, queues, run, flags, tail, bounds, Carried, TypeOK,
     Looping
<1>33. CASE NoThreshold
  BY <1>33 DEF NoThreshold, context, queues, run, flags, tail, bounds, Carried, TypeOK, Looping
<1>34. CASE Threshold
  BY <1>34 DEF Threshold, context, queues, run, flags, tail, bounds, Carried, TypeOK, Looping
<1>35. CASE ThresholdEnds
  BY <1>35 DEF ThresholdEnds, context, queues, run, flags, tail, bounds, Carried, TypeOK, Looping
<1>36. CASE Raise
  BY <1>36 DEF Raise, context, queues, run, flags, tail, bounds, Carried, TypeOK, Looping
<1>37. CASE Release
  BY <1>37 DEF Release, Withdraw, WithdrawCut, Keep, context, queues, run, flags, tail, bounds,
     Carried, TypeOK, Looping
<1>38. CASE Idle
  BY <1>38 DEF Idle, context, queues, run, flags, tail, bounds, Carried, TypeOK, Looping
<1>39. CASE CutTail
  BY <1>39 DEF CutTail, context, queues, run, flags, tail, bounds, Carried, TypeOK, Looping
<1>40. CASE CutWithdraw
  BY <1>40 DEF CutWithdraw, WithdrawCut, context, queues, run, flags, tail, bounds, Carried, TypeOK,
     Looping
<1>41. ASSUME NEW m \in scope.sent, Steer(m) PROVE Carried'
  BY <1>41 DEF Steer, context, queues, run, flags, tail, bounds, Carried, TypeOK, Looping
<1>42. ASSUME NEW m \in scope.sent, FollowUp(m) PROVE Carried'
  BY <1>42 DEF FollowUp, context, queues, run, flags, tail, bounds, Carried, TypeOK, Looping
<1>43. ASSUME NEW m \in scope.sent, NextTurn(m) PROVE Carried'
  BY <1>43 DEF NextTurn, context, queues, run, flags, tail, bounds, Carried, TypeOK, Looping
<1>44. ASSUME NEW m \in scope.sent, Prompt(m) PROVE Carried'
  BY <1>44 DEF Prompt, context, queues, run, flags, tail, bounds, Carried, TypeOK, Looping
<1>45. ASSUME NEW w \in BOOLEAN, Abort(w) PROVE Carried'
  BY <1>45 DEF Abort, context, queues, run, flags, tail, bounds, Carried, TypeOK, Looping
<1>46. ASSUME NEW w \in BOOLEAN, AbortRetry(w) PROVE Carried'
  BY <1>46 DEF AbortRetry, context, queues, run, flags, tail, bounds, Carried, TypeOK, Looping
<1>47. CASE CtxAbort
  BY <1>47 DEF CtxAbort, context, queues, run, flags, tail, bounds, Carried, TypeOK, Looping
<1>48. CASE CancelPrompt
  BY <1>48 DEF CancelPrompt, context, queues, run, flags, tail, bounds, Carried, TypeOK, Looping
<1> QED
  BY <1>1, <1>2, <1>3, <1>4, <1>5, <1>6, <1>7, <1>8, <1>9, <1>10, <1>11, <1>12, <1>13, <1>14, <1>15,
     <1>16, <1>17, <1>18, <1>19, <1>20, <1>21, <1>22, <1>23, <1>24, <1>25, <1>26, <1>27, <1>28, <1>29,
     <1>30, <1>31, <1>32, <1>33, <1>34, <1>35, <1>36, <1>37, <1>38, <1>39, <1>40, <1>41, <1>42, <1>43,
     <1>44, <1>45, <1>46, <1>47, <1>48 DEF Next, Turn, TailStep, Callers

-----------------------------------------------------------------------------
\* t is s but for one message at its end that is no input.
Nudged(s, t) ==
  /\ t \in Seq(Items)
  /\ s = t \/ \E k \in Answers \cup Failures : t = Append(s, k) \/ s = Append(t, k)

\* The tracker as it was, or with nothing the model has not answered.
Eased ==
  /\ tracker' \in [on : BOOLEAN, committed : Seq(Inputs), safe : Nat]
  /\ tracker' = tracker \/ (tracker'.committed = <<>> /\ tracker'.safe <= Len(path'))

\* A step that adds and takes no input.
Quiet ==
  /\ Nudged(live, live') /\ Eased
  /\ astray' = astray \/ (Unwind /\ astray \subseteq astray')
  /\ path' = path \/ \E k \in Answers \cup Failures : path' = Append(path, k)

Compacting == Compacted /\ astray' = astray /\ pc \in {"compacting", "thresholding"}

Withdrawing == (Withdraw \/ WithdrawCut) /\ pc \in {"closeout", "withdraw", "release"}

LEMMA PoppedIs ==
  ASSUME NEW s \in Seq(Items)
  PROVE  Nudged(s, Popped(s))
<1>1. CASE s # <<>> /\ Last(s) \in Assistant
  <2>1. Front(s) \in Seq(Items) /\ s = Append(Front(s), Last(s))
    BY <1>1, Ends
  <2> QED
    BY <1>1, <2>1 DEF Popped, Nudged, Assistant
<1>2. CASE ~(s # <<>> /\ Last(s) \in Assistant)
  BY <1>2 DEF Popped, Nudged
<1> QED
  BY <1>1, <1>2

LEMMA SaidIs ==
  ASSUME NEW s \in Seq(Items), NEW k \in Answers \cup Failures
  PROVE  Nudged(s, Append(s, k)) /\ Nudged(s, PutBack(s, "overflow")) /\ Nudged(s, PutBack(s, "stale"))
<1>1. \A a \in Answers \cup Failures : Append(s, a) \in Seq(Items) /\ Nudged(s, Append(s, a))
  BY DEF Nudged, Items
<1>2. "overflow" \in Failures /\ "stale" \in Failures /\ Nudged(s, s)
  BY DEF Failures, Nudged
<1> QED
  BY <1>1, <1>2 DEF PutBack

Trackers == [on : BOOLEAN, committed : Seq(Inputs), safe : Nat]

LEMMA TrackerIs ==
  ASSUME TypeOK
  PROVE  /\ \A k \in Answers : Committed(k) = [on |-> tracker.on, committed |-> <<>>, safe |-> tracker.safe]
         /\ \A k \in Inputs : Committed(k) =
              [on |-> tracker.on, committed |-> IF tracker.on THEN Append(tracker.committed, k) ELSE tracker.committed,
               safe |-> tracker.safe]
         /\ \A k \in Failures : Committed(k) = tracker
         /\ \A t \in Trackers : \A p : Safe(t, p) =
              [on |-> t.on, committed |-> t.committed, safe |-> IF t.on THEN Len(p) ELSE t.safe]
         /\ tracker \in Trackers
         /\ \A p : Safe(Committed("result"), p) =
              [on |-> tracker.on, committed |-> <<>>, safe |-> IF tracker.on THEN Len(p) ELSE tracker.safe]
<1>1. tracker \in Trackers /\ Inputs \cap Answers = {} /\ Inputs \cap Failures = {} /\ Answers \cap Failures = {}
  BY InputsAssumption DEF TypeOK, Trackers, Answers, Failures
<1>2. tracker = [on |-> tracker.on, committed |-> tracker.committed, safe |-> tracker.safe]
  BY <1>1 DEF Trackers
<1>3. \A k \in Answers : Committed(k) = [on |-> tracker.on, committed |-> <<>>, safe |-> tracker.safe]
  BY <1>1, <1>2 DEF Committed, Trackers
<1>4. \A k \in Inputs : Committed(k) =
        [on |-> tracker.on, committed |-> IF tracker.on THEN Append(tracker.committed, k) ELSE tracker.committed,
         safe |-> tracker.safe]
  BY SMTT(60), <1>1, <1>2 DEF Committed, Trackers
<1>5. \A k \in Failures : Committed(k) = tracker
  BY <1>1, <1>2 DEF Committed, Trackers
<1>6. \A t \in Trackers : \A p : Safe(t, p) =
        [on |-> t.on, committed |-> t.committed, safe |-> IF t.on THEN Len(p) ELSE t.safe]
  BY DEF Safe, Trackers
<1>7. \A p : Safe(Committed("result"), p) =
        [on |-> tracker.on, committed |-> <<>>, safe |-> IF tracker.on THEN Len(p) ELSE tracker.safe]
  <2>1. tracker.on \in BOOLEAN /\ tracker.safe \in Nat
    BY <1>1 DEF Trackers
  <2>2. [on |-> tracker.on, committed |-> <<>>, safe |-> tracker.safe] \in Trackers
    BY <2>1, EmptySeq DEF Trackers
  <2>3. Committed("result") = [on |-> tracker.on, committed |-> <<>>, safe |-> tracker.safe]
    BY <1>3 DEF Answers
  <2> QED
    BY <1>6, <2>2, <2>3
<1> QED
  BY <1>1, <1>3, <1>4, <1>5, <1>6, <1>7

LEMMA ContextSteps ==
  ASSUME Typed, Next
  PROVE  Quiet \/ CommitInput \/ StoreInput \/ Compacting \/ Withdrawing
<1>1. CASE TurnAway
  BY <1>1 DEF TurnAway, context, Quiet, Nudged, Eased, Typed, TypeOK, Items
<1>2. CASE Accept
  BY <1>2 DEF Accept, context, Quiet, Nudged, Eased, Typed, TypeOK, Items
<1>3. CASE SetupFails
  BY <1>3 DEF SetupFails, context, Quiet, Nudged, Eased, Typed, TypeOK, Items
<1>4. CASE FirstRun
  <2>1. path' = path /\ Len(path) \in Nat /\ <<>> \in Seq(Inputs)
    BY <1>4, EmptySeq DEF FirstRun, Typed, TypeOK, context
  <2>2. Eased
    BY <1>4, <2>1 DEF FirstRun, Eased
  <2> QED
    BY <1>4, <2>1, <2>2 DEF FirstRun, Quiet, Nudged, Typed, TypeOK, Items, context
<1>5. CASE BuildFails
  BY <1>5 DEF BuildFails, context, Quiet, Nudged, Eased, Typed, TypeOK, Items
<1>6. CASE StartLoop
  BY <1>6 DEF StartLoop, context, Quiet, Nudged, Eased, Typed, TypeOK, Items
<1>7. CASE CommitInput
  BY <1>7
<1>8. CASE StoreInput
  BY <1>8
<1>9. CASE FirstSteer
  BY <1>9 DEF FirstSteer, TakeSteer, context, Quiet, Nudged, Eased, Typed, TypeOK, Items
<1>10. CASE Request
  BY <1>10 DEF Request, context, Quiet, Nudged, Eased, Typed, TypeOK, Items
<1>11. ASSUME NEW k \in {"ok", "tools", "retryable", "overflow", "fatal"}, Answer(k) PROVE Quiet \/ CommitInput \/ StoreInput \/ Compacting \/ Withdrawing
  <2>1. live \in Seq(Items) /\ k \in Answers \cup Failures /\ k \notin Inputs
    BY InputsAssumption DEF Typed, TypeOK, Items, Answers, Failures
  <2>2. Nudged(live, live')
    BY <1>11, <2>1, SaidIs DEF Answer
  <2>3. Eased
    BY <1>11, <2>1, EmptySeq DEF Answer, Committed, Eased, Typed, TypeOK, Rooted
  <2> QED
    BY <1>11, <2>2, <2>3 DEF Answer, Quiet
<1>12. CASE StoreAnswer
  <2>1. Last(live) \in Answers \cup Failures /\ path \in Seq(Items) /\ Last(live) \in Items
    BY <1>12 DEF StoreAnswer, Typed, Seated, Assistant, TypeOK, Items
  <2>2. Nudged(live, live')
    BY <1>12 DEF StoreAnswer, Nudged, Typed, TypeOK, Items
  <2>3. path' = path \/ path' = Append(path, Last(live))
    BY <1>12 DEF StoreAnswer
  <2>4. Len(path') \in Nat
    BY <2>1, <2>3
  <2>5. Eased
    <3>1. TypeOK /\ tracker \in Trackers /\ Len(path) \in Nat
      BY <2>1 DEF Typed, TypeOK, Trackers
    <3>2. CASE tracker' = tracker
      BY <3>1, <3>2 DEF Eased, Trackers
    <3>3. CASE Last(live) \in Answers /\ path' = Append(path, Last(live)) /\ tracker' = Safe(tracker, path')
      <4>1. tracker' = [on |-> tracker.on, committed |-> tracker.committed, safe |-> IF tracker.on THEN Len(path') ELSE tracker.safe]
        BY <3>1, <3>3, TrackerIs
      <4>2. tracker.committed = <<>>
        BY <1>12, <3>3 DEF StoreAnswer, Typed, Seated
      <4>3. tracker.safe <= Len(path) /\ tracker.safe \in Nat /\ Len(path') = Len(path) + 1
        BY <2>1, <3>1, <3>3 DEF Typed, Rooted, Trackers
      <4> QED
        BY <2>4, <3>1, <4>1, <4>2, <4>3 DEF Eased, Trackers
    <3> QED
      BY <1>12, <3>2, <3>3 DEF StoreAnswer
  <2> QED
    BY <1>12, <2>1, <2>2, <2>3, <2>5 DEF StoreAnswer, Quiet
<1>13. CASE ProviderRaises
  <2>1. live \in Seq(Items)
    BY DEF Typed, TypeOK, Items
  <2> QED
    BY <1>13, <2>1, SaidIs DEF ProviderRaises, Failures, Quiet, Eased, Typed, TypeOK, context
<1>14. CASE ToolsEnd
  <2>1. live' = Append(live, "result") /\ path' = Append(path, "result") /\ tracker' = Safe(Committed("result"), path')
    BY <1>14 DEF ToolsEnd
  <2>2. Quiet
    <3>1. "result" \in Answers /\ live \in Seq(Items) /\ path \in Seq(Items) /\ "result" \in Items
      BY DEF Answers, Typed, TypeOK, Items
    <3>2. Len(path') \in Nat
      BY <2>1, <3>1
    <3>3. Eased
      <4>1. TypeOK /\ tracker \in Trackers
        BY TrackerIs DEF Typed
      <4>2. Len(path) \in Nat /\ Len(path') = Len(path) + 1
        BY <2>1, <3>1
      <4>4. tracker' = [on |-> tracker.on, committed |-> <<>>, safe |-> IF tracker.on THEN Len(path') ELSE tracker.safe]
        BY <2>1, <4>1, TrackerIs
      <4>5. tracker.safe <= Len(path) /\ tracker.safe \in Nat
        BY <4>1 DEF Typed, Rooted, Trackers
      <4> QED
        BY <3>2, <4>1, <4>2, <4>4, <4>5, EmptySeq DEF Eased, Trackers
    <3>4. Nudged(live, live')
      BY <2>1, <3>1, SaidIs
    <3> QED
      BY <1>14, <2>1, <3>1, <3>3, <3>4 DEF ToolsEnd, Quiet
  <2> QED
    BY <2>2
<1>15. CASE TurnEnds
  BY <1>15 DEF TurnEnds, TakeSteer, context, Quiet, Nudged, Eased, Typed, TypeOK, Items
<1>16. CASE RunReturns
  BY <1>16 DEF RunReturns, context, Quiet, Nudged, Eased, Typed, TypeOK, Items
<1>17. CASE Unwind
  <2>0. astray \subseteq astray'
    BY <1>17 DEF Unwind
  <2>1. CASE live' = Append(live, "result") /\ path' = Append(path, "result") /\ tracker' = Safe(Committed("result"), path')
    <3>1. "result" \in Answers /\ live \in Seq(Items) /\ path \in Seq(Items) /\ "result" \in Items
      BY DEF Answers, Typed, TypeOK, Items
    <3>2. Len(path') \in Nat
      BY <2>1, <3>1
    <3>3. Eased
      <4>1. TypeOK /\ tracker \in Trackers
        BY TrackerIs DEF Typed
      <4>2. Len(path) \in Nat /\ Len(path') = Len(path) + 1
        BY <2>1, <3>1
      <4>4. tracker' = [on |-> tracker.on, committed |-> <<>>, safe |-> IF tracker.on THEN Len(path') ELSE tracker.safe]
        BY <2>1, <4>1, TrackerIs
      <4>5. tracker.safe <= Len(path) /\ tracker.safe \in Nat
        BY <4>1 DEF Typed, Rooted, Trackers
      <4> QED
        BY <3>2, <4>1, <4>2, <4>4, <4>5, EmptySeq DEF Eased, Trackers
    <3>4. Nudged(live, live')
      BY <2>1, <3>1, SaidIs
    <3> QED
      BY <1>17, <2>0, <2>1, <3>1, <3>3, <3>4 DEF Quiet
  <2>2. CASE UNCHANGED <<live, path, tracker>>
    BY <1>17, <2>0, <2>2 DEF Quiet, Nudged, Eased, Typed, TypeOK, Items
  <2> QED
    BY <1>17, <2>1, <2>2 DEF Unwind
<1>18. CASE Closeout
  BY <1>18 DEF Closeout, Withdrawing, Keep, Quiet, Eased, Nudged, Typed, TypeOK, Items, context
<1>19. CASE CloseoutCut
  BY <1>19 DEF CloseoutCut, Withdrawing
<1>20. CASE CloseoutEnds
  <2>1. live \in Seq(Items)
    BY DEF Typed, TypeOK, Items
  <2> QED
    BY <1>20, <2>1, SaidIs DEF CloseoutEnds, Failures, Quiet, Eased, Typed, TypeOK, context
<1>21. CASE RetryStarts
  BY <1>21 DEF RetryStarts, context, Quiet, Nudged, Eased, Typed, TypeOK, Items
<1>22. CASE RunsOver
  BY <1>22 DEF RunsOver, context, Quiet, Nudged, Eased, Typed, TypeOK, Items
<1>23. CASE Countdown
  <2>1. live \in Seq(Items)
    BY DEF Typed, TypeOK, Items
  <2> QED
    BY <1>23, <2>1, PoppedIs DEF Countdown, Quiet, Eased, Typed, TypeOK, context
<1>24. CASE RetryRuns
  BY <1>24 DEF RetryRuns, Rerun, context, Quiet, Nudged, Eased, Typed, TypeOK, Items
<1>25. CASE RetryStops
  BY <1>25 DEF RetryStops, context, Quiet, Nudged, Eased, Typed, TypeOK, Items
<1>26. CASE NoRecovery
  BY <1>26 DEF NoRecovery, context, Quiet, Nudged, Eased, Typed, TypeOK, Items
<1>27. CASE Recover
  <2>1. live \in Seq(Items)
    BY DEF Typed, TypeOK, Items
  <2> QED
    BY <1>27, <2>1, PoppedIs DEF Recover, Quiet, Eased, Typed, TypeOK, context
<1>28. CASE CompactFails
  <2>1. live \in Seq(Items)
    BY DEF Typed, TypeOK, Items
  <2> QED
    BY <1>28, <2>1, SaidIs DEF CompactFails, Answers, Quiet, Eased, Typed, TypeOK, context
<1>29. CASE CompactWrites
  BY <1>29 DEF CompactWrites, Compacting
<1>30. CASE RecoveryRuns
  <2>1. live \in Seq(Items)
    BY DEF Typed, TypeOK, Items
  <2>2. Nudged(live, live')
    <3>1. CASE live # <<>> /\ Last(live) = "stale"
      <4>1. Front(live) \in Seq(Items) /\ live = Append(Front(live), "stale") /\ "stale" \in Failures
        BY <2>1, <3>1, Ends DEF Failures
      <4> QED
        BY <1>30, <3>1, <4>1 DEF RecoveryRuns, Nudged
    <3>2. CASE ~(live # <<>> /\ Last(live) = "stale")
      BY <1>30, <2>1, <3>2 DEF RecoveryRuns, Nudged
    <3> QED
      BY <3>1, <3>2
  <2> QED
    BY <1>30, <2>2 DEF RecoveryRuns, Quiet, Eased, Typed, TypeOK
<1>31. CASE RecoveryStops
  <2>1. live \in Seq(Items)
    BY DEF Typed, TypeOK, Items
  <2> QED
    BY <1>31, <2>1, SaidIs DEF RecoveryStops, Answers, Quiet, Eased, Typed, TypeOK, context
<1>32. CASE TailWithdraws
  BY <1>32 DEF TailWithdraws, Withdrawing
<1>33. CASE NoThreshold
  BY <1>33 DEF NoThreshold, context, Quiet, Nudged, Eased, Typed, TypeOK, Items
<1>34. CASE Threshold
  BY <1>34 DEF Threshold, context, Quiet, Nudged, Eased, Typed, TypeOK, Items
<1>35. CASE ThresholdEnds
  BY <1>35 DEF ThresholdEnds, Compacting, Quiet, Eased, Nudged, Typed, TypeOK, Items
<1>36. CASE Raise
  BY <1>36 DEF Raise, context, Quiet, Nudged, Eased, Typed, TypeOK, Items
<1>37. CASE Release
  BY <1>37 DEF Release, Withdrawing, Keep, Quiet, Eased, Nudged, Typed, TypeOK, Items, context
<1>38. CASE Idle
  <2>1. path' = path /\ Len(path) \in Nat /\ <<>> \in Seq(Inputs)
    BY <1>38, EmptySeq DEF Idle, Typed, TypeOK, context
  <2>2. Eased
    BY <1>38, <2>1 DEF Idle, Eased, NoTracker
  <2> QED
    BY <1>38, <2>1, <2>2 DEF Idle, Quiet, Nudged, Typed, TypeOK, Items, context
<1>39. CASE CutTail
  <2>1. live \in Seq(Items)
    BY DEF Typed, TypeOK, Items
  <2> QED
    BY <1>39, <2>1, SaidIs DEF CutTail, Answers, Quiet, Eased, Typed, TypeOK, context
<1>40. CASE CutWithdraw
  BY <1>40 DEF CutWithdraw, Withdrawing
<1>41. ASSUME NEW m \in scope.sent, Steer(m) PROVE Quiet \/ CommitInput \/ StoreInput \/ Compacting \/ Withdrawing
  BY <1>41 DEF Steer, context, Quiet, Nudged, Eased, Typed, TypeOK, Items
<1>42. ASSUME NEW m \in scope.sent, FollowUp(m) PROVE Quiet \/ CommitInput \/ StoreInput \/ Compacting \/ Withdrawing
  BY <1>42 DEF FollowUp, context, Quiet, Nudged, Eased, Typed, TypeOK, Items
<1>43. ASSUME NEW m \in scope.sent, NextTurn(m) PROVE Quiet \/ CommitInput \/ StoreInput \/ Compacting \/ Withdrawing
  BY <1>43 DEF NextTurn, context, Quiet, Nudged, Eased, Typed, TypeOK, Items
<1>44. ASSUME NEW m \in scope.sent, Prompt(m) PROVE Quiet \/ CommitInput \/ StoreInput \/ Compacting \/ Withdrawing
  BY <1>44 DEF Prompt, context, Quiet, Nudged, Eased, Typed, TypeOK, Items
<1>45. ASSUME NEW w \in BOOLEAN, Abort(w) PROVE Quiet \/ CommitInput \/ StoreInput \/ Compacting \/ Withdrawing
  BY <1>45 DEF Abort, context, Quiet, Nudged, Eased, Typed, TypeOK, Items
<1>46. ASSUME NEW w \in BOOLEAN, AbortRetry(w) PROVE Quiet \/ CommitInput \/ StoreInput \/ Compacting \/ Withdrawing
  BY <1>46 DEF AbortRetry, context, Quiet, Nudged, Eased, Typed, TypeOK, Items
<1>47. CASE CtxAbort
  BY <1>47 DEF CtxAbort, context, Quiet, Nudged, Eased, Typed, TypeOK, Items
<1>48. CASE CancelPrompt
  BY <1>48 DEF CancelPrompt, context, Quiet, Nudged, Eased, Typed, TypeOK, Items
<1> QED
  BY <1>1, <1>2, <1>3, <1>4, <1>5, <1>6, <1>7, <1>8, <1>9, <1>10, <1>11, <1>12, <1>13, <1>14, <1>15,
     <1>16, <1>17, <1>18, <1>19, <1>20, <1>21, <1>22, <1>23, <1>24, <1>25, <1>26, <1>27, <1>28, <1>29,
     <1>30, <1>31, <1>32, <1>33, <1>34, <1>35, <1>36, <1>37, <1>38, <1>39, <1>40, <1>41, <1>42, <1>43,
     <1>44, <1>45, <1>46, <1>47, <1>48 DEF Next, Turn, TailStep, Callers

LEMMA FirstAtMore ==
  ASSUME NEW T, NEW s \in Seq(T), NEW k \in T, NEW m \in ToSet(s)
  PROVE  /\ FirstAt(Append(s, k), m) = FirstAt(s, m)
         /\ \A i \in 1..(FirstAt(s, m) - 1) : i \in 1..Len(s) /\ Append(s, k)[i] = s[i]
<1> DEFINE f == FirstAt(s, m)
           g == FirstAt(Append(s, k), m)
<1>0. Append(s, k) \in Seq(T) /\ m \in ToSet(Append(s, k))
  BY Members
<1>1. f \in 1..Len(s) /\ s[f] = m /\ \A i \in 1..(f - 1) : s[i] # m
  BY FirstAtIs
<1>2. g \in 1..Len(Append(s, k)) /\ Append(s, k)[g] = m /\ \A i \in 1..(g - 1) : Append(s, k)[i] # m
  BY <1>0, FirstAtIs
<1>3. Len(Append(s, k)) = Len(s) + 1 /\ Len(s) \in Nat /\ \A i \in 1..Len(s) : Append(s, k)[i] = s[i]
  OBVIOUS
<1> HIDE DEF f, g
<1>4. ~(f < g)
  <2>1. f < g => f \in 1..(g - 1) /\ Append(s, k)[f] = m
    BY <1>1, <1>2, <1>3
  <2> QED
    BY <1>2, <2>1
<1>5. ~(g < f)
  <2>1. g < f => g \in 1..(f - 1) /\ g \in 1..Len(s) /\ s[g] = m
    BY <1>1, <1>2, <1>3
  <2> QED
    BY <1>1, <2>1
<1>6. f = g /\ \A i \in 1..(f - 1) : i \in 1..Len(s)
  BY <1>1, <1>2, <1>3, <1>4, <1>5
<1> QED
  BY <1>3, <1>6 DEF f, g

LEMMA SaidMeans ==
  ASSUME NEW s \in Seq(Items), NEW k \in Answers \cup Failures
  PROVE  /\ \A S : Answers \cup Failures \subseteq S => Without(Append(s, k), S) = Without(s, S)
         /\ \A m \in Inputs : m \in ToSet(Append(s, k)) <=> m \in ToSet(s)
         /\ \A m \in ToSet(s) : FirstAt(Append(s, k), m) = FirstAt(s, m)
         /\ \A i \in 1..Len(s) : Append(s, k)[i] = s[i]
<1>0. k \in Items /\ k \notin Inputs /\ Append(s, k) \in Seq(Items)
  BY InputsAssumption DEF Items
<1>1. ASSUME NEW S, Answers \cup Failures \subseteq S PROVE Without(Append(s, k), S) = Without(s, S)
  BY <1>0, <1>1, WithoutMore
<1>2. ToSet(Append(s, k)) = ToSet(s) \cup {k}
  BY <1>0, Members
<1>3. \A i \in 1..Len(s) : Append(s, k)[i] = s[i]
  BY <1>0
<1>4. \A m \in ToSet(s) : FirstAt(Append(s, k), m) = FirstAt(s, m)
  BY <1>0, FirstAtMore
<1> QED
  BY <1>0, <1>1, <1>2, <1>3, <1>4

\* What a nudge leaves as it was: the inputs, and where each stands.
Steady(s, t) ==
  /\ \A S : Answers \cup Failures \subseteq S => Without(t, S) = Without(s, S)
  /\ \A m \in Inputs : m \in ToSet(t) <=> m \in ToSet(s)
  /\ \A m \in Inputs \cap ToSet(s) :
       FirstAt(t, m) = FirstAt(s, m) /\ \A i \in 1..(FirstAt(s, m) - 1) : t[i] = s[i]

LEMMA NudgedMeans ==
  ASSUME NEW s \in Seq(Items), NEW t, Nudged(s, t)
  PROVE  Steady(s, t)
<1>1. CASE s = t
  BY <1>1 DEF Steady
<1>2. ASSUME NEW k \in Answers \cup Failures, t = Append(s, k) PROVE Steady(s, t)
  <2>1. ASSUME NEW m \in Inputs \cap ToSet(s) PROVE \A i \in 1..(FirstAt(s, m) - 1) : i \in 1..Len(s)
    BY FirstAtIs
  <2> QED
    BY <1>2, <2>1, SaidMeans DEF Steady
<1>3. ASSUME NEW k \in Answers \cup Failures, s = Append(t, k) PROVE Steady(s, t)
  <2>0. t \in Seq(Items)
    BY DEF Nudged
  <2>1. \A m \in Inputs : m \in ToSet(t) <=> m \in ToSet(s)
    BY <1>3, <2>0, SaidMeans
  <2>2. ASSUME NEW m \in Inputs \cap ToSet(s) PROVE FirstAt(t, m) = FirstAt(s, m) /\ \A i \in 1..(FirstAt(s, m) - 1) : i \in 1..Len(t)
    <3>1. m \in ToSet(t)
      BY <2>1
    <3>2. FirstAt(t, m) \in 1..Len(t) /\ FirstAt(s, m) = FirstAt(t, m)
      BY <1>3, <2>0, <3>1, SaidMeans, FirstAtIs
    <3> QED
      BY <3>2
  <2>3. \A S : Answers \cup Failures \subseteq S => Without(t, S) = Without(s, S)
    BY <1>3, <2>0, SaidMeans
  <2>4. \A i \in 1..Len(t) : s[i] = t[i]
    BY <1>3, <2>0, SaidMeans
  <2> QED
    BY <2>1, <2>2, <2>3, <2>4 DEF Steady
<1> QED
  BY <1>1, <1>2, <1>3 DEF Nudged

\* What a withdrawal leaves of a branch, where nothing of the tracker's stands before first.
LEMMA LeftIs ==
  ASSUME NEW s \in Seq(Items), NEW first \in 1..(Len(s) + 1)
  PROVE  /\ Left(s, first) \in Seq(Items)
         /\ SubSeq(s, 1, first - 1) \in Seq(Items) /\ SubSeq(s, first, Len(s)) \in Seq(Items)
         /\ s = SubSeq(s, 1, first - 1) \o SubSeq(s, first, Len(s))
         /\ \A x \in ToSet(SubSeq(s, 1, first - 1)) : \E i \in 1..(first - 1) : x = s[i]
         /\ \A A : (\A i \in 1..(first - 1) : s[i] \notin ToSet(tracker.committed) \ A) =>
              Without(Left(s, first), Answers \cup Failures \cup A)
                = Without(s, ToSet(tracker.committed) \cup (Answers \cup Failures \cup A))
<1> DEFINE C == ToSet(tracker.committed)
           pre == SubSeq(s, 1, first - 1)
           suf == SubSeq(s, first, Len(s))
           out == Without(suf, C \cup Failures)
<1>0. Len(s) \in Nat /\ first \in Int /\ first - 1 \in Int /\ first - 1 <= Len(s) /\ 1 \in Int /\ 1 <= first
  OBVIOUS
<1>1. pre \in Seq(Items) /\ \A i \in 1..(first - 1) : pre[i] = s[i] /\ Len(pre) = first - 1
  <2>1. \A i \in 1..(first - 1) : s[i] \in Items
    BY <1>0, ElementOfSeq
  <2>2. /\ pre \in Seq(Items)
        /\ Len(pre) = IF 1 <= first - 1 THEN (first - 1) - 1 + 1 ELSE 0
        /\ \A i \in 1..((first - 1) - 1 + 1) : pre[i] = s[1 + i - 1]
    BY <1>0, <2>1, SubSeqProperties
  <2> QED
    BY <1>0, <2>2
<1>2. suf \in Seq(Items)
  <2>1. \A i \in first..Len(s) : s[i] \in Items
    BY <1>0, ElementOfSeq
  <2> QED
    BY <1>0, <2>1, SubSeqProperties
<1>3. s = pre \o suf
  <2>1. 1 \in 1..(Len(s) + 1) /\ first - 1 \in (1 - 1)..Len(s) /\ Len(s) \in (first - 1)..Len(s) /\ (first - 1) + 1 = first
    BY <1>0
  <2>2. pre \o SubSeq(s, (first - 1) + 1, Len(s)) = SubSeq(s, 1, Len(s))
    BY <2>1, ConcatAdjacentSubSeq
  <2> QED
    BY <2>1, <2>2, SubSeqFull
<1>4. out \in Seq(Items)
  BY <1>2, WithoutTyped
<1>5. Left(s, first) = pre \o out
  BY DEF Left
<1>6. \A x \in ToSet(pre) : \E i \in 1..(first - 1) : x = s[i]
  <2>1. DOMAIN pre = 1..Len(pre) /\ Len(pre) \in Nat
    BY <1>1, LenProperties
  <2>2. Len(pre) = IF first - 1 >= 1 THEN first - 1 ELSE 0
    BY <1>0, SubSeqProperties, ElementOfSeq
  <2> QED
    BY <1>0, <1>1, <2>1, <2>2 DEF ToSet
<1> HIDE DEF pre, suf, out, C
<1>7. ASSUME NEW A, \A i \in 1..(first - 1) : s[i] \notin C \ A
      PROVE  Without(pre \o out, Answers \cup Failures \cup A) = Without(s, C \cup (Answers \cup Failures \cup A))
  <2> DEFINE N == Answers \cup Failures \cup A
  <2>1. Without(pre \o out, N) = Without(pre, N) \o Without(out, N)
    BY SMTT(60), <1>1, <1>4, WithoutBoth
  <2>2. Without(pre, N) = Without(pre, C \cup N)
    <3>1. \A x \in ToSet(pre) : x \in N <=> x \in C \cup N
      BY <1>6, <1>7
    <3> HIDE DEF N
    <3> QED
      BY <1>1, <3>1, WithoutSame
  <2>3. Without(out, N) = Without(suf, (C \cup Failures) \cup N)
    BY <1>2, WithoutTwice DEF out
  <2>4. (C \cup Failures) \cup N = C \cup N
    OBVIOUS
  <2>5. Without(s, C \cup N) = Without(pre, C \cup N) \o Without(suf, C \cup N)
    BY <1>1, <1>2, <1>3, WithoutBoth
  <2> QED
    BY <2>1, <2>2, <2>3, <2>4, <2>5
<1>8. pre \o out \in Seq(Items)
  BY <1>1, <1>4
<1> QED
  BY <1>1, <1>2, <1>3, <1>5, <1>6, <1>7, <1>8 DEF C, pre, suf

-----------------------------------------------------------------------------
\* Where a withdrawal cuts the live context and the branch.
Cuts(f, g) ==
  /\ f \in 1..(Len(live) + 1) /\ g = tracker.safe + 1 /\ g \in 1..(Len(path) + 1)
  /\ LiveLeft = IF tracker.committed = <<>> THEN live ELSE Left(live, f)
  /\ tracker.committed # <<>> => f = FirstAt(live, Head(tracker.committed))

LEMMA CutsAre ==
  ASSUME Typed
  PROVE  \E f, g : Cuts(f, g)
<1>1. /\ live \in Seq(Items) /\ path \in Seq(Items) /\ tracker.committed \in Seq(Inputs)
      /\ tracker.safe \in Nat /\ tracker.safe <= Len(path) /\ Len(path) \in Nat
  BY DEF Typed, TypeOK, Rooted, Items
<1>2. tracker.safe + 1 \in 1..(Len(path) + 1)
  BY <1>1
<1>3. CASE tracker.committed = <<>>
  <2>1. 1 \in 1..(Len(live) + 1)
    BY <1>1
  <2> QED
    BY <1>2, <1>3, <2>1 DEF Cuts, LiveLeft
<1>4. CASE tracker.committed # <<>>
  <2>1. Head(tracker.committed) \in ToSet(tracker.committed)
    BY <1>1, <1>4, EmptySeq DEF ToSet
  <2>2. FirstAt(live, Head(tracker.committed)) \in 1..Len(live)
    BY <1>1, <2>1, FirstAtIs DEF Typed, Rooted
  <2>3. FirstAt(live, Head(tracker.committed)) \in 1..(Len(live) + 1)
    BY <1>1, <2>2
  <2> QED
    BY <1>2, <1>4, <2>3 DEF Cuts, LiveLeft
<1> QED
  BY <1>3, <1>4

LEMMA WithdrawTypes ==
  ASSUME Typed, Withdraw \/ WithdrawCut
  PROVE  /\ live' \in Seq(Items) /\ path' \in Seq(Items) /\ tracker' \in Trackers
         /\ tracker'.safe <= Len(path') /\ ToSet(tracker'.committed) \subseteq ToSet(live')
         /\ nextQ' \in Seq(Inputs) /\ withdrawnQ' \in Seq(Inputs) /\ open' \in {open, <<>>}
         /\ fate' \in [Inputs -> {"fresh", "held", "given", "cleared", "missed", "refused"}]
         /\ astray' \subseteq Inputs /\ astray \subseteq astray'
<1>1. /\ live \in Seq(Items) /\ path \in Seq(Items) /\ tracker.committed \in Seq(Inputs)
      /\ tracker \in Trackers /\ tracker.safe \in Nat /\ open \in Seq(Inputs) /\ nextQ \in Seq(Inputs)
      /\ withdrawnQ \in Seq(Inputs) /\ astray \subseteq Inputs
      /\ tracker.safe <= Len(path) /\ Len(path) \in Nat /\ ToSet(tracker.committed) \subseteq ToSet(live)
  BY DEF Typed, TypeOK, Rooted, Items, Trackers
<1>2. ToSet(tracker.committed) \in SUBSET Inputs
  BY <1>1, Members DEF ToSet
<1>3. fate' \in [Inputs -> {"fresh", "held", "given", "cleared", "missed", "refused"}]
  BY DEF Withdraw, WithdrawCut, EmitWithdrawn, Becomes, Typed, TypeOK
<1>4. withdrawnQ' \in Seq(Inputs)
  BY <1>1, EmptySeq DEF Withdraw, WithdrawCut, EmitWithdrawn
<1>5. CASE UNCHANGED <<context, nextQ, open, tracker>>
  BY <1>1, <1>3, <1>4, <1>5 DEF context
<1>6. CASE /\ tracker' = NoTracker /\ open' = <<>> /\ nextQ' = Restored(Requeued) /\ live' = LiveLeft
           /\ astray' \subseteq Inputs /\ astray \subseteq astray'
           /\ path' = path \/ \E lost : Retract(path', lost)
  <2>1. PICK f, g : Cuts(f, g)
    BY CutsAre
  <2>2. live' \in Seq(Items)
    BY <1>1, <1>6, <2>1, LeftIs DEF Cuts
  <2>3. path' \in Seq(Items)
    <3>1. Left(path, tracker.safe + 1) \in Seq(Items) /\ SubSeq(path, 1, (tracker.safe + 1) - 1) \in Seq(Items)
      BY <1>1, <2>1, LeftIs DEF Cuts
    <3>2. (tracker.safe + 1) - 1 = tracker.safe
      BY <1>1
    <3> QED
      BY <1>1, <1>6, <3>1, <3>2 DEF Retract
  <2>4. Requeued \in Seq(Inputs)
    <3>1. Within(tracker.committed, ToSet(drained)) \in Seq(Inputs) /\ Without(open, {current}) \in Seq(Inputs)
      BY <1>1, WithoutTyped DEF Within
    <3> QED
      BY <3>1 DEF Requeued
  <2>5. nextQ' \in Seq(Inputs)
    BY <1>1, <1>6, <2>4 DEF Restored
  <2>6. tracker'.committed = <<>> /\ tracker'.safe = 0 /\ tracker' \in Trackers /\ ToSet(<<>>) = {}
    BY <1>6, EmptySeq DEF NoTracker, Trackers, ToSet
  <2>7. 0 <= Len(path')
    BY <2>3, LenProperties
  <2> QED
    BY <1>3, <1>4, <1>6, <2>2, <2>3, <2>5, <2>6, <2>7
<1>7. CASE Withdraw
  BY <1>1, <1>5, <1>6, <1>7 DEF Withdraw
<1>8. CASE WithdrawCut
  BY <1>1, <1>2, <1>6, <1>8 DEF WithdrawCut
<1> QED
  BY <1>7, <1>8

\* The context and what points into it.
InContext ==
  /\ live \in Seq(Items) /\ path \in Seq(Items) /\ tracker \in Trackers
  /\ Rooted

LEMMA ContextKept ==
  ASSUME Typed, Next
  PROVE  InContext'
<1>1. /\ live \in Seq(Items) /\ path \in Seq(Items) /\ tracker \in Trackers /\ tracker.committed \in Seq(Inputs)
      /\ ToSet(tracker.committed) \in SUBSET Inputs /\ Len(path) \in Nat /\ tracker.safe \in Nat
      /\ tracker.safe <= Len(path) /\ ToSet(tracker.committed) \subseteq ToSet(live)
  <2>1. tracker.committed \in Seq(Inputs)
    BY DEF Typed, TypeOK
  <2>2. ToSet(tracker.committed) \in SUBSET Inputs
    BY <2>1 DEF ToSet
  <2> QED
    BY <2>1, <2>2 DEF Typed, TypeOK, Rooted, Items, Trackers
<1>2. ToSet(<<>>) = {}
  BY DEF ToSet
<1>3. CASE Quiet
  <2>1. Nudged(live, live') /\ Eased
    BY <1>3 DEF Quiet
  <2>2. live' \in Seq(Items)
    BY <2>1 DEF Nudged
  <2>3. \A m \in Inputs : m \in ToSet(live') <=> m \in ToSet(live)
    BY <1>1, <2>1, NudgedMeans DEF Steady
  <2>4. path' \in Seq(Items) /\ Len(path') \in Nat /\ Len(path) <= Len(path')
    BY <1>1, <1>3 DEF Quiet, Items
  <2>5. tracker' \in Trackers
    BY <2>1 DEF Eased, Trackers
  <2>6. CASE tracker' = tracker
    BY <1>1, <2>2, <2>3, <2>4, <2>6 DEF InContext, Rooted
  <2>7. CASE tracker'.committed = <<>> /\ tracker'.safe <= Len(path')
    BY <1>2, <2>2, <2>4, <2>5, <2>7 DEF InContext, Rooted
  <2> QED
    BY <2>1, <2>6, <2>7 DEF Eased
<1>4. CASE CommitInput
  <2>1. Head(todo) \in Inputs /\ Head(todo) \in Items
    BY <1>4 DEF CommitInput, Typed, TypeOK, Items
  <2>2. live' \in Seq(Items) /\ ToSet(live') = ToSet(live) \cup {Head(todo)} /\ path' = path
    BY <1>1, <1>4, <2>1, Members DEF CommitInput
  <2>3. ToSet(Append(tracker.committed, Head(todo))) = ToSet(tracker.committed) \cup {Head(todo)}
    BY <1>1, <2>1, Members
  <2>4. tracker' = [on |-> tracker.on, safe |-> tracker.safe,
                    committed |-> IF tracker.on THEN Append(tracker.committed, Head(todo)) ELSE tracker.committed]
    BY <1>4, <2>1, TrackerIs DEF CommitInput, Typed
  <2>5. tracker' \in Trackers
    BY <1>1, <2>1, <2>4 DEF Trackers
  <2> QED
    BY <1>1, <2>2, <2>3, <2>4, <2>5 DEF InContext, Rooted
<1>5. CASE StoreInput
  <2>1. Head(todo) \in Items
    BY <1>5 DEF StoreInput, Typed, TypeOK, Carried, Items
  <2>2. path' \in Seq(Items) /\ Len(path) <= Len(path') /\ Len(path') \in Nat /\ live' = live /\ tracker' = tracker
    <3>1. Append(path, Head(todo)) \in Seq(Items) /\ Len(Append(path, Head(todo))) = Len(path) + 1
      BY <1>1, <2>1
    <3>2. path' = path \/ path' = Append(path, Head(todo))
      BY <1>5 DEF StoreInput
    <3>3. path' \in Seq(Items) /\ Len(path) <= Len(path') /\ Len(path') \in Nat
      BY SMTT(60), <1>1, <3>1, <3>2
    <3>4. live' = live /\ tracker' = tracker
      BY <1>5 DEF StoreInput
    <3> QED
      BY <3>3, <3>4
  <2> QED
    BY <1>1, <2>2 DEF InContext, Rooted
<1>6. CASE Compacting
  <2>1. Aged(path) \in Seq(Items) /\ Len(Aged(path)) = Len(path)
    BY <1>1, AgedIs DEF Items, Failures
  <2>2. live' \in Seq(Items) /\ path' \in Seq(Items) /\ tracker' = NoTracker /\ 0 <= Len(path')
    BY <1>1, <1>6, <2>1 DEF Compacting, Compacted
  <2>3. NoTracker \in Trackers
    BY EmptySeq DEF NoTracker, Trackers
  <2> QED
    BY <1>2, <2>2, <2>3 DEF InContext, Rooted, NoTracker
<1>7. CASE Withdrawing
  BY <1>7, WithdrawTypes DEF Withdrawing, InContext, Rooted
<1> QED
  BY <1>3, <1>4, <1>5, <1>6, <1>7, ContextSteps

LEMMA SeatedKept ==
  ASSUME Typed, Next
  PROVE  Seated'
<1>1. CASE TurnAway
  BY <1>1 DEF TurnAway, context, queues, run, flags, tail, bounds, Seated, Typed
<1>2. CASE Accept
  BY <1>2 DEF Accept, context, queues, run, flags, tail, bounds, Seated, Typed
<1>3. CASE SetupFails
  BY <1>3 DEF SetupFails, context, queues, run, flags, tail, bounds, Seated, Typed
<1>4. CASE FirstRun
  BY <1>4 DEF FirstRun, context, queues, run, flags, tail, bounds, Seated, Typed
<1>5. CASE BuildFails
  BY <1>5 DEF BuildFails, context, queues, run, flags, tail, bounds, Seated, Typed
<1>6. CASE StartLoop
  BY <1>6 DEF StartLoop, context, queues, run, flags, tail, bounds, Seated, Typed
<1>7. CASE CommitInput
  BY <1>7 DEF CommitInput, context, queues, run, flags, tail, bounds, Seated, Typed
<1>8. CASE StoreInput
  BY <1>8 DEF StoreInput, context, queues, run, flags, tail, bounds, Seated, Typed
<1>9. CASE FirstSteer
  BY <1>9 DEF FirstSteer, TakeSteer, context, queues, run, flags, tail, bounds, Seated, Typed
<1>10. CASE Request
  BY <1>10 DEF Request, context, queues, run, flags, tail, bounds, Seated, Typed
<1>11. ASSUME NEW k \in {"ok", "tools", "retryable", "overflow", "fatal"}, Answer(k) PROVE Seated'
  <2>1. live \in Seq(Items) /\ k \in Items /\ k \in Assistant /\ live' = Append(live, k)
    BY <1>11 DEF Answer, Typed, TypeOK, Items, Answers, Failures, Assistant
  <2>2. live' # <<>> /\ Last(live') = k
    BY <2>1 DEF Last
  <2>3. k \in Answers => tracker'.committed = <<>>
    <3>1. k \in Answers => Committed(k) = [on |-> tracker.on, committed |-> <<>>, safe |-> tracker.safe]
      BY TrackerIs DEF Typed
    <3> QED
      BY <1>11, <3>1 DEF Answer
  <2> QED
    BY <1>11, <2>1, <2>2, <2>3 DEF Answer, Seated, Typed, bounds
<1>12. CASE StoreAnswer
  BY <1>12 DEF StoreAnswer, context, queues, run, flags, tail, bounds, Seated, Typed
<1>13. CASE ProviderRaises
  BY <1>13 DEF ProviderRaises, context, queues, run, flags, tail, bounds, Seated, Typed
<1>14. CASE ToolsEnd
  BY <1>14 DEF ToolsEnd, context, queues, run, flags, tail, bounds, Seated, Typed
<1>15. CASE TurnEnds
  BY <1>15 DEF TurnEnds, TakeSteer, context, queues, run, flags, tail, bounds, Seated, Typed
<1>16. CASE RunReturns
  BY <1>16 DEF RunReturns, context, queues, run, flags, tail, bounds, Seated, Typed
<1>17. CASE Unwind
  BY <1>17 DEF Unwind, Looping, context, queues, run, flags, tail, bounds, Seated, Typed
<1>18. CASE Closeout
  BY <1>18 DEF Closeout, context, queues, run, flags, tail, bounds, Seated, Typed
<1>19. CASE CloseoutCut
  BY <1>19 DEF CloseoutCut, context, queues, run, flags, tail, bounds, Seated, Typed
<1>20. CASE CloseoutEnds
  BY <1>20 DEF CloseoutEnds, context, queues, run, flags, tail, bounds, Seated, Typed
<1>21. CASE RetryStarts
  BY <1>21 DEF RetryStarts, context, queues, run, flags, tail, bounds, Seated, Typed
<1>22. CASE RunsOver
  BY <1>22 DEF RunsOver, Onward, ToThreshold, context, queues, run, flags, tail, bounds, Seated, Typed
<1>23. CASE Countdown
  BY <1>23 DEF Countdown, context, queues, run, flags, tail, bounds, Seated, Typed
<1>24. CASE RetryRuns
  BY <1>24 DEF RetryRuns, Rerun, context, queues, run, flags, tail, bounds, Seated, Typed
<1>25. CASE RetryStops
  BY <1>25 DEF RetryStops, Onward, ToThreshold, context, queues, run, flags, tail, bounds, Seated, Typed
<1>26. CASE NoRecovery
  BY <1>26 DEF NoRecovery, Onward, ToThreshold, context, queues, run, flags, tail, bounds, Seated, Typed
<1>27. CASE Recover
  BY <1>27 DEF Recover, context, queues, run, flags, tail, bounds, Seated, Typed
<1>28. CASE CompactFails
  BY <1>28 DEF CompactFails, Onward, ToThreshold, context, queues, run, flags, tail, bounds, Seated,
     Typed
<1>29. CASE CompactWrites
  BY <1>29 DEF CompactWrites, context, queues, run, flags, tail, bounds, Seated, Typed
<1>30. CASE RecoveryRuns
  BY <1>30 DEF RecoveryRuns, Rerun, context, queues, run, flags, tail, bounds, Seated, Typed
<1>31. CASE RecoveryStops
  BY <1>31 DEF RecoveryStops, Onward, ToThreshold, context, queues, run, flags, tail, bounds, Seated,
     Typed
<1>32. CASE TailWithdraws
  BY <1>32 DEF TailWithdraws, context, queues, run, flags, tail, bounds, Seated, Typed
<1>33. CASE NoThreshold
  BY <1>33 DEF NoThreshold, context, queues, run, flags, tail, bounds, Seated, Typed
<1>34. CASE Threshold
  BY <1>34 DEF Threshold, context, queues, run, flags, tail, bounds, Seated, Typed
<1>35. CASE ThresholdEnds
  BY <1>35 DEF ThresholdEnds, context, queues, run, flags, tail, bounds, Seated, Typed
<1>36. CASE Raise
  BY <1>36 DEF Raise, context, queues, run, flags, tail, bounds, Seated, Typed
<1>37. CASE Release
  BY <1>37 DEF Release, context, queues, run, flags, tail, bounds, Seated, Typed
<1>38. CASE Idle
  BY <1>38 DEF Idle, context, queues, run, flags, tail, bounds, Seated, Typed
<1>39. CASE CutTail
  BY <1>39 DEF CutTail, context, queues, run, flags, tail, bounds, Seated, Typed
<1>40. CASE CutWithdraw
  BY <1>40 DEF CutWithdraw, context, queues, run, flags, tail, bounds, Seated, Typed
<1>41. ASSUME NEW m \in scope.sent, Steer(m) PROVE Seated'
  BY <1>41 DEF Steer, context, queues, run, flags, tail, bounds, Seated, Typed
<1>42. ASSUME NEW m \in scope.sent, FollowUp(m) PROVE Seated'
  BY <1>42 DEF FollowUp, context, queues, run, flags, tail, bounds, Seated, Typed
<1>43. ASSUME NEW m \in scope.sent, NextTurn(m) PROVE Seated'
  BY <1>43 DEF NextTurn, context, queues, run, flags, tail, bounds, Seated, Typed
<1>44. ASSUME NEW m \in scope.sent, Prompt(m) PROVE Seated'
  BY <1>44 DEF Prompt, context, queues, run, flags, tail, bounds, Seated, Typed
<1>45. ASSUME NEW w \in BOOLEAN, Abort(w) PROVE Seated'
  BY <1>45 DEF Abort, context, queues, run, flags, tail, bounds, Seated, Typed
<1>46. ASSUME NEW w \in BOOLEAN, AbortRetry(w) PROVE Seated'
  BY <1>46 DEF AbortRetry, context, queues, run, flags, tail, bounds, Seated, Typed
<1>47. CASE CtxAbort
  BY <1>47 DEF CtxAbort, context, queues, run, flags, tail, bounds, Seated, Typed
<1>48. CASE CancelPrompt
  BY <1>48 DEF CancelPrompt, context, queues, run, flags, tail, bounds, Seated, Typed
<1> QED
  BY <1>1, <1>2, <1>3, <1>4, <1>5, <1>6, <1>7, <1>8, <1>9, <1>10, <1>11, <1>12, <1>13, <1>14, <1>15,
     <1>16, <1>17, <1>18, <1>19, <1>20, <1>21, <1>22, <1>23, <1>24, <1>25, <1>26, <1>27, <1>28, <1>29,
     <1>30, <1>31, <1>32, <1>33, <1>34, <1>35, <1>36, <1>37, <1>38, <1>39, <1>40, <1>41, <1>42, <1>43,
     <1>44, <1>45, <1>46, <1>47, <1>48 DEF Next, Turn, TailStep, Callers

\* The types of what is not the context: the bounds and flags, the queues, and what became of whom.
Flags ==
  /\ scope \in Scopes
  /\ pc \in {"idle"} \cup Looping \cup Outside
  /\ cut \in {"none", "turn", "prompt"}
  /\ storing \in BOOLEAN /\ rerun \in BOOLEAN /\ before \in BOOLEAN
  /\ abortReq \in BOOLEAN /\ withdrawReq \in BOOLEAN /\ retryStop \in BOOLEAN
  /\ attempt \in 0..MaxRetries
  /\ recovered \in BOOLEAN
  /\ failed \in {None, "overflow"}
  /\ stopped \in {"no", "entry", "yes", "late", "retry"}

Lines ==
  /\ nextQ \in Seq(Inputs) /\ steerQ \in Seq(Steers) /\ followQ \in Seq(FollowUps)
  /\ drained \in Seq(Inputs) /\ todo \in Seq(Inputs) /\ open \in Seq(Inputs)
  /\ withdrawnQ \in Seq(Inputs)

Fates ==
  /\ fate \in [Inputs -> {"fresh", "held", "given", "cleared", "missed", "refused"}]
  /\ current \in Texts \cup {None}
  /\ escaped \subseteq Inputs
  /\ astray \subseteq Inputs

LEMMA SameTypes ==
  /\ TypeOK => Flags /\ Lines /\ Fates
  /\ Flags /\ Lines /\ Fates /\ InContext => TypeOK
BY DEF TypeOK, Flags, Lines, Fates, InContext, Items, Trackers

LEMMA StakeIs ==
  ASSUME Typed
  PROVE  AtStake \subseteq Inputs
<1>1. ToSet(tracker.committed) \in SUBSET Inputs /\ ToSet(open) \in SUBSET Inputs
  <2>1. tracker.committed \in Seq(Inputs) /\ open \in Seq(Inputs)
    BY DEF Typed, TypeOK
  <2> QED
    BY <2>1 DEF ToSet
<1> QED
  BY <1>1 DEF AtStake, Typed, Seated, Inputs

LEMMA FlagsKept ==
  ASSUME Typed, Next
  PROVE  Flags'
<1>0. scope' = scope /\ scope \in Scopes /\ scope.retries \in Nat
  BY InputsAssumption DEF Next, Typed, TypeOK
<1>1. CASE TurnAway
  BY <1>0, <1>1 DEF TurnAway, context, queues, run, flags, tail, bounds, Flags, Typed, TypeOK,
     MaxRetries, Looping, Outside
<1>2. CASE Accept
  BY <1>0, <1>2 DEF Accept, context, queues, run, flags, tail, bounds, Flags, Typed, TypeOK,
     MaxRetries, Looping, Outside
<1>3. CASE SetupFails
  BY <1>0, <1>3 DEF SetupFails, context, queues, run, flags, tail, bounds, Flags, Typed, TypeOK,
     MaxRetries, Looping, Outside
<1>4. CASE FirstRun
  BY <1>0, <1>4 DEF FirstRun, context, queues, run, flags, tail, bounds, Flags, Typed, TypeOK,
     MaxRetries, Looping, Outside
<1>5. CASE BuildFails
  BY <1>0, <1>5 DEF BuildFails, context, queues, run, flags, tail, bounds, Flags, Typed, TypeOK,
     MaxRetries, Looping, Outside
<1>6. CASE StartLoop
  BY <1>0, <1>6 DEF StartLoop, context, queues, run, flags, tail, bounds, Flags, Typed, TypeOK,
     MaxRetries, Looping, Outside
<1>7. CASE CommitInput
  BY <1>0, <1>7 DEF CommitInput, context, queues, run, flags, tail, bounds, Flags, Typed, TypeOK,
     MaxRetries, Looping, Outside
<1>8. CASE StoreInput
  BY <1>0, <1>8 DEF StoreInput, context, queues, run, flags, tail, bounds, Flags, Typed, TypeOK,
     MaxRetries, Looping, Outside
<1>9. CASE FirstSteer
  BY <1>0, <1>9 DEF FirstSteer, TakeSteer, context, queues, run, flags, tail, bounds, Flags, Typed,
     TypeOK, MaxRetries, Looping, Outside
<1>10. CASE Request
  BY <1>0, <1>10 DEF Request, context, queues, run, flags, tail, bounds, Flags, Typed, TypeOK,
     MaxRetries, Looping, Outside
<1>11. ASSUME NEW k \in {"ok", "tools", "retryable", "overflow", "fatal"}, Answer(k) PROVE Flags'
  BY <1>0, <1>11 DEF Answer, context, queues, run, flags, tail, bounds, Flags, Typed, TypeOK,
     MaxRetries, Looping, Outside
<1>12. CASE StoreAnswer
  <2>1. attempt' \in 0..scope'.retries
    BY <1>0, <1>12 DEF StoreAnswer, Typed, TypeOK, MaxRetries
  <2>2. pc' \in Looping \cup Outside
    BY <1>12 DEF StoreAnswer, Looping, Outside
  <2> QED
    BY <1>0, <1>12, <2>1, <2>2 DEF StoreAnswer, run, flags, Flags, Typed, TypeOK, MaxRetries
<1>13. CASE ProviderRaises
  BY <1>0, <1>13 DEF ProviderRaises, context, queues, run, flags, tail, bounds, Flags, Typed, TypeOK,
     MaxRetries, Looping, Outside
<1>14. CASE ToolsEnd
  BY <1>0, <1>14 DEF ToolsEnd, context, queues, run, flags, tail, bounds, Flags, Typed, TypeOK,
     MaxRetries, Looping, Outside
<1>15. CASE TurnEnds
  BY <1>0, <1>15 DEF TurnEnds, TakeSteer, context, queues, run, flags, tail, bounds, Flags, Typed,
     TypeOK, MaxRetries, Looping, Outside
<1>16. CASE RunReturns
  BY <1>0, <1>16 DEF RunReturns, context, queues, run, flags, tail, bounds, Flags, Typed, TypeOK,
     MaxRetries, Looping, Outside
<1>17. CASE Unwind
  <2>1. attempt' \in 0..scope'.retries
    BY <1>0, <1>17 DEF Unwind, Typed, TypeOK, MaxRetries
  <2>2. pc' \in Looping \cup Outside
    BY <1>17 DEF Unwind, Looping, Outside
  <2> QED
    BY <1>0, <1>17, <2>1, <2>2 DEF Unwind, run, flags, Flags, Typed, TypeOK, MaxRetries
<1>18. CASE Closeout
  BY <1>0, <1>18 DEF Closeout, context, queues, run, flags, tail, bounds, Flags, Typed, TypeOK,
     MaxRetries, Looping, Outside
<1>19. CASE CloseoutCut
  BY <1>0, <1>19 DEF CloseoutCut, context, queues, run, flags, tail, bounds, Flags, Typed, TypeOK,
     MaxRetries, Looping, Outside
<1>20. CASE CloseoutEnds
  BY <1>0, <1>20 DEF CloseoutEnds, context, queues, run, flags, tail, bounds, Flags, Typed, TypeOK,
     MaxRetries, Looping, Outside
<1>21. CASE RetryStarts
  <2>1. attempt \in 0..scope.retries /\ attempt < scope.retries
    BY <1>21 DEF RetryStarts, Typed, TypeOK, MaxRetries
  <2>2. attempt' \in 0..scope'.retries
    BY <1>0, <1>21, <2>1 DEF RetryStarts
  <2> QED
    BY <1>0, <1>21, <2>2 DEF RetryStarts, run, flags, Flags, Typed, TypeOK, MaxRetries, Looping, Outside
<1>22. CASE RunsOver
  BY <1>0, <1>22 DEF RunsOver, Onward, ToThreshold, context, queues, run, flags, tail, bounds, Flags,
     Typed, TypeOK, MaxRetries, Looping, Outside
<1>23. CASE Countdown
  BY <1>0, <1>23 DEF Countdown, context, queues, run, flags, tail, bounds, Flags, Typed, TypeOK,
     MaxRetries, Looping, Outside
<1>24. CASE RetryRuns
  BY <1>0, <1>24 DEF RetryRuns, Rerun, context, queues, run, flags, tail, bounds, Flags, Typed, TypeOK,
     MaxRetries, Looping, Outside
<1>25. CASE RetryStops
  BY <1>0, <1>25 DEF RetryStops, Onward, ToThreshold, context, queues, run, flags, tail, bounds, Flags,
     Typed, TypeOK, MaxRetries, Looping, Outside
<1>26. CASE NoRecovery
  BY <1>0, <1>26 DEF NoRecovery, Onward, ToThreshold, context, queues, run, flags, tail, bounds, Flags,
     Typed, TypeOK, MaxRetries, Looping, Outside
<1>27. CASE Recover
  BY <1>0, <1>27 DEF Recover, context, queues, run, flags, tail, bounds, Flags, Typed, TypeOK,
     MaxRetries, Looping, Outside
<1>28. CASE CompactFails
  BY <1>0, <1>28 DEF CompactFails, Onward, ToThreshold, context, queues, run, flags, tail, bounds,
     Flags, Typed, TypeOK, MaxRetries, Looping, Outside
<1>29. CASE CompactWrites
  BY <1>0, <1>29 DEF CompactWrites, context, queues, run, flags, tail, bounds, Flags, Typed, TypeOK,
     MaxRetries, Looping, Outside
<1>30. CASE RecoveryRuns
  BY <1>0, <1>30 DEF RecoveryRuns, Rerun, context, queues, run, flags, tail, bounds, Flags, Typed,
     TypeOK, MaxRetries, Looping, Outside
<1>31. CASE RecoveryStops
  BY <1>0, <1>31 DEF RecoveryStops, Onward, ToThreshold, context, queues, run, flags, tail, bounds,
     Flags, Typed, TypeOK, MaxRetries, Looping, Outside
<1>32. CASE TailWithdraws
  BY <1>0, <1>32 DEF TailWithdraws, context, queues, run, flags, tail, bounds, Flags, Typed, TypeOK,
     MaxRetries, Looping, Outside
<1>33. CASE NoThreshold
  BY <1>0, <1>33 DEF NoThreshold, context, queues, run, flags, tail, bounds, Flags, Typed, TypeOK,
     MaxRetries, Looping, Outside
<1>34. CASE Threshold
  BY <1>0, <1>34 DEF Threshold, context, queues, run, flags, tail, bounds, Flags, Typed, TypeOK,
     MaxRetries, Looping, Outside
<1>35. CASE ThresholdEnds
  BY <1>0, <1>35 DEF ThresholdEnds, context, queues, run, flags, tail, bounds, Flags, Typed, TypeOK,
     MaxRetries, Looping, Outside
<1>36. CASE Raise
  BY <1>0, <1>36 DEF Raise, context, queues, run, flags, tail, bounds, Flags, Typed, TypeOK,
     MaxRetries, Looping, Outside
<1>37. CASE Release
  BY <1>0, <1>37 DEF Release, context, queues, run, flags, tail, bounds, Flags, Typed, TypeOK,
     MaxRetries, Looping, Outside
<1>38. CASE Idle
  BY <1>0, <1>38 DEF Idle, context, queues, run, flags, tail, bounds, Flags, Typed, TypeOK, MaxRetries,
     Looping, Outside
<1>39. CASE CutTail
  BY <1>0, <1>39 DEF CutTail, context, queues, run, flags, tail, bounds, Flags, Typed, TypeOK,
     MaxRetries, Looping, Outside
<1>40. CASE CutWithdraw
  BY <1>0, <1>40 DEF CutWithdraw, context, queues, run, flags, tail, bounds, Flags, Typed, TypeOK,
     MaxRetries, Looping, Outside
<1>41. ASSUME NEW m \in scope.sent, Steer(m) PROVE Flags'
  BY <1>0, <1>41 DEF Steer, context, queues, run, flags, tail, bounds, Flags, Typed, TypeOK,
     MaxRetries, Looping, Outside
<1>42. ASSUME NEW m \in scope.sent, FollowUp(m) PROVE Flags'
  BY <1>0, <1>42 DEF FollowUp, context, queues, run, flags, tail, bounds, Flags, Typed, TypeOK,
     MaxRetries, Looping, Outside
<1>43. ASSUME NEW m \in scope.sent, NextTurn(m) PROVE Flags'
  BY <1>0, <1>43 DEF NextTurn, context, queues, run, flags, tail, bounds, Flags, Typed, TypeOK,
     MaxRetries, Looping, Outside
<1>44. ASSUME NEW m \in scope.sent, Prompt(m) PROVE Flags'
  BY <1>0, <1>44 DEF Prompt, context, queues, run, flags, tail, bounds, Flags, Typed, TypeOK,
     MaxRetries, Looping, Outside
<1>45. ASSUME NEW w \in BOOLEAN, Abort(w) PROVE Flags'
  BY <1>0, <1>45 DEF Abort, context, queues, run, flags, tail, bounds, Flags, Typed, TypeOK,
     MaxRetries, Looping, Outside
<1>46. ASSUME NEW w \in BOOLEAN, AbortRetry(w) PROVE Flags'
  BY <1>0, <1>46 DEF AbortRetry, context, queues, run, flags, tail, bounds, Flags, Typed, TypeOK,
     MaxRetries, Looping, Outside
<1>47. CASE CtxAbort
  BY <1>0, <1>47 DEF CtxAbort, context, queues, run, flags, tail, bounds, Flags, Typed, TypeOK,
     MaxRetries, Looping, Outside
<1>48. CASE CancelPrompt
  BY <1>0, <1>48 DEF CancelPrompt, context, queues, run, flags, tail, bounds, Flags, Typed, TypeOK,
     MaxRetries, Looping, Outside
<1> QED
  BY <1>1, <1>2, <1>3, <1>4, <1>5, <1>6, <1>7, <1>8, <1>9, <1>10, <1>11, <1>12, <1>13, <1>14, <1>15,
     <1>16, <1>17, <1>18, <1>19, <1>20, <1>21, <1>22, <1>23, <1>24, <1>25, <1>26, <1>27, <1>28, <1>29,
     <1>30, <1>31, <1>32, <1>33, <1>34, <1>35, <1>36, <1>37, <1>38, <1>39, <1>40, <1>41, <1>42, <1>43,
     <1>44, <1>45, <1>46, <1>47, <1>48 DEF Next, Turn, TailStep, Callers

LEMMA LinesKept ==
  ASSUME Typed, Next
  PROVE  Lines'
<1>0. scope' = scope /\ scope \in Scopes /\ scope.retries \in Nat
  BY InputsAssumption DEF Next, Typed, TypeOK
<1>1. CASE TurnAway
  BY <1>0, <1>1 DEF TurnAway, context, queues, run, flags, tail, bounds, Lines, Typed, TypeOK
<1>2. CASE Accept
  BY <1>0, <1>2 DEF Accept, context, queues, run, flags, tail, bounds, Lines, Typed, TypeOK
<1>3. CASE SetupFails
  <2>1. Lines /\ <<>> \in Seq(Inputs) /\ drained \o nextQ \in Seq(Inputs) /\ open \o nextQ \in Seq(Inputs)
    BY EmptySeq, ConcatProperties DEF Typed, TypeOK, Lines
  <2> QED
    BY <1>3, <2>1 DEF SetupFails, Restored, run, queues, Lines
<1>4. CASE FirstRun
  <2>1. current \in Inputs
    BY <1>4 DEF FirstRun, Typed, Seated, Inputs
  <2>2. drained \o <<current>> \in Seq(Inputs)
    BY <2>1 DEF Typed, TypeOK
  <2> QED
    BY <1>4, <2>2 DEF FirstRun, queues, Lines, Typed, TypeOK
<1>5. CASE BuildFails
  <2>1. Lines /\ <<>> \in Seq(Inputs) /\ drained \o nextQ \in Seq(Inputs) /\ open \o nextQ \in Seq(Inputs)
    BY EmptySeq, ConcatProperties DEF Typed, TypeOK, Lines
  <2> QED
    BY <1>5, <2>1 DEF BuildFails, Restored, run, queues, Lines
<1>6. CASE StartLoop
  BY <1>0, <1>6 DEF StartLoop, context, queues, run, flags, tail, bounds, Lines, Typed, TypeOK
<1>7. CASE CommitInput
  <2>1. Carried'
    BY CarriedKept DEF Typed
  <2>2. todo' = todo /\ todo # <<>> /\ todo \in Seq(Inputs) /\ storing' /\ pc' \in {"prompts", "feeding"}
    BY <1>7 DEF CommitInput, Typed, TypeOK
  <2>3. open' = Tail(todo) \/ open' = <<>>
    BY <2>1, <2>2 DEF Carried
  <2>4. open' \in Seq(Inputs)
    <3>1. Tail(todo) \in Seq(Inputs) /\ <<>> \in Seq(Inputs)
      BY <2>2, HeadTailProperties, EmptySeq
    <3> QED
      BY <2>3, <3>1
  <2> QED
    BY <1>7, <2>4 DEF CommitInput, queues, Lines, Typed, TypeOK
<1>8. CASE StoreInput
  <2>1. todo # <<>> /\ todo \in Seq(Inputs)
    BY <1>8 DEF StoreInput, Typed, TypeOK, Carried
  <2>2. Tail(todo) \in Seq(Inputs)
    BY <2>1
  <2> QED
    BY <1>8, <2>2 DEF StoreInput, queues, Lines, Typed, TypeOK
<1>9. CASE FirstSteer
  <2>1. /\ FirstOf(steerQ) \in Seq(Steers) /\ RestOf(steerQ) \in Seq(Steers)
        /\ FirstOf(followQ) \in Seq(FollowUps) /\ RestOf(followQ) \in Seq(FollowUps)
    BY Parts DEF Typed, TypeOK
  <2>2. FirstOf(steerQ) \in Seq(Inputs) /\ FirstOf(followQ) \in Seq(Inputs)
    BY <2>1 DEF Inputs
  <2> QED
    BY <1>9, <2>1, <2>2 DEF FirstSteer, TakeSteer, queues, Lines, Typed, TypeOK
<1>10. CASE Request
  BY <1>0, <1>10 DEF Request, context, queues, run, flags, tail, bounds, Lines, Typed, TypeOK
<1>11. ASSUME NEW k \in {"ok", "tools", "retryable", "overflow", "fatal"}, Answer(k) PROVE Lines'
  BY <1>0, <1>11 DEF Answer, context, queues, run, flags, tail, bounds, Lines, Typed, TypeOK
<1>12. CASE StoreAnswer
  BY <1>0, <1>12 DEF StoreAnswer, context, queues, run, flags, tail, bounds, Lines, Typed, TypeOK
<1>13. CASE ProviderRaises
  BY <1>0, <1>13 DEF ProviderRaises, context, queues, run, flags, tail, bounds, Lines, Typed, TypeOK
<1>14. CASE ToolsEnd
  BY <1>0, <1>14 DEF ToolsEnd, context, queues, run, flags, tail, bounds, Lines, Typed, TypeOK
<1>15. CASE TurnEnds
  <2>1. /\ FirstOf(steerQ) \in Seq(Steers) /\ RestOf(steerQ) \in Seq(Steers)
        /\ FirstOf(followQ) \in Seq(FollowUps) /\ RestOf(followQ) \in Seq(FollowUps)
    BY Parts DEF Typed, TypeOK
  <2>2. FirstOf(steerQ) \in Seq(Inputs) /\ FirstOf(followQ) \in Seq(Inputs)
    BY <2>1 DEF Inputs
  <2> QED
    BY <1>15, <2>1, <2>2 DEF TurnEnds, TakeSteer, queues, Lines, Typed, TypeOK
<1>16. CASE RunReturns
  BY <1>0, <1>16 DEF RunReturns, context, queues, run, flags, tail, bounds, Lines, Typed, TypeOK
<1>17. CASE Unwind
  <2>1. Lines /\ <<>> \in Seq(Inputs) /\ drained \o nextQ \in Seq(Inputs) /\ open \o nextQ \in Seq(Inputs)
    BY EmptySeq, ConcatProperties DEF Typed, TypeOK, Lines
  <2> QED
    BY <1>17, <2>1 DEF Unwind, Restored, run, queues, Lines
<1>18. CASE Closeout
  <2>1. CASE Withdraw \/ WithdrawCut
    <3>1. nextQ' \in Seq(Inputs) /\ withdrawnQ' \in Seq(Inputs) /\ open' \in {open, <<>>} /\ <<>> \in Seq(Inputs)
      BY <2>1, WithdrawTypes, EmptySeq
    <3> QED
      BY <1>18, <3>1 DEF Closeout, Lines, Typed, TypeOK
  <2> QED
    BY <1>18, <2>1 DEF Closeout, Keep, Lines, Typed, TypeOK
<1>19. CASE CloseoutCut
  <2>1. CASE Withdraw \/ WithdrawCut
    <3>1. nextQ' \in Seq(Inputs) /\ withdrawnQ' \in Seq(Inputs) /\ open' \in {open, <<>>} /\ <<>> \in Seq(Inputs)
      BY <2>1, WithdrawTypes, EmptySeq
    <3> QED
      BY <1>19, <3>1 DEF CloseoutCut, Lines, Typed, TypeOK
  <2> QED
    BY <1>19, <2>1 DEF CloseoutCut, Lines, Typed, TypeOK
<1>20. CASE CloseoutEnds
  <2>1. Lines /\ <<>> \in Seq(Inputs) /\ drained \o nextQ \in Seq(Inputs) /\ open \o nextQ \in Seq(Inputs)
    BY EmptySeq, ConcatProperties DEF Typed, TypeOK, Lines
  <2> QED
    BY <1>20, <2>1 DEF CloseoutEnds, Restored, run, queues, Lines
<1>21. CASE RetryStarts
  BY <1>0, <1>21 DEF RetryStarts, context, queues, run, flags, tail, bounds, Lines, Typed, TypeOK
<1>22. CASE RunsOver
  BY <1>0, <1>22 DEF RunsOver, context, queues, run, flags, tail, bounds, Lines, Typed, TypeOK
<1>23. CASE Countdown
  BY <1>0, <1>23 DEF Countdown, context, queues, run, flags, tail, bounds, Lines, Typed, TypeOK
<1>24. CASE RetryRuns
  BY <1>0, <1>24 DEF RetryRuns, Rerun, context, queues, run, flags, tail, bounds, Lines, Typed, TypeOK
<1>25. CASE RetryStops
  BY <1>0, <1>25 DEF RetryStops, context, queues, run, flags, tail, bounds, Lines, Typed, TypeOK
<1>26. CASE NoRecovery
  BY <1>0, <1>26 DEF NoRecovery, context, queues, run, flags, tail, bounds, Lines, Typed, TypeOK
<1>27. CASE Recover
  BY <1>0, <1>27 DEF Recover, context, queues, run, flags, tail, bounds, Lines, Typed, TypeOK
<1>28. CASE CompactFails
  BY <1>0, <1>28 DEF CompactFails, context, queues, run, flags, tail, bounds, Lines, Typed, TypeOK
<1>29. CASE CompactWrites
  BY <1>0, <1>29 DEF CompactWrites, context, queues, run, flags, tail, bounds, Lines, Typed, TypeOK
<1>30. CASE RecoveryRuns
  BY <1>0, <1>30 DEF RecoveryRuns, Rerun, context, queues, run, flags, tail, bounds, Lines, Typed,
     TypeOK
<1>31. CASE RecoveryStops
  BY <1>0, <1>31 DEF RecoveryStops, context, queues, run, flags, tail, bounds, Lines, Typed, TypeOK
<1>32. CASE TailWithdraws
  <2>1. CASE Withdraw \/ WithdrawCut
    <3>1. nextQ' \in Seq(Inputs) /\ withdrawnQ' \in Seq(Inputs) /\ open' \in {open, <<>>} /\ <<>> \in Seq(Inputs)
      BY <2>1, WithdrawTypes, EmptySeq
    <3> QED
      BY <1>32, <3>1 DEF TailWithdraws, Lines, Typed, TypeOK
  <2> QED
    BY <1>32, <2>1 DEF TailWithdraws, Lines, Typed, TypeOK
<1>33. CASE NoThreshold
  BY <1>0, <1>33 DEF NoThreshold, context, queues, run, flags, tail, bounds, Lines, Typed, TypeOK
<1>34. CASE Threshold
  BY <1>0, <1>34 DEF Threshold, context, queues, run, flags, tail, bounds, Lines, Typed, TypeOK
<1>35. CASE ThresholdEnds
  BY <1>0, <1>35 DEF ThresholdEnds, context, queues, run, flags, tail, bounds, Lines, Typed, TypeOK
<1>36. CASE Raise
  BY <1>0, <1>36 DEF Raise, context, queues, run, flags, tail, bounds, Lines, Typed, TypeOK
<1>37. CASE Release
  <2>1. CASE Withdraw \/ WithdrawCut
    <3>1. nextQ' \in Seq(Inputs) /\ withdrawnQ' \in Seq(Inputs) /\ open' \in {open, <<>>} /\ <<>> \in Seq(Inputs)
      BY <2>1, WithdrawTypes, EmptySeq
    <3> QED
      BY <1>37, <3>1 DEF Release, Lines, Typed, TypeOK
  <2> QED
    BY <1>37, <2>1 DEF Release, Keep, Lines, Typed, TypeOK
<1>38. CASE Idle
  <2>1. Lines /\ <<>> \in Seq(Inputs)
    BY EmptySeq DEF Typed, TypeOK, Lines
  <2> QED
    BY <1>38, <2>1 DEF Idle, EmitWithdrawn, queues, Lines
<1>39. CASE CutTail
  BY <1>0, <1>39 DEF CutTail, context, queues, run, flags, tail, bounds, Lines, Typed, TypeOK
<1>40. CASE CutWithdraw
  <2>1. CASE Withdraw \/ WithdrawCut
    <3>1. nextQ' \in Seq(Inputs) /\ withdrawnQ' \in Seq(Inputs) /\ open' \in {open, <<>>} /\ <<>> \in Seq(Inputs)
      BY <2>1, WithdrawTypes, EmptySeq
    <3> QED
      BY <1>40, <3>1 DEF CutWithdraw, Lines, Typed, TypeOK
  <2> QED
    BY <1>40, <2>1 DEF CutWithdraw, Lines, Typed, TypeOK
<1>41. ASSUME NEW m \in scope.sent, Steer(m) PROVE Lines'
  BY <1>0, <1>41 DEF Steer, context, queues, run, flags, tail, bounds, Lines, Typed, TypeOK
<1>42. ASSUME NEW m \in scope.sent, FollowUp(m) PROVE Lines'
  BY <1>0, <1>42 DEF FollowUp, context, queues, run, flags, tail, bounds, Lines, Typed, TypeOK
<1>43. ASSUME NEW m \in scope.sent, NextTurn(m) PROVE Lines'
  <2>1. m \in Inputs
    BY <1>43 DEF NextTurn, Inputs
  <2>2. Append(nextQ, m) \in Seq(Inputs)
    BY <2>1 DEF Typed, TypeOK
  <2> QED
    BY <1>43, <2>2 DEF NextTurn, run, Lines, Typed, TypeOK
<1>44. ASSUME NEW m \in scope.sent, Prompt(m) PROVE Lines'
  BY <1>0, <1>44 DEF Prompt, context, queues, run, flags, tail, bounds, Lines, Typed, TypeOK
<1>45. ASSUME NEW w \in BOOLEAN, Abort(w) PROVE Lines'
  <2>1. steerQ \in Seq(Inputs) /\ followQ \in Seq(Inputs) /\ withdrawnQ \in Seq(Inputs)
    BY DEF Typed, TypeOK, Inputs
  <2>2. steerQ \o followQ \in Seq(Inputs)
    BY <2>1
  <2>3. withdrawnQ \o (steerQ \o followQ) \in Seq(Inputs) /\ <<>> \in Seq(Inputs)
    BY <2>1, <2>2
  <2>4. withdrawnQ' \in Seq(Inputs)
    BY <1>45, <2>1, <2>3 DEF Abort
  <2>5. <<>> \in Seq(Steers) /\ <<>> \in Seq(FollowUps)
    BY EmptySeq
  <2> QED
    BY <1>45, <2>4, <2>5 DEF Abort, run, Lines, Typed, TypeOK
<1>46. ASSUME NEW w \in BOOLEAN, AbortRetry(w) PROVE Lines'
  BY <1>0, <1>46 DEF AbortRetry, context, queues, run, flags, tail, bounds, Lines, Typed, TypeOK
<1>47. CASE CtxAbort
  BY <1>0, <1>47 DEF CtxAbort, context, queues, run, flags, tail, bounds, Lines, Typed, TypeOK
<1>48. CASE CancelPrompt
  BY <1>0, <1>48 DEF CancelPrompt, context, queues, run, flags, tail, bounds, Lines, Typed, TypeOK
<1> QED
  BY <1>1, <1>2, <1>3, <1>4, <1>5, <1>6, <1>7, <1>8, <1>9, <1>10, <1>11, <1>12, <1>13, <1>14, <1>15,
     <1>16, <1>17, <1>18, <1>19, <1>20, <1>21, <1>22, <1>23, <1>24, <1>25, <1>26, <1>27, <1>28, <1>29,
     <1>30, <1>31, <1>32, <1>33, <1>34, <1>35, <1>36, <1>37, <1>38, <1>39, <1>40, <1>41, <1>42, <1>43,
     <1>44, <1>45, <1>46, <1>47, <1>48 DEF Next, Turn, TailStep, Callers

LEMMA FatesKept ==
  ASSUME Typed, Next
  PROVE  Fates'
<1>0. scope' = scope /\ scope \in Scopes /\ scope.retries \in Nat
  BY InputsAssumption DEF Next, Typed, TypeOK
<1>1. CASE TurnAway
  BY <1>0, <1>1 DEF TurnAway, context, queues, run, flags, tail, bounds, Fates, Typed, TypeOK, Becomes
<1>2. CASE Accept
  BY <1>0, <1>2 DEF Accept, context, queues, run, flags, tail, bounds, Fates, Typed, TypeOK, Becomes
<1>3. CASE SetupFails
  BY <1>0, <1>3 DEF SetupFails, context, queues, run, flags, tail, bounds, Fates, Typed, TypeOK, Becomes
<1>4. CASE FirstRun
  BY <1>0, <1>4 DEF FirstRun, context, queues, run, flags, tail, bounds, Fates, Typed, TypeOK, Becomes
<1>5. CASE BuildFails
  BY <1>0, <1>5 DEF BuildFails, context, queues, run, flags, tail, bounds, Fates, Typed, TypeOK, Becomes
<1>6. CASE StartLoop
  BY <1>0, <1>6 DEF StartLoop, context, queues, run, flags, tail, bounds, Fates, Typed, TypeOK, Becomes
<1>7. CASE CommitInput
  BY <1>0, <1>7 DEF CommitInput, context, queues, run, flags, tail, bounds, Fates, Typed, TypeOK,
     Becomes
<1>8. CASE StoreInput
  <2>1. Head(todo) \in Inputs
    BY <1>8 DEF StoreInput, Typed, TypeOK, Carried
  <2> QED
    BY <1>8, <2>1 DEF StoreInput, flags, Fates, Typed, TypeOK
<1>9. CASE FirstSteer
  BY <1>0, <1>9 DEF FirstSteer, TakeSteer, context, queues, run, flags, tail, bounds, Fates, Typed,
     TypeOK, Becomes
<1>10. CASE Request
  BY <1>0, <1>10 DEF Request, context, queues, run, flags, tail, bounds, Fates, Typed, TypeOK, Becomes
<1>11. ASSUME NEW k \in {"ok", "tools", "retryable", "overflow", "fatal"}, Answer(k) PROVE Fates'
  BY <1>0, <1>11 DEF Answer, context, queues, run, flags, tail, bounds, Fates, Typed, TypeOK, Becomes
<1>12. CASE StoreAnswer
  BY <1>0, <1>12 DEF StoreAnswer, context, queues, run, flags, tail, bounds, Fates, Typed, TypeOK,
     Becomes
<1>13. CASE ProviderRaises
  BY <1>0, <1>13 DEF ProviderRaises, context, queues, run, flags, tail, bounds, Fates, Typed, TypeOK,
     Becomes
<1>14. CASE ToolsEnd
  BY <1>0, <1>14 DEF ToolsEnd, context, queues, run, flags, tail, bounds, Fates, Typed, TypeOK, Becomes
<1>15. CASE TurnEnds
  BY <1>0, <1>15 DEF TurnEnds, TakeSteer, context, queues, run, flags, tail, bounds, Fates, Typed,
     TypeOK, Becomes
<1>16. CASE RunReturns
  BY <1>0, <1>16 DEF RunReturns, context, queues, run, flags, tail, bounds, Fates, Typed, TypeOK,
     Becomes
<1>17. CASE Unwind
  <2>1. ToSet(FirstOf(todo)) \in SUBSET Inputs
    <3>1. FirstOf(todo) \in Seq(Inputs)
      BY Parts DEF Typed, TypeOK
    <3> QED
      BY <3>1 DEF ToSet
  <2> QED
    BY <1>17, <2>1 DEF Unwind, Becomes, flags, Fates, Typed, TypeOK
<1>18. CASE Closeout
  <2>1. CASE Withdraw \/ WithdrawCut
    BY <1>18, <2>1, WithdrawTypes DEF Closeout, flags, Fates, Typed, TypeOK
  <2> QED
    BY <1>18, <2>1 DEF Closeout, Keep, flags, context, Fates, Typed, TypeOK
<1>19. CASE CloseoutCut
  <2>1. CASE Withdraw \/ WithdrawCut
    BY <1>19, <2>1, WithdrawTypes DEF CloseoutCut, flags, Fates, Typed, TypeOK
  <2> QED
    BY <1>19, <2>1 DEF CloseoutCut, flags, context, Fates, Typed, TypeOK
<1>20. CASE CloseoutEnds
  BY <1>0, <1>20 DEF CloseoutEnds, context, queues, run, flags, tail, bounds, Fates, Typed, TypeOK,
     Becomes
<1>21. CASE RetryStarts
  BY <1>0, <1>21 DEF RetryStarts, context, queues, run, flags, tail, bounds, Fates, Typed, TypeOK,
     Becomes
<1>22. CASE RunsOver
  BY <1>0, <1>22 DEF RunsOver, context, queues, run, flags, tail, bounds, Fates, Typed, TypeOK, Becomes
<1>23. CASE Countdown
  BY <1>0, <1>23 DEF Countdown, context, queues, run, flags, tail, bounds, Fates, Typed, TypeOK, Becomes
<1>24. CASE RetryRuns
  BY <1>0, <1>24 DEF RetryRuns, Rerun, context, queues, run, flags, tail, bounds, Fates, Typed, TypeOK,
     Becomes
<1>25. CASE RetryStops
  BY <1>0, <1>25 DEF RetryStops, context, queues, run, flags, tail, bounds, Fates, Typed, TypeOK,
     Becomes
<1>26. CASE NoRecovery
  BY <1>0, <1>26 DEF NoRecovery, context, queues, run, flags, tail, bounds, Fates, Typed, TypeOK,
     Becomes
<1>27. CASE Recover
  BY <1>0, <1>27 DEF Recover, context, queues, run, flags, tail, bounds, Fates, Typed, TypeOK, Becomes
<1>28. CASE CompactFails
  BY <1>0, <1>28 DEF CompactFails, context, queues, run, flags, tail, bounds, Fates, Typed, TypeOK,
     Becomes
<1>29. CASE CompactWrites
  BY <1>0, <1>29 DEF CompactWrites, context, queues, run, flags, tail, bounds, Fates, Typed, TypeOK,
     Becomes
<1>30. CASE RecoveryRuns
  BY <1>0, <1>30 DEF RecoveryRuns, Rerun, context, queues, run, flags, tail, bounds, Fates, Typed,
     TypeOK, Becomes
<1>31. CASE RecoveryStops
  BY <1>0, <1>31 DEF RecoveryStops, context, queues, run, flags, tail, bounds, Fates, Typed, TypeOK,
     Becomes
<1>32. CASE TailWithdraws
  <2>1. CASE Withdraw \/ WithdrawCut
    BY <1>32, <2>1, WithdrawTypes DEF TailWithdraws, flags, Fates, Typed, TypeOK
  <2> QED
    BY <1>32, <2>1 DEF TailWithdraws, flags, context, Fates, Typed, TypeOK
<1>33. CASE NoThreshold
  BY <1>0, <1>33 DEF NoThreshold, context, queues, run, flags, tail, bounds, Fates, Typed, TypeOK,
     Becomes
<1>34. CASE Threshold
  BY <1>0, <1>34 DEF Threshold, context, queues, run, flags, tail, bounds, Fates, Typed, TypeOK, Becomes
<1>35. CASE ThresholdEnds
  BY <1>0, <1>35 DEF ThresholdEnds, context, queues, run, flags, tail, bounds, Fates, Typed, TypeOK,
     Becomes
<1>36. CASE Raise
  BY <1>0, <1>36 DEF Raise, context, queues, run, flags, tail, bounds, Fates, Typed, TypeOK, Becomes
<1>37. CASE Release
  <2>1. CASE Withdraw \/ WithdrawCut
    BY <1>37, <2>1, WithdrawTypes DEF Release, flags, Fates, Typed, TypeOK
  <2> QED
    BY <1>37, <2>1 DEF Release, Keep, flags, context, Fates, Typed, TypeOK
<1>38. CASE Idle
  BY <1>38 DEF Idle, EmitWithdrawn, Becomes, flags, context, Fates, Typed, TypeOK
<1>39. CASE CutTail
  BY <1>0, <1>39 DEF CutTail, context, queues, run, flags, tail, bounds, Fates, Typed, TypeOK, Becomes
<1>40. CASE CutWithdraw
  <2>1. CASE Withdraw \/ WithdrawCut
    BY <1>40, <2>1, WithdrawTypes DEF CutWithdraw, flags, Fates, Typed, TypeOK
  <2> QED
    BY <1>40, <2>1 DEF CutWithdraw, flags, context, Fates, Typed, TypeOK
<1>41. ASSUME NEW m \in scope.sent, Steer(m) PROVE Fates'
  BY <1>0, <1>41 DEF Steer, context, queues, run, flags, tail, bounds, Fates, Typed, TypeOK, Becomes
<1>42. ASSUME NEW m \in scope.sent, FollowUp(m) PROVE Fates'
  BY <1>0, <1>42 DEF FollowUp, context, queues, run, flags, tail, bounds, Fates, Typed, TypeOK, Becomes
<1>43. ASSUME NEW m \in scope.sent, NextTurn(m) PROVE Fates'
  BY <1>0, <1>43 DEF NextTurn, context, queues, run, flags, tail, bounds, Fates, Typed, TypeOK, Becomes
<1>44. ASSUME NEW m \in scope.sent, Prompt(m) PROVE Fates'
  BY <1>0, <1>44 DEF Prompt, context, queues, run, flags, tail, bounds, Fates, Typed, TypeOK, Becomes
<1>45. ASSUME NEW w \in BOOLEAN, Abort(w) PROVE Fates'
  <2>1. escaped' \subseteq Inputs
    BY <1>45, StakeIs DEF Abort, Typed, TypeOK
  <2>2. fate' \in [Inputs -> {"fresh", "held", "given", "cleared", "missed", "refused"}]
    BY <1>45 DEF Abort, Becomes, Typed, TypeOK
  <2> QED
    BY <1>45, <2>1, <2>2 DEF Abort, context, Fates, Typed, TypeOK
<1>46. ASSUME NEW w \in BOOLEAN, AbortRetry(w) PROVE Fates'
  <2>1. escaped' \subseteq Inputs
    BY <1>46, StakeIs DEF AbortRetry, Typed, TypeOK
  <2>2. fate' \in [Inputs -> {"fresh", "held", "given", "cleared", "missed", "refused"}]
    BY <1>46 DEF AbortRetry, Becomes, Typed, TypeOK
  <2> QED
    BY <1>46, <2>1, <2>2 DEF AbortRetry, context, Fates, Typed, TypeOK
<1>47. CASE CtxAbort
  BY <1>0, <1>47 DEF CtxAbort, context, queues, run, flags, tail, bounds, Fates, Typed, TypeOK, Becomes
<1>48. CASE CancelPrompt
  BY <1>0, <1>48 DEF CancelPrompt, context, queues, run, flags, tail, bounds, Fates, Typed, TypeOK,
     Becomes
<1> QED
  BY <1>1, <1>2, <1>3, <1>4, <1>5, <1>6, <1>7, <1>8, <1>9, <1>10, <1>11, <1>12, <1>13, <1>14, <1>15,
     <1>16, <1>17, <1>18, <1>19, <1>20, <1>21, <1>22, <1>23, <1>24, <1>25, <1>26, <1>27, <1>28, <1>29,
     <1>30, <1>31, <1>32, <1>33, <1>34, <1>35, <1>36, <1>37, <1>38, <1>39, <1>40, <1>41, <1>42, <1>43,
     <1>44, <1>45, <1>46, <1>47, <1>48 DEF Next, Turn, TailStep, Callers

LEMMA TypedInit == Init => Typed /\ Stopping
<1> SUFFICES ASSUME Init PROVE Typed /\ Stopping
  OBVIOUS
<1>1. <<>> \in Seq(Items) /\ <<>> \in Seq(Inputs) /\ <<>> \in Seq(Steers) /\ <<>> \in Seq(FollowUps)
  BY EmptySeq
<1>2. scope \in Scopes /\ scope.retries \in Nat
  BY InputsAssumption DEF Init
<1>3. TypeOK
  <2>1. tracker \in Trackers
    BY <1>1 DEF Init, NoTracker, Trackers
  <2>2. InContext
    <3>1. 0 <= Len(path) /\ tracker.safe = 0 /\ tracker.committed = <<>> /\ ToSet(<<>>) = {}
      BY EmptySeq DEF Init, NoTracker, ToSet
    <3> QED
      BY <1>1, <2>1, <3>1 DEF Init, InContext, Rooted
  <2>3. Lines
    BY <1>1 DEF Init, Lines
  <2>4. Flags
    <3>1. 0 \in 0..scope.retries
      BY <1>2
    <3> QED
      BY <1>2, <3>1 DEF Init, Flags, MaxRetries
  <2>5. Fates
    BY DEF Init, Fates
  <2> QED
    BY <2>2, <2>3, <2>4, <2>5, SameTypes
<1>4. Seated /\ Carried
  BY DEF Init, Seated, Carried, Looping
<1>5. Rooted
  <2>1. Len(<<>>) = 0 /\ ToSet(<<>>) = {}
    BY EmptySeq DEF ToSet
  <2> QED
    BY <2>1 DEF Init, Rooted, NoTracker
<1>6. Stopping
  BY DEF Init, Stopping
<1> QED
  BY <1>3, <1>4, <1>5, <1>6 DEF Typed

LEMMA TypedNext == Typed /\ Stopping /\ [Next]_vars => Typed' /\ Stopping'
<1> SUFFICES ASSUME Typed, Stopping, [Next]_vars PROVE Typed' /\ Stopping'
  OBVIOUS
<1>1. CASE Next
  <2>1. Seated' /\ Carried'
    BY <1>1, SeatedKept, CarriedKept DEF Typed
  <2>2. InContext' /\ Flags' /\ Lines' /\ Fates'
    BY <1>1, ContextKept, FlagsKept, LinesKept, FatesKept
  <2>3. TypeOK'
    BY <2>2 DEF TypeOK, Flags, Lines, Fates, InContext, Items, Trackers, MaxRetries
  <2>4. Stopping'
    BY <1>1, StoppingKept DEF Typed
  <2> QED
    BY <2>1, <2>2, <2>3, <2>4 DEF Typed, InContext
<1>2. CASE UNCHANGED vars
  <2>1. TypeOK'
    BY <1>2 DEF vars, context, queues, run, flags, tail, bounds, Typed, TypeOK, MaxRetries
  <2>2. Seated' /\ Carried'
    BY <1>2 DEF vars, context, queues, run, flags, tail, bounds, Typed, Seated, Carried
  <2>3. Rooted' /\ Stopping'
    BY <1>2 DEF vars, context, queues, run, flags, tail, bounds, Typed, Rooted, Stopping
  <2> QED
    BY <2>1, <2>2, <2>3 DEF Typed
<1> QED
  BY <1>1, <1>2

\* Every value stays what the model says it is; the retries of a prompt stay within the limit.
THEOREM TypesHold == Spec => []TypeOK
<1>1. Typed => TypeOK
  BY DEF Typed
<1> QED
  BY <1>1, TypedInit, TypedNext, PTL DEF Spec

LEMMA SendsOnly ==
  ASSUME pc # "request", Next
  PROVE  Request \/ pc' # "request"
<1>1. CASE TurnAway
  BY <1>1 DEF TurnAway, context, queues, run, flags, tail, bounds
<1>2. CASE Accept
  BY <1>2 DEF Accept, context, queues, run, flags, tail, bounds
<1>3. CASE SetupFails
  BY <1>3 DEF SetupFails, context, queues, run, flags, tail, bounds
<1>4. CASE FirstRun
  BY <1>4 DEF FirstRun, context, queues, run, flags, tail, bounds
<1>5. CASE BuildFails
  BY <1>5 DEF BuildFails, context, queues, run, flags, tail, bounds
<1>6. CASE StartLoop
  BY <1>6 DEF StartLoop, context, queues, run, flags, tail, bounds
<1>7. CASE CommitInput
  BY <1>7 DEF CommitInput, context, queues, run, flags, tail, bounds
<1>8. CASE StoreInput
  BY <1>8 DEF StoreInput, context, queues, run, flags, tail, bounds
<1>9. CASE FirstSteer
  BY <1>9 DEF FirstSteer, TakeSteer, context, queues, run, flags, tail, bounds
<1>10. CASE Request
  BY <1>10 DEF Request, context, queues, run, flags, tail, bounds
<1>11. ASSUME NEW k \in {"ok", "tools", "retryable", "overflow", "fatal"}, Answer(k) PROVE Request \/ pc' # "request"
  BY <1>11 DEF Answer, context, queues, run, flags, tail, bounds
<1>12. CASE StoreAnswer
  BY <1>12 DEF StoreAnswer, context, queues, run, flags, tail, bounds
<1>13. CASE ProviderRaises
  BY <1>13 DEF ProviderRaises, context, queues, run, flags, tail, bounds
<1>14. CASE ToolsEnd
  BY <1>14 DEF ToolsEnd, context, queues, run, flags, tail, bounds
<1>15. CASE TurnEnds
  BY <1>15 DEF TurnEnds, TakeSteer, context, queues, run, flags, tail, bounds
<1>16. CASE RunReturns
  BY <1>16 DEF RunReturns, context, queues, run, flags, tail, bounds
<1>17. CASE Unwind
  BY <1>17 DEF Unwind, context, queues, run, flags, tail, bounds
<1>18. CASE Closeout
  BY <1>18 DEF Closeout, context, queues, run, flags, tail, bounds
<1>19. CASE CloseoutCut
  BY <1>19 DEF CloseoutCut, context, queues, run, flags, tail, bounds
<1>20. CASE CloseoutEnds
  BY <1>20 DEF CloseoutEnds, context, queues, run, flags, tail, bounds
<1>21. CASE RetryStarts
  BY <1>21 DEF RetryStarts, context, queues, run, flags, tail, bounds
<1>22. CASE RunsOver
  BY <1>22 DEF RunsOver, Onward, ToThreshold, context, queues, run, flags, tail, bounds
<1>23. CASE Countdown
  BY <1>23 DEF Countdown, context, queues, run, flags, tail, bounds
<1>24. CASE RetryRuns
  BY <1>24 DEF RetryRuns, Rerun, context, queues, run, flags, tail, bounds
<1>25. CASE RetryStops
  BY <1>25 DEF RetryStops, Onward, ToThreshold, context, queues, run, flags, tail, bounds
<1>26. CASE NoRecovery
  BY <1>26 DEF NoRecovery, Onward, ToThreshold, context, queues, run, flags, tail, bounds
<1>27. CASE Recover
  BY <1>27 DEF Recover, context, queues, run, flags, tail, bounds
<1>28. CASE CompactFails
  BY <1>28 DEF CompactFails, Onward, ToThreshold, context, queues, run, flags, tail, bounds
<1>29. CASE CompactWrites
  BY <1>29 DEF CompactWrites, context, queues, run, flags, tail, bounds
<1>30. CASE RecoveryRuns
  BY <1>30 DEF RecoveryRuns, Rerun, context, queues, run, flags, tail, bounds
<1>31. CASE RecoveryStops
  BY <1>31 DEF RecoveryStops, Onward, ToThreshold, context, queues, run, flags, tail, bounds
<1>32. CASE TailWithdraws
  BY <1>32 DEF TailWithdraws, context, queues, run, flags, tail, bounds
<1>33. CASE NoThreshold
  BY <1>33 DEF NoThreshold, context, queues, run, flags, tail, bounds
<1>34. CASE Threshold
  BY <1>34 DEF Threshold, context, queues, run, flags, tail, bounds
<1>35. CASE ThresholdEnds
  BY <1>35 DEF ThresholdEnds, context, queues, run, flags, tail, bounds
<1>36. CASE Raise
  BY <1>36 DEF Raise, context, queues, run, flags, tail, bounds
<1>37. CASE Release
  BY <1>37 DEF Release, context, queues, run, flags, tail, bounds
<1>38. CASE Idle
  BY <1>38 DEF Idle, context, queues, run, flags, tail, bounds
<1>39. CASE CutTail
  BY <1>39 DEF CutTail, context, queues, run, flags, tail, bounds
<1>40. CASE CutWithdraw
  BY <1>40 DEF CutWithdraw, context, queues, run, flags, tail, bounds
<1>41. ASSUME NEW m \in scope.sent, Steer(m) PROVE Request \/ pc' # "request"
  BY <1>41 DEF Steer, context, queues, run, flags, tail, bounds
<1>42. ASSUME NEW m \in scope.sent, FollowUp(m) PROVE Request \/ pc' # "request"
  BY <1>42 DEF FollowUp, context, queues, run, flags, tail, bounds
<1>43. ASSUME NEW m \in scope.sent, NextTurn(m) PROVE Request \/ pc' # "request"
  BY <1>43 DEF NextTurn, context, queues, run, flags, tail, bounds
<1>44. ASSUME NEW m \in scope.sent, Prompt(m) PROVE Request \/ pc' # "request"
  BY <1>44 DEF Prompt, context, queues, run, flags, tail, bounds
<1>45. ASSUME NEW w \in BOOLEAN, Abort(w) PROVE Request \/ pc' # "request"
  BY <1>45 DEF Abort, context, queues, run, flags, tail, bounds
<1>46. ASSUME NEW w \in BOOLEAN, AbortRetry(w) PROVE Request \/ pc' # "request"
  BY <1>46 DEF AbortRetry, context, queues, run, flags, tail, bounds
<1>47. CASE CtxAbort
  BY <1>47 DEF CtxAbort, context, queues, run, flags, tail, bounds
<1>48. CASE CancelPrompt
  BY <1>48 DEF CancelPrompt, context, queues, run, flags, tail, bounds
<1> QED
  BY <1>1, <1>2, <1>3, <1>4, <1>5, <1>6, <1>7, <1>8, <1>9, <1>10, <1>11, <1>12, <1>13, <1>14, <1>15,
     <1>16, <1>17, <1>18, <1>19, <1>20, <1>21, <1>22, <1>23, <1>24, <1>25, <1>26, <1>27, <1>28, <1>29,
     <1>30, <1>31, <1>32, <1>33, <1>34, <1>35, <1>36, <1>37, <1>38, <1>39, <1>40, <1>41, <1>42, <1>43,
     <1>44, <1>45, <1>46, <1>47, <1>48 DEF Next, Turn, TailStep, Callers

\* After an abort() its prompt sends the model nothing more, wherever the abort met it (`_run' with `aborted_before',
\* `_retry_backoff_aborted', `_try_overflow_recovery'; #334, #684): no first request, no later one, no re-run.
THEOREM AbortSends == Spec => AbortSendsNothing
<1> DEFINE Sends == pc # "request" /\ pc' = "request" => stopped \notin {"entry", "yes"}
<1>1. Typed /\ Stopping /\ [Next]_vars => [Sends]_vars
  <2> SUFFICES ASSUME Typed, Stopping, Next, pc # "request", pc' = "request"
               PROVE  stopped \notin {"entry", "yes"}
    OBVIOUS
  <2>1. Request \/ pc' # "request"
    BY SendsOnly DEF Typed
  <2>2. pc = "feeding" /\ cut = "none"
    BY <2>1 DEF Request
  <2> QED
    BY <2>2 DEF Stopping, Looping
<1>2. Spec => [](Typed /\ Stopping)
  BY TypedInit, TypedNext, PTL DEF Spec
<1> QED
  BY <1>1, <1>2, PTL DEF Spec, AbortSendsNothing

-----------------------------------------------------------------------------
\* What the running turn carries, as one sequence, and the input whose append is awaited.
Carrying ==
  IF pc = "asked" THEN <<current>>
  ELSE IF pc = "setup" THEN drained \o <<current>>
  ELSE IF pc = "feeding" THEN (IF storing THEN Tail(todo) ELSE todo)
  ELSE open
Waiting == IF storing /\ pc # "answered" THEN <<Head(todo)>> ELSE <<>>

Elsewhere(m) == IF fate[m] = "held" THEN 0 ELSE 1
Counted(m) == Times(m, nextQ) + Times(m, steerQ) + Times(m, followQ) + Times(m, withdrawnQ)
              + Times(m, live) + Times(m, Carrying) + Elsewhere(m)

\* An input the session did not refuse is somewhere once, counting the turn's own inputs one by one.
Counts == \A m \in Inputs \ astray : Counted(m) = 1

\* The session's branch holds the inputs of the live context but the one being stored.
Matches == InputsOf(live) = InputsOf(path \o Waiting)

\* What the tracker points at comes after all that a withdrawal leaves.
Behind ==
  /\ tracker.committed # <<>> => \A i \in 1..(FirstAt(live, Head(tracker.committed)) - 1) :
       live[i] \notin ToSet(tracker.committed) \ astray
  /\ \A i \in 1..tracker.safe : path[i] \notin ToSet(tracker.committed) \ astray
  /\ \A m \in Inputs \ astray : Times(m, tracker.committed) <= Times(m, live)

LEMMA CarryingTyped ==
  ASSUME Typed
  PROVE  Carrying \in Seq(Inputs) /\ (storing /\ pc # "answered" => todo # <<>> /\ Head(todo) \in Inputs)
<1>1. <<>> \in Seq(Inputs) /\ drained \in Seq(Inputs) /\ todo \in Seq(Inputs) /\ open \in Seq(Inputs)
  BY EmptySeq DEF Typed, TypeOK
<1>2. pc # "idle" => <<current>> \in Seq(Inputs)
  <2>1. pc # "idle" => current \in Inputs
    BY DEF Typed, Seated, Inputs
  <2> QED
    BY <2>1
<1>3. pc # "idle" => drained \o <<current>> \in Seq(Inputs)
  BY <1>1, <1>2, ConcatProperties
<1>4. todo # <<>> => Tail(todo) \in Seq(Inputs) /\ Head(todo) \in Inputs
  BY <1>1, HeadTailProperties
<1> QED
  BY <1>1, <1>2, <1>3, <1>4 DEF Carrying, Typed, Carried

LEMMA InputsOfMeans ==
  ASSUME NEW s \in Seq(Items), NEW m \in Inputs \ astray
  PROVE  Times(m, InputsOf(s)) = Times(m, s) /\ Times(m, s) \in Nat
<1>1. m \notin Answers \cup Failures \cup astray
  BY InputsAssumption
<1> QED
  BY <1>1, TimesWithout, TimesIn DEF InputsOf

LEMMA WaitingTyped ==
  ASSUME Typed
  PROVE  Waiting \in Seq(Items) /\ path \in Seq(Items) /\ path \o Waiting \in Seq(Items) /\ live \in Seq(Items)
<1>1. Waiting \in Seq(Items)
  <2>1. <<>> \in Seq(Items)
    BY EmptySeq
  <2>2. storing /\ pc # "answered" => <<Head(todo)>> \in Seq(Items)
    <3>1. storing /\ pc # "answered" => Head(todo) \in Items
      BY CarryingTyped DEF Items
    <3> QED
      BY <3>1
  <2> QED
    BY <2>1, <2>2 DEF Waiting
<1>2. path \in Seq(Items) /\ live \in Seq(Items)
  BY DEF Typed, TypeOK, Items
<1> QED
  BY <1>1, <1>2, ConcatProperties

\* An input that is not in the live context is not on the branch either.
LEMMA AbsentFromPath ==
  ASSUME Typed, Matches, NEW m \in Inputs \ astray
  PROVE  Times(m, path) <= Times(m, live) /\ (Waiting = <<>> => Times(m, path) = Times(m, live))
<1>1. Waiting \in Seq(Items) /\ path \in Seq(Items) /\ path \o Waiting \in Seq(Items) /\ live \in Seq(Items)
  BY WaitingTyped
<1>2. Times(m, live) = Times(m, path \o Waiting)
  <2>1. Times(m, InputsOf(live)) = Times(m, live) /\ Times(m, InputsOf(path \o Waiting)) = Times(m, path \o Waiting)
    BY <1>1, InputsOfMeans
  <2> QED
    BY <2>1 DEF Matches
<1>3. Times(m, path \o Waiting) = Times(m, path) + Times(m, Waiting)
  BY <1>1, TimesBoth
<1>4. Times(m, path) \in Nat /\ Times(m, Waiting) \in Nat
  BY <1>1, TimesIn
<1>5. Waiting = <<>> => Times(m, Waiting) = 0
  <2>1. ToSet(<<>>) = {} /\ <<>> \in Seq(Items)
    BY EmptySeq DEF ToSet
  <2> QED
    BY <2>1, TimesIn
<1> QED
  BY <1>2, <1>3, <1>4, <1>5

\* An input the turn carries is neither in the context nor on the branch.
LEMMA CarriedIsNew ==
  ASSUME Typed, Counts, Matches, NEW m \in Inputs \ astray, m \in ToSet(Carrying)
  PROVE  /\ Times(m, live) = 0 /\ Times(m, path) = 0
         /\ m \notin ToSet(live) /\ m \notin ToSet(path)
         /\ Times(m, Carrying) = 1 /\ fate[m] = "held"
<1>1. /\ Times(m, nextQ) \in Nat /\ Times(m, steerQ) \in Nat /\ Times(m, followQ) \in Nat
      /\ Times(m, withdrawnQ) \in Nat
  BY TimesIn DEF Typed, TypeOK
<1>2. live \in Seq(Items) /\ path \in Seq(Items) /\ Carrying \in Seq(Inputs)
  BY WaitingTyped, CarryingTyped
<1>3. /\ Times(m, live) \in Nat /\ (Times(m, live) = 0 <=> m \notin ToSet(live))
      /\ Times(m, path) \in Nat /\ (Times(m, path) = 0 <=> m \notin ToSet(path))
      /\ Times(m, Carrying) \in Nat \ {0}
  BY <1>2, TimesIn
<1>4. Counted(m) = 1
  BY DEF Counts
<1>5. Times(m, live) = 0 /\ Times(m, Carrying) = 1 /\ Elsewhere(m) = 0
  <2>1. \A a, b, c, d, e, g, h \in Nat : a + b + c + d + e + g + h = 1 /\ g # 0 => e = 0 /\ g = 1 /\ h = 0
    OBVIOUS
  <2>2. Elsewhere(m) \in Nat
    BY DEF Elsewhere
  <2>3. Times(m, nextQ) + Times(m, steerQ) + Times(m, followQ) + Times(m, withdrawnQ)
          + Times(m, live) + Times(m, Carrying) + Elsewhere(m) = 1
    BY <1>4 DEF Counted
  <2> QED
    BY <1>1, <1>3, <2>1, <2>2, <2>3
<1>6. Times(m, path) <= Times(m, live)
  BY AbsentFromPath
<1> QED
  BY <1>3, <1>5, <1>6 DEF Elsewhere

LEMMA SteadyTimes ==
  ASSUME NEW s \in Seq(Items), NEW t \in Seq(Items), Steady(s, t), NEW m \in Inputs
  PROVE  Times(m, t) = Times(m, s) /\ Times(m, s) \in Nat
<1>1. Without(t, Answers \cup Failures) = Without(s, Answers \cup Failures)
  BY DEF Steady
<1>2. m \notin Answers \cup Failures
  BY InputsAssumption
<1> QED
  BY <1>1, <1>2, TimesWithout, TimesIn

LEMMA OnceLive ==
  ASSUME Typed, Counts, NEW m \in Inputs \ astray
  PROVE  Times(m, live) \in {0, 1}
<1>1. /\ Times(m, nextQ) \in Nat /\ Times(m, steerQ) \in Nat /\ Times(m, followQ) \in Nat
      /\ Times(m, withdrawnQ) \in Nat
  BY TimesIn DEF Typed, TypeOK
<1>2. live \in Seq(Items) /\ Carrying \in Seq(Inputs)
  BY CarryingTyped DEF Typed, TypeOK, Items
<1>3. Times(m, live) \in Nat /\ Times(m, Carrying) \in Nat
  BY <1>2, TimesIn
<1>4. Elsewhere(m) \in Nat
  BY DEF Elsewhere
<1>5. Times(m, nextQ) + Times(m, steerQ) + Times(m, followQ) + Times(m, withdrawnQ)
        + Times(m, live) + Times(m, Carrying) + Elsewhere(m) = 1
  BY DEF Counts, Counted
<1> DEFINE a == Times(m, nextQ)
           b == Times(m, steerQ)
           c == Times(m, followQ)
           d == Times(m, withdrawnQ)
           e == Times(m, live)
           g == Times(m, Carrying)
           h == Elsewhere(m)
<1>6. a \in Nat /\ b \in Nat /\ c \in Nat /\ d \in Nat /\ e \in Nat /\ g \in Nat /\ h \in Nat
  BY <1>1, <1>3, <1>4
<1>7. a + b + c + d + e + g + h = 1
  BY <1>5
<1> HIDE DEF a, b, c, d, e, g, h
<1>8. e \in {0, 1}
  BY <1>6, <1>7
<1> QED
  BY <1>8 DEF e

-----------------------------------------------------------------------------
\* The tracker points at the tail of what it saw committed, whatever happens to the context.
LEMMA BehindKept ==
  ASSUME Typed, Typed', Behind, Counts, Matches, Next
  PROVE  Behind'
<1>1. /\ live \in Seq(Items) /\ path \in Seq(Items) /\ tracker.committed \in Seq(Inputs)
      /\ ToSet(tracker.committed) \in SUBSET Inputs /\ Len(path) \in Nat /\ tracker.safe \in Nat
      /\ tracker.safe <= Len(path) /\ ToSet(tracker.committed) \subseteq ToSet(live)
  <2>1. tracker.committed \in Seq(Inputs)
    BY DEF Typed, TypeOK
  <2>2. ToSet(tracker.committed) \in SUBSET Inputs
    BY <2>1 DEF ToSet
  <2>3. Rooted /\ TypeOK
    BY DEF Typed
  <2>4. live \in Seq(Items) /\ path \in Seq(Items) /\ tracker.safe \in Nat
    BY <2>3 DEF TypeOK, Items
  <2>5. Len(path) \in Nat
    BY <2>4
  <2> QED
    BY <2>1, <2>2, <2>3, <2>4, <2>5 DEF Rooted
<1>2. tracker.committed # <<>> =>
        Head(tracker.committed) \in Inputs \cap ToSet(tracker.committed) /\ Head(tracker.committed) \in Inputs \cap ToSet(live)
  <2>1. tracker.committed # <<>> => Head(tracker.committed) \in ToSet(tracker.committed)
    BY <1>1, EmptySeq DEF ToSet
  <2> QED
    BY <1>1, <2>1
<1>3. live' \in Seq(Items) /\ path' \in Seq(Items) /\ \A m : Times(m, live') \in Nat
  <2>1. live' \in Seq(Items) /\ path' \in Seq(Items)
    BY DEF Typed, TypeOK, Items
  <2> QED
    BY <2>1, TimesIn
<1>4. ASSUME tracker'.committed = <<>> PROVE Behind'
  <2>1. ToSet(<<>>) = {} /\ \A m : Times(m, <<>>) = 0
    <3>1. ToSet(<<>>) = {} /\ <<>> \in Seq(Inputs)
      BY EmptySeq DEF ToSet
    <3> QED
      BY <3>1, TimesIn
  <2>2. \A m \in Inputs : Times(m, tracker'.committed) <= Times(m, live')
    BY <1>3, <1>4, <2>1
  <2> QED
    BY <1>4, <2>1, <2>2 DEF Behind
<1>5. ASSUME tracker' = tracker, astray \subseteq astray', Steady(live, live'),
             path' = path \/ \E k \in Items : path' = Append(path, k)
      PROVE  Behind'
  <2>1. \A i \in 1..tracker.safe : path'[i] = path[i]
    BY <1>1, <1>5
  <2>2. tracker.committed # <<>> =>
          /\ FirstAt(live', Head(tracker.committed)) = FirstAt(live, Head(tracker.committed))
          /\ \A i \in 1..(FirstAt(live, Head(tracker.committed)) - 1) : live'[i] = live[i]
    BY <1>2, <1>5 DEF Steady
  <2>3. \A m \in Inputs : Times(m, live') = Times(m, live)
    BY <1>1, <1>3, <1>5, SteadyTimes
  <2>4. tracker'.committed # <<>> => \A i \in 1..(FirstAt(live', Head(tracker'.committed)) - 1) :
          live'[i] \notin ToSet(tracker'.committed) \ astray'
    BY <1>5, <2>2 DEF Behind
  <2>5. \A i \in 1..tracker'.safe : path'[i] \notin ToSet(tracker'.committed) \ astray'
    BY <1>5, <2>1 DEF Behind
  <2>6. \A m \in Inputs \ astray' : Times(m, tracker'.committed) <= Times(m, live')
    BY <1>5, <2>3 DEF Behind
  <2> QED
    BY <2>4, <2>5, <2>6 DEF Behind
<1>6. CASE Quiet
  <2>1. Steady(live, live') /\ astray \subseteq astray'
    BY <1>1, <1>6, NudgedMeans DEF Quiet
  <2>2. path' = path \/ \E k \in Items : path' = Append(path, k)
    BY <1>6 DEF Quiet, Items
  <2> QED
    BY <1>4, <1>5, <1>6, <2>1, <2>2 DEF Quiet, Eased
<1>7. CASE StoreInput
  <2>1. Head(todo) \in Items
    BY <1>7 DEF StoreInput, Typed, TypeOK, Carried, Items
  <2>2. Nudged(live, live') /\ tracker' = tracker /\ astray \subseteq astray'
    BY <1>1, <1>7 DEF StoreInput, Nudged
  <2>3. path' = path \/ path' = Append(path, Head(todo))
    BY <1>7 DEF StoreInput
  <2> QED
    BY <1>1, <1>5, <2>1, <2>2, <2>3, NudgedMeans
<1>8. CASE CommitInput
  <2> DEFINE C == tracker.committed
             h == Head(todo)
  <2>1. h \in Inputs /\ h \in Items /\ h \in ToSet(Carrying)
    <3>1. todo # <<>> /\ todo \in Seq(Inputs) /\ pc \in {"prompts", "feeding"} /\ ~storing
      BY <1>8 DEF CommitInput, Typed, TypeOK
    <3>2. h \in Inputs /\ h \in ToSet(todo)
      BY <3>1, EmptySeq DEF ToSet
    <3>3. Carrying = todo
      BY <3>1 DEF Carrying, Typed, Carried
    <3> QED
      BY <3>2, <3>3 DEF Items
  <2>2. live' = Append(live, h) /\ path' = path /\ astray' = astray
    BY <1>8 DEF CommitInput
  <2>3. tracker' = [on |-> tracker.on, safe |-> tracker.safe, committed |-> IF tracker.on THEN Append(C, h) ELSE C]
    BY <1>8, <2>1, TrackerIs DEF CommitInput, Typed
  <2>4. h \notin astray => h \notin ToSet(live) /\ h \notin ToSet(path) /\ Times(h, live) = 0
    BY <2>1, CarriedIsNew
  <2>5. C # <<>> => /\ FirstAt(live', Head(C)) = FirstAt(live, Head(C))
                    /\ \A i \in 1..(FirstAt(live, Head(C)) - 1) : i \in 1..Len(live) /\ live'[i] = live[i]
    BY <1>1, <1>2, <2>1, <2>2, FirstAtMore
  <2>6. \A m : Times(m, live') = Times(m, live) + (IF h = m THEN 1 ELSE 0)
             /\ Times(m, live) \in Nat /\ Times(m, C) \in Nat
             /\ Times(m, Append(C, h)) = Times(m, C) + (IF h = m THEN 1 ELSE 0)
    BY <1>1, <2>1, <2>2, TimesMore
  <2>7. CASE ~tracker.on
    <3>1. tracker'.committed = C /\ tracker'.safe = tracker.safe
      BY <2>3, <2>7
    <3>2. C # <<>> => \A i \in 1..(FirstAt(live', Head(C)) - 1) : live'[i] \notin ToSet(C) \ astray'
      BY <2>2, <2>5 DEF Behind
    <3>3. \A m \in Inputs \ astray' : Times(m, C) <= Times(m, live')
      BY <2>2, <2>6 DEF Behind
    <3> QED
      BY <2>2, <3>1, <3>2, <3>3 DEF Behind
  <2>8. CASE tracker.on
    <3>1. tracker'.committed = Append(C, h) /\ tracker'.safe = tracker.safe
      BY <2>3, <2>8
    <3>2. ToSet(Append(C, h)) = ToSet(C) \cup {h} /\ Append(C, h) # <<>>
      <4>1. ToSet(Append(C, h)) = ToSet(C) \cup {h}
        BY <1>1, <2>1, Members
      <4>2. Append(C, h) # <<>>
        BY <1>1, <2>1, AppendProperties
      <4> QED
        BY <4>1, <4>2
    <3>3. \A i \in 1..(FirstAt(live', Head(Append(C, h))) - 1) : live'[i] \notin ToSet(Append(C, h)) \ astray'
      <4>1. CASE C = <<>>
        <5>1. Head(Append(C, h)) = h /\ ToSet(C) = {}
          BY <1>1, <2>1, <4>1, EmptySeq DEF ToSet
        <5>2. h \in ToSet(live')
          BY <1>1, <2>1, <2>2, Members
        <5>3. \A i \in 1..(FirstAt(live', h) - 1) : live'[i] # h
          BY <1>3, <5>2, FirstAtIs
        <5> QED
          BY <3>2, <5>1, <5>3
      <4>2. CASE C # <<>>
        <5>1. Head(Append(C, h)) = Head(C)
          BY <1>1, <2>1, <4>2
        <5>2. \A i \in 1..Len(live) : live[i] \in ToSet(live)
          BY <1>1 DEF ToSet
        <5>3. \A i \in 1..(FirstAt(live, Head(C)) - 1) : live[i] \notin ToSet(C) \ astray /\ live'[i] = live[i] /\ live[i] \in ToSet(live)
          BY <2>5, <4>2, <5>2 DEF Behind
        <5> QED
          BY <2>2, <2>4, <2>5, <3>2, <4>2, <5>1, <5>3
      <4> QED
        BY <4>1, <4>2
    <3>4. \A i \in 1..tracker.safe : path'[i] \notin ToSet(Append(C, h)) \ astray'
      <4>1. \A i \in 1..tracker.safe : path[i] \in ToSet(path)
        BY <1>1 DEF ToSet
      <4>2. \A i \in 1..tracker.safe : path[i] \notin ToSet(C) \ astray
        BY DEF Behind
      <4> QED
        BY <2>2, <2>4, <3>2, <4>1, <4>2
    <3>5. \A m \in Inputs \ astray' : Times(m, Append(C, h)) <= Times(m, live')
      <4>1. \A m \in Inputs \ astray : Times(m, C) <= Times(m, live)
        BY DEF Behind
      <4> QED
        BY <2>2, <2>6, <4>1
    <3> QED
      BY <3>1, <3>3, <3>4, <3>5 DEF Behind
  <2> QED
    BY <2>7, <2>8
<1>9. CASE Compacting
  BY <1>4, <1>9 DEF Compacting, Compacted, NoTracker
<1>10. CASE Withdrawing
  <2>1. CASE UNCHANGED <<context, tracker>>
    BY <2>1 DEF Behind, context
  <2>2. CASE tracker' = NoTracker
    BY <1>4, <2>2 DEF NoTracker
  <2> QED
    BY <1>10, <2>1, <2>2 DEF Withdrawing, Withdraw, WithdrawCut, context
<1> QED
  BY <1>6, <1>7, <1>8, <1>9, <1>10, ContextSteps

-----------------------------------------------------------------------------
\* Only a commit leaves an input to be stored, and only its store or the loop's end clears it.
LEMMA WaitingKept ==
  ASSUME Typed, Next
  PROVE  Waiting' = Waiting \/ CommitInput \/ StoreInput \/ Unwind
<1>1. CASE TurnAway
  BY <1>1 DEF TurnAway, context, queues, run, flags, tail, bounds, Waiting, Typed, Carried, Looping
<1>2. CASE Accept
  BY <1>2 DEF Accept, context, queues, run, flags, tail, bounds, Waiting, Typed, Carried, Looping
<1>3. CASE SetupFails
  BY <1>3 DEF SetupFails, context, queues, run, flags, tail, bounds, Waiting, Typed, Carried, Looping
<1>4. CASE FirstRun
  BY <1>4 DEF FirstRun, context, queues, run, flags, tail, bounds, Waiting, Typed, Carried, Looping
<1>5. CASE BuildFails
  BY <1>5 DEF BuildFails, context, queues, run, flags, tail, bounds, Waiting, Typed, Carried, Looping
<1>6. CASE StartLoop
  BY <1>6 DEF StartLoop, context, queues, run, flags, tail, bounds, Waiting, Typed, Carried, Looping
<1>7. CASE CommitInput
  BY <1>7
<1>8. CASE StoreInput
  BY <1>8
<1>9. CASE FirstSteer
  BY <1>9 DEF FirstSteer, TakeSteer, context, queues, run, flags, tail, bounds, Waiting, Typed,
     Carried, Looping
<1>10. CASE Request
  BY <1>10 DEF Request, context, queues, run, flags, tail, bounds, Waiting, Typed, Carried, Looping
<1>11. ASSUME NEW k \in {"ok", "tools", "retryable", "overflow", "fatal"}, Answer(k) PROVE Waiting' = Waiting \/ CommitInput \/ StoreInput \/ Unwind
  BY <1>11 DEF Answer, context, queues, run, flags, tail, bounds, Waiting, Typed, Carried, Looping
<1>12. CASE StoreAnswer
  BY <1>12 DEF StoreAnswer, context, queues, run, flags, tail, bounds, Waiting, Typed, Carried, Looping
<1>13. CASE ProviderRaises
  BY <1>13 DEF ProviderRaises, context, queues, run, flags, tail, bounds, Waiting, Typed, Carried,
     Looping
<1>14. CASE ToolsEnd
  BY <1>14 DEF ToolsEnd, context, queues, run, flags, tail, bounds, Waiting, Typed, Carried, Looping
<1>15. CASE TurnEnds
  BY <1>15 DEF TurnEnds, TakeSteer, context, queues, run, flags, tail, bounds, Waiting, Typed, Carried,
     Looping
<1>16. CASE RunReturns
  BY <1>16 DEF RunReturns, context, queues, run, flags, tail, bounds, Waiting, Typed, Carried, Looping
<1>17. CASE Unwind
  BY <1>17
<1>18. CASE Closeout
  BY <1>18 DEF Closeout, context, queues, run, flags, tail, bounds, Waiting, Typed, Carried, Looping
<1>19. CASE CloseoutCut
  BY <1>19 DEF CloseoutCut, context, queues, run, flags, tail, bounds, Waiting, Typed, Carried, Looping
<1>20. CASE CloseoutEnds
  BY <1>20 DEF CloseoutEnds, context, queues, run, flags, tail, bounds, Waiting, Typed, Carried, Looping
<1>21. CASE RetryStarts
  BY <1>21 DEF RetryStarts, context, queues, run, flags, tail, bounds, Waiting, Typed, Carried, Looping
<1>22. CASE RunsOver
  BY <1>22 DEF RunsOver, Onward, ToThreshold, context, queues, run, flags, tail, bounds, Waiting,
     Typed, Carried, Looping
<1>23. CASE Countdown
  BY <1>23 DEF Countdown, context, queues, run, flags, tail, bounds, Waiting, Typed, Carried, Looping
<1>24. CASE RetryRuns
  BY <1>24 DEF RetryRuns, Rerun, context, queues, run, flags, tail, bounds, Waiting, Typed, Carried,
     Looping
<1>25. CASE RetryStops
  BY <1>25 DEF RetryStops, Onward, ToThreshold, context, queues, run, flags, tail, bounds, Waiting,
     Typed, Carried, Looping
<1>26. CASE NoRecovery
  BY <1>26 DEF NoRecovery, Onward, ToThreshold, context, queues, run, flags, tail, bounds, Waiting,
     Typed, Carried, Looping
<1>27. CASE Recover
  BY <1>27 DEF Recover, context, queues, run, flags, tail, bounds, Waiting, Typed, Carried, Looping
<1>28. CASE CompactFails
  BY <1>28 DEF CompactFails, Onward, ToThreshold, context, queues, run, flags, tail, bounds, Waiting,
     Typed, Carried, Looping
<1>29. CASE CompactWrites
  BY <1>29 DEF CompactWrites, context, queues, run, flags, tail, bounds, Waiting, Typed, Carried,
     Looping
<1>30. CASE RecoveryRuns
  BY <1>30 DEF RecoveryRuns, Rerun, context, queues, run, flags, tail, bounds, Waiting, Typed, Carried,
     Looping
<1>31. CASE RecoveryStops
  BY <1>31 DEF RecoveryStops, Onward, ToThreshold, context, queues, run, flags, tail, bounds, Waiting,
     Typed, Carried, Looping
<1>32. CASE TailWithdraws
  BY <1>32 DEF TailWithdraws, context, queues, run, flags, tail, bounds, Waiting, Typed, Carried,
     Looping
<1>33. CASE NoThreshold
  BY <1>33 DEF NoThreshold, context, queues, run, flags, tail, bounds, Waiting, Typed, Carried, Looping
<1>34. CASE Threshold
  BY <1>34 DEF Threshold, context, queues, run, flags, tail, bounds, Waiting, Typed, Carried, Looping
<1>35. CASE ThresholdEnds
  BY <1>35 DEF ThresholdEnds, context, queues, run, flags, tail, bounds, Waiting, Typed, Carried,
     Looping
<1>36. CASE Raise
  BY <1>36 DEF Raise, context, queues, run, flags, tail, bounds, Waiting, Typed, Carried, Looping
<1>37. CASE Release
  BY <1>37 DEF Release, context, queues, run, flags, tail, bounds, Waiting, Typed, Carried, Looping
<1>38. CASE Idle
  BY <1>38 DEF Idle, context, queues, run, flags, tail, bounds, Waiting, Typed, Carried, Looping
<1>39. CASE CutTail
  BY <1>39 DEF CutTail, context, queues, run, flags, tail, bounds, Waiting, Typed, Carried, Looping
<1>40. CASE CutWithdraw
  BY <1>40 DEF CutWithdraw, context, queues, run, flags, tail, bounds, Waiting, Typed, Carried, Looping
<1>41. ASSUME NEW m \in scope.sent, Steer(m) PROVE Waiting' = Waiting \/ CommitInput \/ StoreInput \/ Unwind
  BY <1>41 DEF Steer, context, queues, run, flags, tail, bounds, Waiting, Typed, Carried, Looping
<1>42. ASSUME NEW m \in scope.sent, FollowUp(m) PROVE Waiting' = Waiting \/ CommitInput \/ StoreInput \/ Unwind
  BY <1>42 DEF FollowUp, context, queues, run, flags, tail, bounds, Waiting, Typed, Carried, Looping
<1>43. ASSUME NEW m \in scope.sent, NextTurn(m) PROVE Waiting' = Waiting \/ CommitInput \/ StoreInput \/ Unwind
  BY <1>43 DEF NextTurn, context, queues, run, flags, tail, bounds, Waiting, Typed, Carried, Looping
<1>44. ASSUME NEW m \in scope.sent, Prompt(m) PROVE Waiting' = Waiting \/ CommitInput \/ StoreInput \/ Unwind
  BY <1>44 DEF Prompt, context, queues, run, flags, tail, bounds, Waiting, Typed, Carried, Looping
<1>45. ASSUME NEW w \in BOOLEAN, Abort(w) PROVE Waiting' = Waiting \/ CommitInput \/ StoreInput \/ Unwind
  BY <1>45 DEF Abort, context, queues, run, flags, tail, bounds, Waiting, Typed, Carried, Looping
<1>46. ASSUME NEW w \in BOOLEAN, AbortRetry(w) PROVE Waiting' = Waiting \/ CommitInput \/ StoreInput \/ Unwind
  BY <1>46 DEF AbortRetry, context, queues, run, flags, tail, bounds, Waiting, Typed, Carried, Looping
<1>47. CASE CtxAbort
  BY <1>47 DEF CtxAbort, context, queues, run, flags, tail, bounds, Waiting, Typed, Carried, Looping
<1>48. CASE CancelPrompt
  BY <1>48 DEF CancelPrompt, context, queues, run, flags, tail, bounds, Waiting, Typed, Carried, Looping
<1> QED
  BY <1>1, <1>2, <1>3, <1>4, <1>5, <1>6, <1>7, <1>8, <1>9, <1>10, <1>11, <1>12, <1>13, <1>14, <1>15,
     <1>16, <1>17, <1>18, <1>19, <1>20, <1>21, <1>22, <1>23, <1>24, <1>25, <1>26, <1>27, <1>28, <1>29,
     <1>30, <1>31, <1>32, <1>33, <1>34, <1>35, <1>36, <1>37, <1>38, <1>39, <1>40, <1>41, <1>42, <1>43,
     <1>44, <1>45, <1>46, <1>47, <1>48 DEF Next, Turn, TailStep, Callers

LEMMA MatchesMore ==
  ASSUME Typed, Matches, NEW A, astray \subseteq A
  PROVE  Without(live, Answers \cup Failures \cup A) = Without(path \o Waiting, Answers \cup Failures \cup A)
<1> DEFINE X == Answers \cup Failures \cup astray
           Y == Answers \cup Failures \cup A
<1>1. live \in Seq(Items) /\ path \o Waiting \in Seq(Items)
  BY WaitingTyped
<1>2. X \cup Y = Y
  OBVIOUS
<1>3. Without(live, X) = Without(path \o Waiting, X)
  BY DEF Matches, InputsOf
<1>4. Without(Without(live, X), Y) = Without(live, X \cup Y)
  BY <1>1, WithoutTwice
<1>5. Without(Without(path \o Waiting, X), Y) = Without(path \o Waiting, X \cup Y)
  <2> DEFINE w == path \o Waiting
  <2>1. w \in Seq(Items)
    BY <1>1
  <2> HIDE DEF w, X, Y
  <2>2. Without(Without(w, X), Y) = Without(w, X \cup Y)
    BY <2>1, WithoutTwice
  <2> QED
    BY <2>2 DEF w
<1> QED
  BY <1>2, <1>3, <1>4, <1>5

\* What waits and never gets there falls out of both sides.
LEMMA MatchesSettled ==
  ASSUME Typed, Matches, NEW A, astray \subseteq A, ToSet(Waiting) \subseteq Answers \cup Failures \cup A
  PROVE  Without(live, Answers \cup Failures \cup A) = Without(path, Answers \cup Failures \cup A)
<1> DEFINE Y == Answers \cup Failures \cup A
<1>1. path \in Seq(Items) /\ Waiting \in Seq(Items)
  BY WaitingTyped
<1>2. Without(live, Y) = Without(path \o Waiting, Y)
  BY MatchesMore
<1>3. Without(path \o Waiting, Y) = Without(path, Y) \o Without(Waiting, Y)
  BY <1>1, WithoutBoth
<1>4. Without(Waiting, Y) = <<>>
  BY <1>1, WithoutAll
<1>5. Without(path, Y) \in Seq(Items)
  BY <1>1, WithoutTyped
<1>6. \A q \in Seq(Items) : q \o <<>> = q
  BY ConcatEmptySeq
<1> QED
  BY <1>2, <1>3, <1>4, <1>5, <1>6

\* A withdrawal that reached the branch or declares astray what it did not take from it.
LEMMA WithdrawnAlike ==
  ASSUME Typed, Behind, Counts, Matches, Waiting = <<>>, live' = LiveLeft,
         astray \subseteq astray', astray' \subseteq Inputs,
         \/ path' = IF tracker.committed = <<>> THEN path ELSE Left(path, tracker.safe + 1)
         \/ path' = path /\ ToSet(tracker.committed) \subseteq astray'
         \/ /\ path' = SubSeq(path, 1, tracker.safe)
            /\ (Inputs \cap ToSet(Left(path, tracker.safe + 1))) \ ToSet(path') \subseteq astray'
  PROVE  InputsOf(live)' = InputsOf(path)'
<1> DEFINE C == ToSet(tracker.committed)
           X == Answers \cup Failures \cup astray'
           pre == SubSeq(path, 1, tracker.safe)
           suf == SubSeq(path, tracker.safe + 1, Len(path))
<1>1. PICK f, g : Cuts(f, g)
  BY CutsAre
<1>2. live \in Seq(Items) /\ path \in Seq(Items) /\ tracker.safe \in Nat /\ (tracker.safe + 1) - 1 = tracker.safe
  BY DEF Typed, TypeOK, Items
<1>3. Without(live', X) = Without(live, C \cup X)
  <2>1. CASE tracker.committed = <<>>
    <3>1. C = {}
      BY <2>1, EmptySeq DEF ToSet
    <3>2. C \cup X = X
      BY <3>1
    <3> QED
      BY <1>1, <2>1, <3>2 DEF Cuts
  <2>2. CASE tracker.committed # <<>>
    <3>1. \A i \in 1..(f - 1) : live[i] \notin C \ astray'
      BY <1>1, <2>2 DEF Behind, Cuts
    <3>2. Without(Left(live, f), X) = Without(live, C \cup X)
      BY <1>1, <1>2, <3>1, LeftIs DEF Cuts
    <3> QED
      BY <1>1, <2>2, <3>2 DEF Cuts
  <2> QED
    BY <2>1, <2>2
<1>4. \A A : astray' \subseteq A => Without(live, Answers \cup Failures \cup A) = Without(path, Answers \cup Failures \cup A)
  <2> SUFFICES ASSUME NEW A, astray' \subseteq A
               PROVE  Without(live, Answers \cup Failures \cup A) = Without(path, Answers \cup Failures \cup A)
    OBVIOUS
  <2>1. ToSet(Waiting) = {}
    BY EmptySeq DEF ToSet
  <2> QED
    BY <2>1, MatchesSettled
<1>5. Without(live, C \cup X) = Without(path, C \cup X)
  <2>1. C \cup X = Answers \cup Failures \cup (C \cup astray')
    OBVIOUS
  <2> QED
    BY <1>4, <2>1
<1>6. \A i \in 1..tracker.safe : path[i] \notin C \ astray'
  BY DEF Behind
<1>7. /\ Left(path, tracker.safe + 1) = pre \o Without(suf, C \cup Failures)
      /\ Without(Left(path, tracker.safe + 1), X) = Without(path, C \cup X)
      /\ pre \in Seq(Items) /\ suf \in Seq(Items) /\ path = pre \o suf
      /\ \A x \in ToSet(pre) : \E i \in 1..tracker.safe : x = path[i]
  <2>1. tracker.safe + 1 \in 1..(Len(path) + 1)
    BY <1>1 DEF Cuts
  <2>2. Without(Left(path, tracker.safe + 1), X) = Without(path, C \cup X)
    BY <1>2, <1>6, <2>1, LeftIs
  <2>3. pre \in Seq(Items) /\ suf \in Seq(Items) /\ path = pre \o suf /\ \A x \in ToSet(pre) : \E i \in 1..tracker.safe : x = path[i]
    <3> DEFINE k == tracker.safe + 1
    <3>1. k \in 1..(Len(path) + 1) /\ k - 1 = tracker.safe
      BY <1>2, <2>1
    <3> HIDE DEF k
    <3>2. /\ SubSeq(path, 1, k - 1) \in Seq(Items) /\ SubSeq(path, k, Len(path)) \in Seq(Items)
          /\ path = SubSeq(path, 1, k - 1) \o SubSeq(path, k, Len(path))
          /\ \A x \in ToSet(SubSeq(path, 1, k - 1)) : \E i \in 1..(k - 1) : x = path[i]
      BY <1>2, <3>1, LeftIs
    <3> QED
      BY <3>1, <3>2 DEF k
  <2> QED
    BY <1>2, <2>2, <2>3 DEF Left
<1>8. CASE path' = IF tracker.committed = <<>> THEN path ELSE Left(path, tracker.safe + 1)
  <2>1. CASE tracker.committed = <<>>
    <3>1. C = {}
      BY <2>1, EmptySeq DEF ToSet
    <3>2. C \cup X = X
      BY <3>1
    <3> QED
      BY <1>3, <1>5, <1>8, <2>1, <3>2 DEF InputsOf
  <2>2. CASE tracker.committed # <<>>
    BY <1>3, <1>5, <1>7, <1>8, <2>2 DEF InputsOf
  <2> QED
    BY <2>1, <2>2
<1>9. CASE path' = path /\ C \subseteq astray'
  <2>1. C \cup X = X
    BY <1>9
  <2> QED
    BY <1>3, <1>5, <1>9, <2>1 DEF InputsOf
<1>10. CASE path' = pre /\ (Inputs \cap ToSet(Left(path, tracker.safe + 1))) \ ToSet(path') \subseteq astray'
  <2>1. Without(path, C \cup X) = Without(pre, C \cup X) \o Without(suf, C \cup X)
    <3>1. \A q, r \in Seq(Items) : \A Z : Without(q \o r, Z) = Without(q, Z) \o Without(r, Z)
      BY WithoutBoth
    <3> HIDE DEF pre, suf, C, X
    <3> QED
      BY <1>7, <3>1
  <2>2. Without(pre, C \cup X) = Without(pre, X)
    <3>1. \A x \in ToSet(pre) : x \in C \cup X <=> x \in X
      BY <1>6, <1>7
    <3> QED
      BY <1>7, <3>1, WithoutSame
  <2>3. ToSet(suf) \subseteq C \cup X
    <3> SUFFICES ASSUME NEW x \in ToSet(suf), x \notin C \cup X
                 PROVE  FALSE
      OBVIOUS
    <3>1. ToSet(suf) \in SUBSET Items
      <4>1. \A q \in Seq(Items) : ToSet(q) \in SUBSET Items
        BY DEF ToSet
      <4> QED
        BY <1>7, <4>1
    <3>2. x \in Inputs \ astray'
      BY <3>1 DEF Items
    <3>3. x \in ToSet(Left(path, tracker.safe + 1))
      <4>1. ToSet(Without(suf, C \cup Failures)) = ToSet(suf) \ (C \cup Failures)
        BY <1>7, WithoutMembers
      <4>2. x \in ToSet(Without(suf, C \cup Failures))
        BY <4>1
      <4>3. Without(suf, C \cup Failures) \in Seq(Items)
        BY <1>7, WithoutTyped
      <4>4. ToSet(pre \o Without(suf, C \cup Failures)) = ToSet(pre) \cup ToSet(Without(suf, C \cup Failures))
        <5>1. x \in Items
          BY <3>2 DEF Items
        <5>2. \A q, r \in Seq(Items) : ToSet(q \o r) = ToSet(q) \cup ToSet(r)
          BY <5>1, Members
        <5> QED
          BY <1>7, <4>3, <5>2
      <4> QED
        BY <1>7, <4>2, <4>4
    <3>4. x \in ToSet(pre)
      BY <1>10, <3>2, <3>3
    <3>5. Times(x, path) = Times(x, pre) + Times(x, suf)
      BY ZenonT(60), <1>7, TimesBoth
    <3>6. Times(x, pre) \in Nat \ {0} /\ Times(x, suf) \in Nat \ {0}
      BY <1>7, <3>4, TimesIn
    <3>7. Times(x, path) <= Times(x, live) /\ Times(x, live) \in {0, 1}
      <4>1. x \in Inputs \ astray
        BY <3>2
      <4> QED
        BY <4>1, AbsentFromPath, OnceLive
    <3> QED
      BY <3>5, <3>6, <3>7
  <2>4. Without(suf, C \cup X) = <<>>
    BY <1>7, <2>3, WithoutAll
  <2>5. Without(pre, X) \in Seq(Items)
    BY <1>7, WithoutTyped
  <2>6. \A q \in Seq(Items) : q \o <<>> = q
    BY ConcatEmptySeq
  <2>7. Without(path, C \cup X) = Without(pre, X)
    BY <2>1, <2>2, <2>4, <2>5, <2>6
  <2> QED
    BY <1>3, <1>5, <1>10, <2>7 DEF InputsOf
<1> QED
  BY <1>8, <1>9, <1>10

LEMMA MatchesKept ==
  ASSUME Typed, Typed', Behind, Counts, Matches, Next
  PROVE  Matches'
<1> DEFINE X == Answers \cup Failures \cup astray'
<1>1. path \in Seq(Items) /\ live \in Seq(Items) /\ Waiting \in Seq(Items) /\ path \o Waiting \in Seq(Items)
  BY WaitingTyped
<1>2. path' \in Seq(Items) /\ live' \in Seq(Items)
  BY DEF Typed, TypeOK, Items
<1>3. \A q \in Seq(Items) : q \o <<>> = q
  BY ConcatEmptySeq
<1>4. pc \notin {"answered", "prompts", "feeding"} => Waiting = <<>>
  BY DEF Typed, Carried, Waiting
<1>11. /\ \A q, r \in Seq(Items) : \A Z : Without(q \o r, Z) = Without(q, Z) \o Without(r, Z)
       /\ \A q \in Seq(Items) : \A k \in Answers \cup Failures : Without(Append(q, k), X) = Without(q, X)
  <2>1. \A q, r \in Seq(Items) : \A Z : Without(q \o r, Z) = Without(q, Z) \o Without(r, Z)
    BY WithoutBoth
  <2>2. \A q \in Seq(Items) : \A k \in Answers \cup Failures : Without(Append(q, k), X) = Without(q, X)
    BY SaidMeans
  <2> QED
    BY <2>1, <2>2
<1>5. CASE CommitInput
  <2> DEFINE h == Head(todo)
  <2>1. h \in Items /\ Waiting = <<>> /\ Waiting' = <<h>> /\ <<h>> \in Seq(Items)
    <3>1. h \in Items
      BY <1>5 DEF CommitInput, Typed, TypeOK, Items
    <3> QED
      BY <1>5, <3>1 DEF CommitInput, Waiting
  <2>2. live' = live \o <<h>> /\ path' = path /\ astray' = astray
    <3>1. \A q \in Seq(Items) : Append(q, h) = q \o <<h>>
      BY <2>1, AppendIsConcat
    <3> QED
      BY <1>1, <1>5, <3>1 DEF CommitInput
  <2>3. Without(live', X) = Without(live, X) \o Without(<<h>>, X)
    BY ZenonT(60), <1>1, <1>11, <2>1, <2>2
  <2>4. Without(path' \o Waiting', X) = Without(path, X) \o Without(<<h>>, X)
    BY ZenonT(60), <1>1, <1>11, <2>1, <2>2
  <2>5. path \o Waiting = path
    BY <1>1, <1>3, <2>1
  <2>6. Without(live, X) = Without(path, X)
    BY <2>2, <2>5 DEF Matches, InputsOf
  <2> QED
    BY <2>3, <2>4, <2>6 DEF Matches, InputsOf
<1>6. CASE StoreInput
  <2> DEFINE h == Head(todo)
  <2>1. h \in Items /\ Waiting = <<h>> /\ Waiting' = <<>> /\ live' = live
    <3>1. h \in Items
      BY <1>6 DEF StoreInput, Typed, TypeOK, Carried, Items
    <3> QED
      BY <1>6, <3>1 DEF StoreInput, Waiting
  <2>2. path' \o Waiting' = path'
    BY <1>2, <1>3, <2>1
  <2>3. CASE path' = Append(path, h) /\ astray' = astray
    <3>1. \A q \in Seq(Items) : Append(q, h) = q \o <<h>>
      BY <2>1, AppendIsConcat
    <3>2. path' = path \o Waiting
      BY <1>1, <2>1, <2>3, <3>1
    <3> QED
      BY <2>1, <2>2, <2>3, <3>2 DEF Matches, InputsOf
  <2>4. CASE path' = path /\ astray' = astray \cup {h}
    <3>1. ToSet(Waiting) \subseteq {h}
      BY <2>1 DEF ToSet
    <3>2. Without(live, X) = Without(path, X)
      BY <2>4, <3>1, MatchesSettled
    <3> QED
      BY <2>1, <2>2, <2>4, <3>2 DEF Matches, InputsOf
  <2> QED
    BY <1>6, <2>3, <2>4 DEF StoreInput
<1>7. CASE Withdrawing
  <2>1. Waiting = <<>> /\ Waiting' = <<>>
    <3>1. ~CommitInput /\ ~StoreInput /\ ~Unwind
      BY <1>7 DEF Withdrawing, CommitInput, StoreInput, Unwind, Looping
    <3> QED
      BY <1>4, <1>7, <3>1, WaitingKept DEF Withdrawing
  <2>2. path' \o Waiting' = path' /\ path \o Waiting = path
    BY <1>1, <1>2, <1>3, <2>1
  <2>3. CASE UNCHANGED context
    BY <2>2, <2>3 DEF Matches, InputsOf, context
  <2>4. CASE ~UNCHANGED context
    <3>1. live' = LiveLeft /\ astray \subseteq astray' /\ astray' \subseteq Inputs
      <4>1. astray \subseteq astray' /\ astray' \subseteq Inputs
        BY <1>7, WithdrawTypes DEF Withdrawing
      <4> QED
        BY <1>7, <2>4, <4>1 DEF Withdrawing, Withdraw, WithdrawCut, context
    <3>2. \/ path' = IF tracker.committed = <<>> THEN path ELSE Left(path, tracker.safe + 1)
          \/ path' = path /\ ToSet(tracker.committed) \subseteq astray'
          \/ /\ path' = SubSeq(path, 1, tracker.safe)
             /\ (Inputs \cap ToSet(Left(path, tracker.safe + 1))) \ ToSet(path') \subseteq astray'
      BY <1>7, <2>4 DEF Withdrawing, Withdraw, WithdrawCut, Retract, context
    <3>3. InputsOf(live)' = InputsOf(path)'
      BY <2>1, <3>1, <3>2, WithdrawnAlike
    <3> QED
      BY <2>2, <3>3 DEF Matches, InputsOf
  <2> QED
    BY <2>3, <2>4
<1>8. CASE Compacting
  <2>1. Waiting' = <<>>
    <3>1. ~CommitInput /\ ~StoreInput /\ ~Unwind
      BY <1>8 DEF Compacting, CommitInput, StoreInput, Unwind, Looping
    <3> QED
      BY <1>4, <1>8, <3>1, WaitingKept DEF Compacting
  <2>2. path' \o Waiting' = path'
    BY <1>2, <1>3, <2>1
  <2> QED
    BY <1>8, <2>2 DEF Matches, InputsOf, Compacting, Compacted
<1>9. CASE Quiet /\ ~Unwind /\ ~CommitInput /\ ~StoreInput
  <2>1. Waiting' = Waiting /\ astray' = astray
    BY <1>9, WaitingKept DEF Quiet
  <2>2. Without(live', X) = Without(live, X)
    BY <1>1, <1>9, NudgedMeans DEF Quiet, Steady
  <2>3. Without(path', X) = Without(path, X)
    BY <1>1, <1>9, <1>11 DEF Quiet
  <2>4. Without(path' \o Waiting, X) = Without(path', X) \o Without(Waiting, X)
    BY <1>1, <1>2, <1>11
  <2>5. Without(path \o Waiting, X) = Without(path, X) \o Without(Waiting, X)
    BY <1>1, <1>2, <1>11
  <2>6. Without(live, X) = Without(path \o Waiting, X)
    BY <2>1 DEF Matches, InputsOf
  <2> QED
    BY <2>1, <2>2, <2>3, <2>4, <2>5, <2>6 DEF Matches, InputsOf
<1>10. CASE Quiet /\ Unwind
  <2>1. Waiting' = <<>> /\ astray \subseteq astray' /\ ToSet(Waiting) \subseteq astray'
    <3>1. storing /\ pc # "answered" => ToSet(<<Head(todo)>>) \subseteq astray'
      <4>1. storing /\ pc # "answered" => todo # <<>> /\ todo \in Seq(Inputs)
        BY DEF Typed, Carried, TypeOK
      <4>2. storing /\ pc # "answered" => FirstOf(todo) = <<Head(todo)>>
        BY <4>1, Ends
      <4>3. storing => ToSet(FirstOf(todo)) \subseteq astray'
        BY <1>10 DEF Unwind
      <4> QED
        BY <4>2, <4>3
    <3>2. ToSet(<<>>) = {}
      BY EmptySeq DEF ToSet
    <3> QED
      BY <1>10, <3>1, <3>2 DEF Unwind, Waiting
  <2>2. Without(live, X) = Without(path, X)
    BY <2>1, MatchesSettled
  <2>3. Without(live', X) = Without(live, X)
    BY <1>1, <1>10, NudgedMeans DEF Quiet, Steady
  <2>4. Without(path', X) = Without(path, X)
    BY <1>1, <1>10, <1>11 DEF Quiet
  <2>5. path' \o Waiting' = path'
    BY <1>2, <1>3, <2>1
  <2> QED
    BY <2>2, <2>3, <2>4, <2>5 DEF Matches, InputsOf
<1> QED
  BY <1>5, <1>6, <1>7, <1>8, <1>9, <1>10, ContextSteps

-----------------------------------------------------------------------------
\* The terms of the count are numbers, and tell membership.
Numbers(m) ==
  /\ Times(m, nextQ) \in Nat /\ (Times(m, nextQ) = 0 <=> m \notin ToSet(nextQ))
  /\ Times(m, steerQ) \in Nat /\ (Times(m, steerQ) = 0 <=> m \notin ToSet(steerQ))
  /\ Times(m, followQ) \in Nat /\ (Times(m, followQ) = 0 <=> m \notin ToSet(followQ))
  /\ Times(m, withdrawnQ) \in Nat /\ (Times(m, withdrawnQ) = 0 <=> m \notin ToSet(withdrawnQ))
  /\ Times(m, live) \in Nat /\ (Times(m, live) = 0 <=> m \notin ToSet(live))
  /\ Times(m, Carrying) \in Nat /\ (Times(m, Carrying) = 0 <=> m \notin ToSet(Carrying))
  /\ Elsewhere(m) \in Nat
Numbered == \A m \in Inputs : Numbers(m)

LEMMA NumbersAre == Typed => Numbered
<1> SUFFICES ASSUME Typed, NEW m \in Inputs
             PROVE  Numbers(m)
  BY DEF Numbered
<1>1. /\ nextQ \in Seq(Inputs) /\ steerQ \in Seq(Steers) /\ followQ \in Seq(FollowUps)
      /\ withdrawnQ \in Seq(Inputs) /\ live \in Seq(Items)
  BY DEF Typed, TypeOK, Items
<1>2. Carrying \in Seq(Inputs)
  BY CarryingTyped
<1>3. Elsewhere(m) \in Nat
  BY DEF Elsewhere
<1> QED
  BY <1>1, <1>2, <1>3, TimesIn DEF Numbers

LEMMA NumbersNext == Typed' => Numbered'
BY NumbersAre, PTL

LEMMA Astray ==
  ASSUME Typed, Next
  PROVE  astray \subseteq astray'
<1>1. Withdrawing => astray \subseteq astray'
  BY WithdrawTypes DEF Withdrawing
<1>2. CommitInput \/ StoreInput => astray \subseteq astray'
  BY DEF CommitInput, StoreInput
<1> QED
  BY <1>1, <1>2, ContextSteps DEF Quiet, Compacting

\* Only a commit and a withdrawal change which inputs the context holds.
LEMMA LiveTimes ==
  ASSUME Typed, Matches, Next, ~CommitInput, ~Withdrawing, NEW m \in Inputs \ astray
  PROVE  Times(m, live') = Times(m, live)
<1>1. live \in Seq(Items) /\ path \in Seq(Items)
  BY WaitingTyped
<1>2. CASE Quiet
  BY <1>1, <1>2, NudgedMeans, SteadyTimes DEF Quiet, Nudged
<1>3. CASE StoreInput
  BY <1>3 DEF StoreInput
<1>4. CASE Compacting
  <2> DEFINE X == Answers \cup Failures
  <2>1. Waiting = <<>>
    BY <1>4 DEF Compacting, Typed, Carried, Waiting
  <2>2. Times(m, path) = Times(m, live)
    BY <2>1, AbsentFromPath
  <2>3. Aged(path) \in Seq(Items) /\ Without(Aged(path), X) = Without(path, X)
    BY <1>1, AgedIs DEF Items, Failures
  <2>4. m \notin X
    BY InputsAssumption
  <2>5. Times(m, Without(path, X)) = Times(m, path)
    BY <1>1, <2>4, TimesWithout
  <2>6. Times(m, Without(Aged(path), X)) = Times(m, Aged(path))
    BY <2>3, <2>4, TimesWithout
  <2> QED
    BY <1>4, <2>2, <2>3, <2>5, <2>6 DEF Compacting, Compacted
<1> QED
  BY <1>2, <1>3, <1>4, ContextSteps

\* A sum of one has one term.
LEMMA Sole ==
  ASSUME NEW a \in Nat, NEW b \in Nat, NEW c \in Nat, NEW d \in Nat, NEW e \in Nat, NEW g \in Nat, NEW h \in Nat,
         a + b + c + d + e + g + h = 1
  PROVE  \/ a = 1 /\ b = 0 /\ c = 0 /\ d = 0 /\ e = 0 /\ g = 0 /\ h = 0
         \/ a = 0 /\ b = 1 /\ c = 0 /\ d = 0 /\ e = 0 /\ g = 0 /\ h = 0
         \/ a = 0 /\ b = 0 /\ c = 1 /\ d = 0 /\ e = 0 /\ g = 0 /\ h = 0
         \/ a = 0 /\ b = 0 /\ c = 0 /\ d = 1 /\ e = 0 /\ g = 0 /\ h = 0
         \/ a = 0 /\ b = 0 /\ c = 0 /\ d = 0 /\ e = 1 /\ g = 0 /\ h = 0
         \/ a = 0 /\ b = 0 /\ c = 0 /\ d = 0 /\ e = 0 /\ g = 1 /\ h = 0
         \/ a = 0 /\ b = 0 /\ c = 0 /\ d = 0 /\ e = 0 /\ g = 0 /\ h = 1
OBVIOUS

LEMMA OnePlace ==
  ASSUME Typed, NEW m \in Inputs, Counted(m) = 1
  PROVE  LET a == Times(m, nextQ)
             b == Times(m, steerQ)
             c == Times(m, followQ)
             d == Times(m, withdrawnQ)
             e == Times(m, live)
             g == Times(m, Carrying)
             h == Elsewhere(m)
         IN \/ a = 1 /\ b = 0 /\ c = 0 /\ d = 0 /\ e = 0 /\ g = 0 /\ h = 0
            \/ a = 0 /\ b = 1 /\ c = 0 /\ d = 0 /\ e = 0 /\ g = 0 /\ h = 0
            \/ a = 0 /\ b = 0 /\ c = 1 /\ d = 0 /\ e = 0 /\ g = 0 /\ h = 0
            \/ a = 0 /\ b = 0 /\ c = 0 /\ d = 1 /\ e = 0 /\ g = 0 /\ h = 0
            \/ a = 0 /\ b = 0 /\ c = 0 /\ d = 0 /\ e = 1 /\ g = 0 /\ h = 0
            \/ a = 0 /\ b = 0 /\ c = 0 /\ d = 0 /\ e = 0 /\ g = 1 /\ h = 0
            \/ a = 0 /\ b = 0 /\ c = 0 /\ d = 0 /\ e = 0 /\ g = 0 /\ h = 1
<1> DEFINE a == Times(m, nextQ)
           b == Times(m, steerQ)
           c == Times(m, followQ)
           d == Times(m, withdrawnQ)
           e == Times(m, live)
           g == Times(m, Carrying)
           h == Elsewhere(m)
<1>1. a \in Nat /\ b \in Nat /\ c \in Nat /\ d \in Nat /\ e \in Nat /\ g \in Nat /\ h \in Nat
  BY NumbersAre DEF Numbered, Numbers
<1>2. a + b + c + d + e + g + h = 1
  BY DEF Counted
<1> HIDE DEF a, b, c, d, e, g, h
<1>3. \/ a = 1 /\ b = 0 /\ c = 0 /\ d = 0 /\ e = 0 /\ g = 0 /\ h = 0
      \/ a = 0 /\ b = 1 /\ c = 0 /\ d = 0 /\ e = 0 /\ g = 0 /\ h = 0
      \/ a = 0 /\ b = 0 /\ c = 1 /\ d = 0 /\ e = 0 /\ g = 0 /\ h = 0
      \/ a = 0 /\ b = 0 /\ c = 0 /\ d = 1 /\ e = 0 /\ g = 0 /\ h = 0
      \/ a = 0 /\ b = 0 /\ c = 0 /\ d = 0 /\ e = 1 /\ g = 0 /\ h = 0
      \/ a = 0 /\ b = 0 /\ c = 0 /\ d = 0 /\ e = 0 /\ g = 1 /\ h = 0
      \/ a = 0 /\ b = 0 /\ c = 0 /\ d = 0 /\ e = 0 /\ g = 0 /\ h = 1
  BY <1>1, <1>2, Sole
<1> QED
  BY <1>3 DEF a, b, c, d, e, g, h

LEMMA TimesOne ==
  ASSUME NEW x
  PROVE  Times(x, <<>>) = 0 /\ ToSet(<<>>) = {} /\ \A e \in Inputs : Times(x, <<e>>) = (IF x = e THEN 1 ELSE 0)
<1>1. ToSet(<<>>) = {} /\ <<>> \in Seq(Inputs)
  BY EmptySeq DEF ToSet
<1>2. Times(x, <<>>) = 0
  BY <1>1, TimesIn
<1>3. ASSUME NEW e \in Inputs PROVE Times(x, <<e>>) = (IF x = e THEN 1 ELSE 0)
  <2>1. Times(x, Append(<<>>, e)) = Times(x, <<>>) + IF e = x THEN 1 ELSE 0
    BY <1>1, TimesMore
  <2>2. Append(<<>>, e) = <<e>>
    OBVIOUS
  <2> QED
    BY <1>2, <2>1, <2>2
<1> QED
  BY <1>1, <1>2, <1>3

LEMMA QueuesTyped ==
  ASSUME Typed
  PROVE  /\ nextQ \in Seq(Inputs) /\ steerQ \in Seq(Inputs) /\ followQ \in Seq(Inputs) /\ withdrawnQ \in Seq(Inputs)
         /\ drained \in Seq(Inputs) /\ todo \in Seq(Inputs) /\ open \in Seq(Inputs)
         /\ (pc # "idle" => current \in Inputs /\ <<current>> \in Seq(Inputs))
<1>1. /\ nextQ \in Seq(Inputs) /\ withdrawnQ \in Seq(Inputs)
      /\ drained \in Seq(Inputs) /\ todo \in Seq(Inputs) /\ open \in Seq(Inputs)
      /\ steerQ \in Seq(Steers) /\ followQ \in Seq(FollowUps)
  BY DEF Typed, TypeOK
<1>2. steerQ \in Seq(Inputs)
  BY <1>1 DEF Inputs
<1>3. followQ \in Seq(Inputs)
  BY <1>1 DEF Inputs
<1>4. pc # "idle" => current \in Inputs
  BY DEF Typed, Seated, Inputs
<1> QED
  BY <1>1, <1>2, <1>3, <1>4

LEMMA SplitTimes ==
  ASSUME NEW x, NEW r \in Seq(Inputs)
  PROVE  /\ Times(x, r) = Times(x, FirstOf(r)) + Times(x, RestOf(r))
         /\ (r = <<>> => FirstOf(r) = <<>> /\ RestOf(r) = <<>>)
<1>1. FirstOf(r) \in Seq(Inputs) /\ RestOf(r) \in Seq(Inputs) /\ r = FirstOf(r) \o RestOf(r)
  BY Parts
<1>2. Times(x, FirstOf(r) \o RestOf(r)) = Times(x, FirstOf(r)) + Times(x, RestOf(r))
  BY <1>1, TimesBoth
<1>3. r = <<>> => FirstOf(r) = <<>> /\ RestOf(r) = <<>>
  <2>1. r = <<>> => FirstOf(r) = <<>>
    BY Parts
  <2>2. <<>> \o RestOf(r) = RestOf(r)
    BY <1>1, ConcatEmptySeq
  <2> QED
    BY <1>1, <2>1, <2>2
<1> QED
  BY <1>1, <1>2, <1>3

\* A withdrawal takes an input from where it is to one other place.
LEMMA WithdrawCounts ==
  ASSUME Typed, Typed', Behind, Counts, Withdraw \/ WithdrawCut,
         NEW x \in Inputs \ astray, x \in Inputs \ astray',
         UNCHANGED <<steerQ, followQ>>, Carrying = open, Carrying' = open'
  PROVE  Counted(x)' = 1
<1> DEFINE C == tracker.committed
<1>a. Counted(x) = 1
  BY DEF Counts
<1>b. Numbers(x) /\ Numbers(x)'
  BY NumbersAre, NumbersNext DEF Numbered
<1>k. \/ Times(x, nextQ) = 1 /\ Times(x, steerQ) = 0 /\ Times(x, followQ) = 0 /\ Times(x, withdrawnQ) = 0
         /\ Times(x, live) = 0 /\ Times(x, Carrying) = 0 /\ Elsewhere(x) = 0
      \/ Times(x, nextQ) = 0 /\ Times(x, steerQ) = 1 /\ Times(x, followQ) = 0 /\ Times(x, withdrawnQ) = 0
         /\ Times(x, live) = 0 /\ Times(x, Carrying) = 0 /\ Elsewhere(x) = 0
      \/ Times(x, nextQ) = 0 /\ Times(x, steerQ) = 0 /\ Times(x, followQ) = 1 /\ Times(x, withdrawnQ) = 0
         /\ Times(x, live) = 0 /\ Times(x, Carrying) = 0 /\ Elsewhere(x) = 0
      \/ Times(x, nextQ) = 0 /\ Times(x, steerQ) = 0 /\ Times(x, followQ) = 0 /\ Times(x, withdrawnQ) = 1
         /\ Times(x, live) = 0 /\ Times(x, Carrying) = 0 /\ Elsewhere(x) = 0
      \/ Times(x, nextQ) = 0 /\ Times(x, steerQ) = 0 /\ Times(x, followQ) = 0 /\ Times(x, withdrawnQ) = 0
         /\ Times(x, live) = 1 /\ Times(x, Carrying) = 0 /\ Elsewhere(x) = 0
      \/ Times(x, nextQ) = 0 /\ Times(x, steerQ) = 0 /\ Times(x, followQ) = 0 /\ Times(x, withdrawnQ) = 0
         /\ Times(x, live) = 0 /\ Times(x, Carrying) = 1 /\ Elsewhere(x) = 0
      \/ Times(x, nextQ) = 0 /\ Times(x, steerQ) = 0 /\ Times(x, followQ) = 0 /\ Times(x, withdrawnQ) = 0
         /\ Times(x, live) = 0 /\ Times(x, Carrying) = 0 /\ Elsewhere(x) = 1
  BY <1>a, OnePlace
<1>h. /\ Times(x, nextQ) \in Nat /\ Times(x, steerQ) \in Nat /\ Times(x, followQ) \in Nat
      /\ Times(x, withdrawnQ) \in Nat /\ Times(x, live) \in Nat /\ Times(x, Carrying) \in Nat
      /\ Elsewhere(x) \in {0, 1}
      /\ Times(x, nextQ') \in Nat /\ Times(x, steerQ') \in Nat /\ Times(x, followQ') \in Nat
      /\ Times(x, withdrawnQ') \in Nat /\ Times(x, live') \in Nat /\ Times(x, Carrying') \in Nat
  BY <1>b DEF Numbers, Elsewhere
<1>i. x \in ToSet(withdrawnQ) <=> Times(x, withdrawnQ) # 0
  BY <1>b DEF Numbers
<1>c. Times(x, <<>>) = 0 /\ ToSet(<<>>) = {}
  BY TimesOne
<1>f. \A S, v : Becomes(S, v)[x] = IF x \in S THEN v ELSE fate[x]
  BY DEF Becomes
<1>1. CASE UNCHANGED <<live, nextQ, open>> /\ EmitWithdrawn({})
  <2>1. withdrawnQ' = <<>> /\ fate'[x] = IF x \in ToSet(withdrawnQ) THEN "given" ELSE fate[x]
    BY <1>f, <1>1 DEF EmitWithdrawn
  <2>2. Times(x, withdrawnQ') = 0
    BY <1>c, <2>1
  <2> QED
    BY SMTT(60), <1>a, <1>b, <1>1, <2>1, <2>2 DEF Counted, Elsewhere, Numbers
<1>2. CASE /\ open' = <<>> /\ nextQ' = Restored(Requeued) /\ live' = LiveLeft
           /\ EmitWithdrawn(GivenBack) \/ (fate' = Becomes(GivenBack, "missed") /\ UNCHANGED withdrawnQ)
  <2>1. C \in Seq(Inputs) /\ open \in Seq(Inputs) /\ nextQ \in Seq(Inputs) /\ live \in Seq(Items)
    BY DEF Typed, TypeOK, Items
  <2>2. Times(x, C) \in Nat /\ (Times(x, C) = 0 <=> x \notin ToSet(C)) /\ Times(x, C) <= Times(x, live)
    <3>1. Times(x, C) \in Nat /\ (Times(x, C) = 0 <=> x \notin ToSet(C))
      BY <2>1, TimesIn
    <3> QED
      BY <3>1 DEF Behind
  <2>3. Times(x, live') = IF x \in ToSet(C) THEN 0 ELSE Times(x, live)
    <3> DEFINE X == Answers \cup Failures \cup astray
    <3>1. PICK f, g : Cuts(f, g)
      BY CutsAre
    <3>2. CASE C = <<>>
      BY <1>c, <1>2, <3>1, <3>2 DEF Cuts
    <3>3. CASE C # <<>>
      <4>1. \A i \in 1..(f - 1) : live[i] \notin ToSet(C) \ astray
        BY <3>1, <3>3 DEF Behind, Cuts
      <4>2. Left(live, f) \in Seq(Items) /\ Without(Left(live, f), X) = Without(live, ToSet(C) \cup X)
        BY <2>1, <3>1, <4>1, LeftIs DEF Cuts
      <4>3. x \notin X
        BY InputsAssumption
      <4>4. Times(x, Without(Left(live, f), X)) = Times(x, Left(live, f))
        BY <4>2, <4>3, TimesWithout
      <4>5. Times(x, Without(live, ToSet(C) \cup X)) = IF x \in ToSet(C) THEN 0 ELSE Times(x, live)
        <5>1. \A S : Times(x, Without(live, S)) = IF x \in S THEN 0 ELSE Times(x, live)
          BY <2>1, TimesWithout
        <5> QED
          BY <4>3, <5>1
      <4> QED
        BY <1>2, <3>1, <3>3, <4>2, <4>4, <4>5 DEF Cuts
    <3> QED
      BY <3>2, <3>3
  <2>4. Times(x, nextQ') = (IF x \in ToSet(C) \ ToSet(drained) THEN 0 ELSE Times(x, C))
                           + (IF x = current THEN 0 ELSE Times(x, open)) + Times(x, nextQ)
    <3> DEFINE a == Within(C, ToSet(drained))
               b == Without(open, {current})
    <3>1. a \in Seq(Inputs) /\ Times(x, a) = IF x \in ToSet(C) \ ToSet(drained) THEN 0 ELSE Times(x, C)
      <4>1. \A S : Without(C, S) \in Seq(Inputs) /\ Times(x, Without(C, S)) = IF x \in S THEN 0 ELSE Times(x, C)
        BY <2>1, WithoutTyped, TimesWithout
      <4> QED
        BY <4>1 DEF Within
    <3>2. b \in Seq(Inputs) /\ Times(x, b) = IF x = current THEN 0 ELSE Times(x, open)
      <4>1. \A S : Without(open, S) \in Seq(Inputs) /\ Times(x, Without(open, S)) = IF x \in S THEN 0 ELSE Times(x, open)
        BY <2>1, WithoutTyped, TimesWithout
      <4> QED
        BY <4>1
    <3>3. nextQ' = (a \o b) \o nextQ
      BY <1>2 DEF Restored, Requeued
    <3> HIDE DEF a, b
    <3>4. \A q, r \in Seq(Inputs) : q \o r \in Seq(Inputs) /\ Times(x, q \o r) = Times(x, q) + Times(x, r)
      BY TimesBoth
    <3>5. a \o b \in Seq(Inputs) /\ Times(x, a \o b) = Times(x, a) + Times(x, b)
      BY <3>1, <3>2, <3>4
    <3>6. Times(x, nextQ') = Times(x, a \o b) + Times(x, nextQ)
      BY <2>1, <3>3, <3>4, <3>5
    <3> QED
      BY <3>1, <3>2, <3>5, <3>6
  <2>5. \/ withdrawnQ' = <<>> /\ fate'[x] = (IF x \in GivenBack \cup ToSet(withdrawnQ) THEN "given" ELSE fate[x])
        \/ withdrawnQ' = withdrawnQ /\ fate'[x] = (IF x \in GivenBack THEN "missed" ELSE fate[x])
    BY <1>f, <1>2 DEF EmitWithdrawn
  <2>6. x \in GivenBack <=> x \in ToSet(C) \ ToSet(drained) \/ (x \in ToSet(open) /\ x = current)
    BY DEF GivenBack
  <2>7. Times(x, Carrying') = 0 /\ Carrying = open /\ Times(x, open) \in Nat /\ (Times(x, open) = 0 <=> x \notin ToSet(open))
    BY <1>b, <1>c, <1>2 DEF Numbers
  <2> HIDE DEF C
  <2>8. CASE withdrawnQ' = <<>> /\ fate'[x] = (IF x \in GivenBack \cup ToSet(withdrawnQ) THEN "given" ELSE fate[x])
    <3>1. Times(x, withdrawnQ') = 0
      BY <1>c, <2>8
    <3>91. CASE x \in GivenBack \cup ToSet(withdrawnQ)
      <4>1. fate'[x] = "given"
        BY <2>8, <3>91
      <4>2. Elsewhere(x)' = 1
        BY <4>1 DEF Elsewhere
      <4> QED
        BY <1>k, <1>h, <2>2, <2>3, <2>4, <2>6, <2>7, <2>8, <3>1, <1>i, <3>91, <4>2 DEF Counted
    <3>92. CASE ~(x \in GivenBack \cup ToSet(withdrawnQ))
      <4>1. Elsewhere(x)' = Elsewhere(x)
        BY <2>8, <3>92 DEF Elsewhere
      <4>2. Times(x, withdrawnQ) = 0
        BY <1>h, <1>i, <3>92
      <4>3. Times(x, live') + Times(x, nextQ') = Times(x, live) + Times(x, Carrying) + Times(x, nextQ)
        <5>1. x = current => Times(x, open) = 0
          BY <2>6, <2>7, <3>92
        <5>2. CASE x \in ToSet(C)
          <6>1. Times(x, live) = 1 /\ Times(x, C) = 1 /\ Times(x, open) = 0 /\ Times(x, nextQ) = 0
            BY <1>k, <2>2, <2>7, <5>2
          <6>2. Times(x, live') = 0 /\ Times(x, nextQ') = 1
            BY <2>3, <2>4, <2>6, <3>92, <5>2, <6>1
          <6> QED
            BY <2>7, <6>1, <6>2
        <5>3. CASE x \notin ToSet(C)
          <6>1. Times(x, live') = Times(x, live) /\ Times(x, C) = 0
            BY <2>2, <2>3, <5>3
          <6>2. Times(x, nextQ') = Times(x, open) + Times(x, nextQ)
            BY <1>h, <2>4, <2>7, <5>1, <5>3, <6>1
          <6> QED
            BY <1>h, <2>7, <6>1, <6>2
        <5> QED
          BY <5>2, <5>3
      <4> QED
        BY <1>a, <1>h, <2>7, <3>1, <4>1, <4>2, <4>3 DEF Counted
    <3> QED
      BY <3>91, <3>92
  <2>9. CASE withdrawnQ' = withdrawnQ /\ fate'[x] = (IF x \in GivenBack THEN "missed" ELSE fate[x])
    <3>1. Times(x, withdrawnQ') = Times(x, withdrawnQ)
      BY <2>9
    <3>91. CASE x \in GivenBack
      <4>1. fate'[x] = "missed"
        BY <2>9, <3>91
      <4>2. Elsewhere(x)' = 1
        BY <4>1 DEF Elsewhere
      <4> QED
        BY <1>k, <1>h, <2>2, <2>3, <2>4, <2>6, <2>7, <2>9, <3>1, <3>91, <4>2 DEF Counted
    <3>92. CASE ~(x \in GivenBack)
      <4>1. Elsewhere(x)' = Elsewhere(x)
        BY <2>9, <3>92 DEF Elsewhere
      <4>3. Times(x, live') + Times(x, nextQ') = Times(x, live) + Times(x, Carrying) + Times(x, nextQ)
        <5>1. x = current => Times(x, open) = 0
          BY <2>6, <2>7, <3>92
        <5>2. CASE x \in ToSet(C)
          <6>1. Times(x, live) = 1 /\ Times(x, C) = 1 /\ Times(x, open) = 0 /\ Times(x, nextQ) = 0
            BY <1>k, <2>2, <2>7, <5>2
          <6>2. Times(x, live') = 0 /\ Times(x, nextQ') = 1
            BY <2>3, <2>4, <2>6, <3>92, <5>2, <6>1
          <6> QED
            BY <2>7, <6>1, <6>2
        <5>3. CASE x \notin ToSet(C)
          <6>1. Times(x, live') = Times(x, live) /\ Times(x, C) = 0
            BY <2>2, <2>3, <5>3
          <6>2. Times(x, nextQ') = Times(x, open) + Times(x, nextQ)
            BY <1>h, <2>4, <2>7, <5>1, <5>3, <6>1
          <6> QED
            BY <1>h, <2>7, <6>1, <6>2
        <5> QED
          BY <5>2, <5>3
      <4> QED
        BY <1>a, <1>h, <2>7, <3>1, <4>1, <4>3 DEF Counted
    <3> QED
      BY <3>91, <3>92
  <2> QED
    BY <2>5, <2>8, <2>9
<1> QED
  BY <1>1, <1>2 DEF Withdraw, WithdrawCut, context

LEMMA CountsStep ==
  ASSUME Typed, Typed', Behind, Counts, Matches, NEW x \in Inputs \ astray', Next
  PROVE  Counted(x)' = 1
<1>a. x \in Inputs \ astray /\ x \in Inputs /\ Counted(x) = 1
  BY Astray DEF Counts
<1>b. Numbers(x) /\ Numbers(x)'
  BY NumbersAre, NumbersNext DEF Numbered
<1>h. /\ Times(x, nextQ) \in Nat /\ Times(x, steerQ) \in Nat /\ Times(x, followQ) \in Nat
      /\ Times(x, withdrawnQ) \in Nat /\ Times(x, live) \in Nat /\ Times(x, Carrying) \in Nat
      /\ Elsewhere(x) \in {0, 1}
      /\ Times(x, nextQ') \in Nat /\ Times(x, steerQ') \in Nat /\ Times(x, followQ') \in Nat
      /\ Times(x, withdrawnQ') \in Nat /\ Times(x, live') \in Nat /\ Times(x, Carrying') \in Nat
  BY <1>b DEF Numbers, Elsewhere
<1>i. \A v : (fate'[x] = v => Elsewhere(x)' = IF v = "held" THEN 0 ELSE 1)
  BY DEF Elsewhere
<1>j. \A v : (fate[x] = v => Elsewhere(x) = IF v = "held" THEN 0 ELSE 1)
  BY DEF Elsewhere
<1>k. \/ Times(x, nextQ) = 1 /\ Times(x, steerQ) = 0 /\ Times(x, followQ) = 0 /\ Times(x, withdrawnQ) = 0
         /\ Times(x, live) = 0 /\ Times(x, Carrying) = 0 /\ Elsewhere(x) = 0
      \/ Times(x, nextQ) = 0 /\ Times(x, steerQ) = 1 /\ Times(x, followQ) = 0 /\ Times(x, withdrawnQ) = 0
         /\ Times(x, live) = 0 /\ Times(x, Carrying) = 0 /\ Elsewhere(x) = 0
      \/ Times(x, nextQ) = 0 /\ Times(x, steerQ) = 0 /\ Times(x, followQ) = 1 /\ Times(x, withdrawnQ) = 0
         /\ Times(x, live) = 0 /\ Times(x, Carrying) = 0 /\ Elsewhere(x) = 0
      \/ Times(x, nextQ) = 0 /\ Times(x, steerQ) = 0 /\ Times(x, followQ) = 0 /\ Times(x, withdrawnQ) = 1
         /\ Times(x, live) = 0 /\ Times(x, Carrying) = 0 /\ Elsewhere(x) = 0
      \/ Times(x, nextQ) = 0 /\ Times(x, steerQ) = 0 /\ Times(x, followQ) = 0 /\ Times(x, withdrawnQ) = 0
         /\ Times(x, live) = 1 /\ Times(x, Carrying) = 0 /\ Elsewhere(x) = 0
      \/ Times(x, nextQ) = 0 /\ Times(x, steerQ) = 0 /\ Times(x, followQ) = 0 /\ Times(x, withdrawnQ) = 0
         /\ Times(x, live) = 0 /\ Times(x, Carrying) = 1 /\ Elsewhere(x) = 0
      \/ Times(x, nextQ) = 0 /\ Times(x, steerQ) = 0 /\ Times(x, followQ) = 0 /\ Times(x, withdrawnQ) = 0
         /\ Times(x, live) = 0 /\ Times(x, Carrying) = 0 /\ Elsewhere(x) = 1
  BY <1>a, OnePlace
<1>c. Times(x, <<>>) = 0 /\ ToSet(<<>>) = {} /\ \A e \in Inputs : Times(x, <<e>>) = (IF x = e THEN 1 ELSE 0)
  BY TimesOne
<1>d. \A q, r \in Seq(Inputs) : q \o r \in Seq(Inputs) /\ Times(x, q) \in Nat /\ Times(x, q \o r) = Times(x, q) + Times(x, r)
  BY TimesBoth, TimesIn
<1>e. /\ nextQ \in Seq(Inputs) /\ steerQ \in Seq(Inputs) /\ followQ \in Seq(Inputs) /\ withdrawnQ \in Seq(Inputs)
      /\ drained \in Seq(Inputs) /\ todo \in Seq(Inputs) /\ open \in Seq(Inputs)
      /\ (pc # "idle" => current \in Inputs /\ <<current>> \in Seq(Inputs))
  BY QueuesTyped
<1>f. \A S, v : Becomes(S, v)[x] = IF x \in S THEN v ELSE fate[x]
  BY <1>a DEF Becomes
<1>g. \A r \in Seq(Inputs) : /\ Times(x, r) = Times(x, FirstOf(r)) + Times(x, RestOf(r))
                             /\ (r = <<>> => FirstOf(r) = <<>> /\ RestOf(r) = <<>>)
  BY SplitTimes
<1>1. CASE TurnAway
  <2>1. UNCHANGED <<nextQ, steerQ, followQ, withdrawnQ>> /\ Carrying = <<current>> /\ Carrying' = <<>> /\ fate'[x] = (IF x = current THEN "refused" ELSE fate[x])
    BY <1>f, <1>1 DEF TurnAway, context, queues, run, flags, tail, Carrying, Restored, Typed, Carried,
       Seated, Looping
  <2>2. Times(x, live') = Times(x, live)
    BY <1>a, <1>1, LiveTimes DEF TurnAway, Withdrawing, CommitInput
  <2>3. Times(x, Carrying) = (IF x = current THEN 1 ELSE 0) /\ Times(x, Carrying') = 0
    BY <1>c, <1>e, <1>1, <2>1 DEF TurnAway
  <2>91. CASE x = current
    <3>1. fate'[x] = "refused"
      BY <2>1, <2>91
    <3>2. Elsewhere(x)' = 1
      BY <3>1 DEF Elsewhere
    <3> QED
      BY <1>k, <1>h, <2>1, <2>2, <2>3, <2>91, <3>2 DEF Counted
  <2>92. CASE ~(x = current)
    <3>1. Elsewhere(x)' = Elsewhere(x)
      BY <2>1, <2>92 DEF Elsewhere
    <3> QED
      BY <1>a, <1>h, <2>1, <2>2, <2>3, <2>92, <3>1 DEF Counted
  <2> QED
    BY <2>91, <2>92
<1>2. CASE Accept
  <2>1. UNCHANGED <<steerQ, followQ, withdrawnQ, fate>> /\ nextQ' = <<>> /\ Carrying = <<current>> /\ Carrying' = nextQ \o <<current>>
    BY <1>f, <1>2 DEF Accept, context, queues, run, flags, tail, Carrying, Restored, Typed, Carried,
       Seated, Looping
  <2>2. Times(x, live') = Times(x, live)
    BY <1>a, <1>2, LiveTimes DEF Accept, Withdrawing, CommitInput
  <2>3. Times(x, nextQ') = 0 /\ Times(x, Carrying') = Times(x, nextQ) + Times(x, Carrying)
    BY <1>c, <1>d, <1>e, <1>2, <2>1 DEF Accept
  <2> QED
    BY SMTT(60), <1>a, <1>b, <2>1, <2>2, <2>3 DEF Counted, Elsewhere, Numbers
<1>3. CASE SetupFails
  <2>1. UNCHANGED <<steerQ, followQ, withdrawnQ>> /\ nextQ' = drained \o nextQ /\ Carrying = drained \o <<current>> /\ Carrying' = <<>> /\ fate'[x] = (IF x = current THEN "refused" ELSE fate[x])
    BY <1>f, <1>3 DEF SetupFails, context, queues, run, flags, tail, Carrying, Restored, Typed,
       Carried, Seated, Looping
  <2>2. Times(x, live') = Times(x, live)
    BY <1>a, <1>3, LiveTimes DEF SetupFails, Withdrawing, CommitInput
  <2>3. Times(x, <<current>>) = (IF x = current THEN 1 ELSE 0)
    BY <1>c, <1>e, <1>3 DEF SetupFails
  <2>4. Times(x, nextQ') = Times(x, drained) + Times(x, nextQ) /\ Times(x, Carrying) = Times(x, drained) + Times(x, <<current>>) /\ Times(x, drained) \in Nat /\ Times(x, Carrying') = 0
    BY <1>c, <1>d, <1>e, <1>3, <2>1 DEF SetupFails
  <2>91. CASE x = current
    <3>1. fate'[x] = "refused"
      BY <2>1, <2>91
    <3>2. Elsewhere(x)' = 1
      BY <3>1 DEF Elsewhere
    <3> QED
      BY SMTT(60), <1>k, <1>h, <2>1, <2>2, <2>3, <2>4, <2>91, <3>2 DEF Counted
  <2>92. CASE ~(x = current)
    <3>1. Elsewhere(x)' = Elsewhere(x)
      BY <2>1, <2>92 DEF Elsewhere
    <3>2. Times(x, nextQ') = Times(x, Carrying) + Times(x, nextQ)
      BY <1>h, <2>3, <2>4, <2>92
    <3>3. Times(x, Carrying') = 0 /\ UNCHANGED <<steerQ, followQ, withdrawnQ>>
      BY <2>1, <2>4
    <3> QED
      BY <1>a, <1>h, <2>2, <3>1, <3>2, <3>3 DEF Counted
  <2> QED
    BY <2>91, <2>92
<1>4. CASE FirstRun
  <2>1. UNCHANGED <<nextQ, steerQ, followQ, withdrawnQ, fate>> /\ Carrying' = Carrying
    BY <1>4 DEF FirstRun, context, queues, run, flags, tail, Carrying, Typed, Carried, Looping
  <2>2. Times(x, live') = Times(x, live)
    BY <1>a, <1>4, LiveTimes DEF FirstRun, Withdrawing, CommitInput
  <2> QED
    BY <1>a, <2>1, <2>2 DEF Counted, Elsewhere
<1>5. CASE BuildFails
  <2>1. UNCHANGED <<steerQ, followQ, withdrawnQ, fate>> /\ nextQ' = open \o nextQ /\ Carrying = open /\ Carrying' = <<>>
    BY <1>f, <1>5 DEF BuildFails, context, queues, run, flags, tail, Carrying, Restored, Typed,
       Carried, Seated, Looping
  <2>2. Times(x, live') = Times(x, live)
    BY <1>a, <1>5, LiveTimes DEF BuildFails, Withdrawing, CommitInput
  <2>3. Times(x, nextQ') = Times(x, Carrying) + Times(x, nextQ) /\ Times(x, Carrying') = 0
    BY <1>c, <1>d, <1>e, <2>1
  <2> QED
    BY SMTT(60), <1>a, <1>b, <2>1, <2>2, <2>3 DEF Counted, Elsewhere, Numbers
<1>6. CASE StartLoop
  <2>1. UNCHANGED <<nextQ, steerQ, followQ, withdrawnQ, fate>> /\ Carrying' = Carrying
    BY <1>6 DEF StartLoop, context, queues, run, flags, tail, Carrying, Typed, Carried, Looping
  <2>2. Times(x, live') = Times(x, live)
    BY <1>a, <1>6, LiveTimes DEF StartLoop, Withdrawing, CommitInput
  <2> QED
    BY <1>a, <2>1, <2>2 DEF Counted, Elsewhere
<1>7. CASE CommitInput
  <2>1. /\ todo # <<>> /\ Carrying = todo /\ Carrying' = Tail(todo) /\ live' = Append(live, Head(todo))
        /\ UNCHANGED <<nextQ, steerQ, followQ, withdrawnQ, fate>>
    <3>1. todo # <<>> /\ pc \in {"prompts", "feeding"} /\ ~storing /\ storing' /\ pc' = pc /\ todo' = todo
      BY <1>7 DEF CommitInput
    <3>2. pc = "prompts" => open = todo /\ open' = Tail(todo)
      BY <1>e, <1>7, <3>1, RemoveHead DEF CommitInput, Typed, Carried
    <3> QED
      BY <1>7, <3>1, <3>2 DEF CommitInput, Carrying, queues, Typed, Carried
  <2>2. Head(todo) \in Inputs /\ Tail(todo) \in Seq(Inputs) /\ todo = <<Head(todo)>> \o Tail(todo)
    BY <1>e, <2>1, Ends
  <2>3. Times(x, todo) = Times(x, <<Head(todo)>>) + Times(x, Tail(todo))
    <3>1. <<Head(todo)>> \in Seq(Inputs)
      BY <2>2
    <3> QED
      BY <1>d, <2>2, <3>1
  <2>4. Times(x, <<Head(todo)>>) = (IF x = Head(todo) THEN 1 ELSE 0)
    BY <1>c, <2>2
  <2>5. Times(x, live') = Times(x, live) + (IF x = Head(todo) THEN 1 ELSE 0)
    <3>1. live \in Seq(Items) /\ Head(todo) \in Items
      BY <2>2 DEF Typed, TypeOK, Items
    <3> QED
      BY <2>1, <3>1, TimesMore
  <2> QED
    BY SMTT(60), <1>a, <1>b, <2>1, <2>3, <2>4, <2>5 DEF Counted, Elsewhere, Numbers
<1>8. CASE StoreInput
  <2>1. UNCHANGED <<nextQ, steerQ, followQ, withdrawnQ, fate>> /\ Carrying' = Carrying
    BY <1>8 DEF StoreInput, context, queues, run, flags, tail, Carrying, Typed, Carried, Looping
  <2>2. Times(x, live') = Times(x, live)
    BY <1>a, <1>8, LiveTimes DEF StoreInput, Withdrawing, CommitInput
  <2> QED
    BY <1>a, <2>1, <2>2 DEF Counted, Elsewhere
<1>9. CASE FirstSteer
  <2>1. UNCHANGED <<nextQ, followQ, withdrawnQ, fate>> /\ Carrying = <<>> /\ Carrying' = FirstOf(steerQ) /\ steerQ' = RestOf(steerQ)
    BY <1>f, <1>9 DEF FirstSteer, TakeSteer, context, queues, run, flags, tail, Carrying, Restored,
       Typed, Carried, Seated, Looping
  <2>2. Times(x, live') = Times(x, live)
    BY <1>a, <1>9, LiveTimes DEF FirstSteer, Withdrawing, CommitInput
  <2>3. Times(x, steerQ) = Times(x, Carrying') + Times(x, steerQ') /\ Times(x, Carrying) = 0
    BY <1>c, <1>e, <1>g, <2>1
  <2> QED
    BY <1>a, <1>b, <2>1, <2>2, <2>3 DEF Counted, Elsewhere, Numbers
<1>10. CASE Request
  <2>1. UNCHANGED <<nextQ, steerQ, followQ, withdrawnQ, fate>> /\ Carrying' = Carrying
    BY <1>10 DEF Request, context, queues, run, flags, tail, Carrying, Typed, Carried, Looping
  <2>2. Times(x, live') = Times(x, live)
    BY <1>a, <1>10, LiveTimes DEF Request, Withdrawing, CommitInput
  <2> QED
    BY <1>a, <2>1, <2>2 DEF Counted, Elsewhere
<1>11. ASSUME NEW k \in {"ok", "tools", "retryable", "overflow", "fatal"}, Answer(k) PROVE Counted(x)' = 1
  <2>1. UNCHANGED <<nextQ, steerQ, followQ, withdrawnQ, fate>> /\ Carrying' = Carrying
    BY <1>11 DEF Answer, context, queues, run, flags, tail, Carrying, Typed, Carried, Looping
  <2>2. Times(x, live') = Times(x, live)
    BY <1>a, <1>11, LiveTimes DEF Answer, Withdrawing, CommitInput
  <2> QED
    BY <1>a, <2>1, <2>2 DEF Counted, Elsewhere
<1>12. CASE StoreAnswer
  <2>1. UNCHANGED <<nextQ, steerQ, followQ, withdrawnQ, fate>> /\ Carrying' = Carrying
    BY <1>12 DEF StoreAnswer, context, queues, run, flags, tail, Carrying, Typed, Carried, Looping
  <2>2. Times(x, live') = Times(x, live)
    BY <1>a, <1>12, LiveTimes DEF StoreAnswer, Withdrawing, CommitInput
  <2> QED
    BY <1>a, <2>1, <2>2 DEF Counted, Elsewhere
<1>13. CASE ProviderRaises
  <2>1. UNCHANGED <<nextQ, steerQ, followQ, withdrawnQ, fate>> /\ Carrying' = Carrying
    BY <1>13 DEF ProviderRaises, context, queues, run, flags, tail, Carrying, Typed, Carried, Looping
  <2>2. Times(x, live') = Times(x, live)
    BY <1>a, <1>13, LiveTimes DEF ProviderRaises, Withdrawing, CommitInput
  <2> QED
    BY <1>a, <2>1, <2>2 DEF Counted, Elsewhere
<1>14. CASE ToolsEnd
  <2>1. UNCHANGED <<nextQ, steerQ, followQ, withdrawnQ, fate>> /\ Carrying' = Carrying
    BY <1>14 DEF ToolsEnd, context, queues, run, flags, tail, Carrying, Typed, Carried, Looping
  <2>2. Times(x, live') = Times(x, live)
    BY <1>a, <1>14, LiveTimes DEF ToolsEnd, Withdrawing, CommitInput
  <2> QED
    BY <1>a, <2>1, <2>2 DEF Counted, Elsewhere
<1>15. CASE TurnEnds
  <2>1. Times(x, live') = Times(x, live) /\ Carrying = <<>> /\ UNCHANGED <<nextQ, withdrawnQ, fate>>
    <3>1. Times(x, live') = Times(x, live)
      BY <1>15 DEF TurnEnds, context
    <3>2. Carrying = <<>>
      BY <1>15 DEF TurnEnds, Carrying, Typed, Carried
    <3> QED
      BY <1>15, <3>1, <3>2 DEF TurnEnds
  <2>2. \/ Carrying' = FirstOf(steerQ) /\ steerQ' = RestOf(steerQ) /\ followQ' = followQ
        \/ Carrying' = FirstOf(followQ) /\ followQ' = RestOf(followQ) /\ steerQ' = steerQ
    <3>1. ~storing /\ storing' = storing /\ open = <<>> /\ open' = open
      BY <1>15 DEF TurnEnds, Typed, Carried
    <3>2. followQ = <<>> => FirstOf(followQ) = <<>>
      BY <1>e, <1>g
    <3> QED
      BY <1>15, <3>1, <3>2 DEF TurnEnds, TakeSteer, Carrying
  <2>3. Times(x, Carrying) = 0
    BY <1>c, <2>1
  <2>4. CASE Carrying' = FirstOf(steerQ) /\ steerQ' = RestOf(steerQ) /\ followQ' = followQ
    <3>1. Times(x, steerQ) = Times(x, Carrying') + Times(x, steerQ')
      BY <1>e, <1>g, <2>4
    <3> QED
      BY <1>a, <1>b, <2>1, <2>3, <2>4, <3>1 DEF Counted, Elsewhere, Numbers
  <2>5. CASE Carrying' = FirstOf(followQ) /\ followQ' = RestOf(followQ) /\ steerQ' = steerQ
    <3>1. Times(x, followQ) = Times(x, Carrying') + Times(x, followQ')
      BY <1>e, <1>g, <2>5
    <3> QED
      BY <1>a, <1>b, <2>1, <2>3, <2>5, <3>1 DEF Counted, Elsewhere, Numbers
  <2> QED
    BY <2>2, <2>4, <2>5
<1>16. CASE RunReturns
  <2>1. UNCHANGED <<nextQ, steerQ, followQ, withdrawnQ, fate>> /\ Carrying' = Carrying
    BY <1>16 DEF RunReturns, context, queues, run, flags, tail, Carrying, Typed, Carried, Looping
  <2>2. Times(x, live') = Times(x, live)
    BY <1>a, <1>16, LiveTimes DEF RunReturns, Withdrawing, CommitInput
  <2> QED
    BY <1>a, <2>1, <2>2 DEF Counted, Elsewhere
<1>17. CASE Unwind
  <2> DEFINE rest == IF storing THEN RestOf(todo) ELSE todo
  <2>1. /\ UNCHANGED <<steerQ, followQ, withdrawnQ>>
        /\ fate'[x] = IF x \in ToSet(rest) \ ToSet(open) THEN "missed" ELSE fate[x]
    BY <1>f, <1>17 DEF Unwind
  <2>2. Times(x, live') = Times(x, live)
    BY <1>a, <1>17, LiveTimes DEF Unwind, Withdrawing, CommitInput, Looping
  <2>3. Times(x, Carrying') + Times(x, nextQ') = Times(x, open) + Times(x, nextQ)
    <3>1. Carrying' = open' /\ ((nextQ' = nextQ /\ open' = open) \/ (nextQ' = open \o nextQ /\ open' = <<>>))
      BY <1>17 DEF Unwind, Carrying, Restored
    <3>2. Times(x, open \o nextQ) = Times(x, open) + Times(x, nextQ) /\ Times(x, open) \in Nat /\ Times(x, nextQ) \in Nat
      BY <1>d, <1>e
    <3>3. CASE nextQ' = nextQ /\ Carrying' = open
      BY <3>2, <3>3
    <3>4. CASE nextQ' = open \o nextQ /\ Carrying' = <<>>
      BY <1>c, <3>2, <3>4
    <3> QED
      BY <3>1, <3>3, <3>4
  <2>4. CASE pc = "feeding"
    <3>1. open = <<>> /\ Carrying = rest /\ ToSet(<<>>) = {}
      <4>1. todo # <<>> => RestOf(todo) = Tail(todo)
        BY <1>e, Ends
      <4>2. open = <<>> /\ (storing => todo # <<>>)
        BY <2>4 DEF Typed, Carried
      <4> QED
        BY <1>c, <2>4, <4>1, <4>2 DEF Carrying
    <3>2. fate'[x] = IF x \in ToSet(Carrying) THEN "missed" ELSE fate[x]
      BY <2>1, <3>1
    <3>3. Times(x, open) = 0
      BY <1>c, <3>1
    <3> HIDE DEF rest
    <3>4. x \in ToSet(Carrying) <=> Times(x, Carrying) # 0
      BY <1>b DEF Numbers
    <3>91. CASE x \in ToSet(Carrying)
      <4>1. fate'[x] = "missed"
        BY <3>2, <3>91
      <4>2. Elsewhere(x)' = 1
        BY <4>1 DEF Elsewhere
      <4> QED
        BY <1>k, <1>h, <2>1, <2>2, <2>3, <3>3, <3>4, <3>91, <4>2 DEF Counted
    <3>92. CASE ~(x \in ToSet(Carrying))
      <4>1. Elsewhere(x)' = Elsewhere(x)
        BY <3>2, <3>92 DEF Elsewhere
      <4> QED
        BY <1>a, <1>h, <2>1, <2>2, <2>3, <3>3, <3>4, <3>92, <4>1 DEF Counted
    <3> QED
      BY <3>91, <3>92
  <2>5. CASE pc # "feeding"
    <3>1. Carrying = open
      BY <1>17, <2>5 DEF Carrying, Unwind, Looping
    <3>2. fate'[x] = fate[x]
      <4>1. rest = open
        <5>1. todo # <<>> => RestOf(todo) = Tail(todo)
          BY <1>e, Ends
        <5>2. CASE pc = "prompts"
          BY <5>1, <5>2 DEF Typed, Carried
        <5>3. CASE pc # "prompts"
          <6>1. todo = <<>> /\ open = <<>>
            BY <1>17, <2>5, <5>3 DEF Unwind, Looping, Typed, Carried
          <6>2. RestOf(<<>>) = <<>>
            BY <1>g, EmptySeq
          <6> QED
            BY <6>1, <6>2
        <5> QED
          BY <5>2, <5>3
      <4> QED
        BY <2>1, <4>1
    <3> HIDE DEF rest
    <3> QED
      BY <1>a, <1>b, <2>1, <2>2, <2>3, <3>1, <3>2 DEF Counted, Elsewhere, Numbers
  <2> QED
    BY <2>4, <2>5
<1>18. CASE Closeout
  <2>1. UNCHANGED <<steerQ, followQ>> /\ Carrying = open /\ Carrying' = open' /\ pc \in {"closeout", "withdraw", "release"}
    BY <1>18 DEF Closeout, Carrying
  <2>2. CASE Withdraw \/ WithdrawCut
    BY <1>a, <2>1, <2>2, WithdrawCounts
  <2>3. CASE Keep
    BY <1>a, <2>1, <2>3 DEF Keep, context, Counted, Elsewhere
  <2> QED
    BY <1>18, <2>2, <2>3 DEF Closeout
<1>19. CASE CloseoutCut
  <2>1. UNCHANGED <<steerQ, followQ>> /\ Carrying = open /\ Carrying' = open' /\ pc \in {"closeout", "withdraw", "release"}
    BY <1>19 DEF CloseoutCut, Carrying
  <2>2. CASE Withdraw \/ WithdrawCut
    BY <1>a, <2>1, <2>2, WithdrawCounts
  <2> QED
    BY <1>19, <2>2 DEF CloseoutCut
<1>20. CASE CloseoutEnds
  <2>1. UNCHANGED <<steerQ, followQ, withdrawnQ, fate>> /\ nextQ' = open \o nextQ /\ Carrying = open /\ Carrying' = <<>>
    BY <1>f, <1>20 DEF CloseoutEnds, context, queues, run, flags, tail, Carrying, Restored, Typed,
       Carried, Seated, Looping
  <2>2. Times(x, live') = Times(x, live)
    BY <1>a, <1>20, LiveTimes DEF CloseoutEnds, Withdrawing, CommitInput
  <2>3. Times(x, nextQ') = Times(x, Carrying) + Times(x, nextQ) /\ Times(x, Carrying') = 0
    BY <1>c, <1>d, <1>e, <2>1
  <2> QED
    BY SMTT(60), <1>a, <1>b, <2>1, <2>2, <2>3 DEF Counted, Elsewhere, Numbers
<1>21. CASE RetryStarts
  <2>1. UNCHANGED <<nextQ, steerQ, followQ, withdrawnQ, fate>> /\ Carrying' = Carrying
    BY <1>21 DEF RetryStarts, context, queues, run, flags, tail, Carrying, Typed, Carried, Looping
  <2>2. Times(x, live') = Times(x, live)
    BY <1>a, <1>21, LiveTimes DEF RetryStarts, Withdrawing, CommitInput
  <2> QED
    BY <1>a, <2>1, <2>2 DEF Counted, Elsewhere
<1>22. CASE RunsOver
  <2>1. UNCHANGED <<nextQ, steerQ, followQ, withdrawnQ, fate>> /\ Carrying' = Carrying
    BY <1>22 DEF RunsOver, Onward, ToThreshold, context, queues, run, flags, tail, Carrying, Typed,
       Carried, Looping
  <2>2. Times(x, live') = Times(x, live)
    BY <1>a, <1>22, LiveTimes DEF RunsOver, Withdrawing, CommitInput
  <2> QED
    BY <1>a, <2>1, <2>2 DEF Counted, Elsewhere
<1>23. CASE Countdown
  <2>1. UNCHANGED <<nextQ, steerQ, followQ, withdrawnQ, fate>> /\ Carrying' = Carrying
    BY <1>23 DEF Countdown, context, queues, run, flags, tail, Carrying, Typed, Carried, Looping
  <2>2. Times(x, live') = Times(x, live)
    BY <1>a, <1>23, LiveTimes DEF Countdown, Withdrawing, CommitInput
  <2> QED
    BY <1>a, <2>1, <2>2 DEF Counted, Elsewhere
<1>24. CASE RetryRuns
  <2>1. UNCHANGED <<nextQ, steerQ, followQ, withdrawnQ, fate>> /\ Carrying' = Carrying
    BY <1>24 DEF RetryRuns, Rerun, context, queues, run, flags, tail, Carrying, Typed, Carried, Looping
  <2>2. Times(x, live') = Times(x, live)
    BY <1>a, <1>24, LiveTimes DEF RetryRuns, Withdrawing, CommitInput
  <2> QED
    BY <1>a, <2>1, <2>2 DEF Counted, Elsewhere
<1>25. CASE RetryStops
  <2>1. UNCHANGED <<nextQ, steerQ, followQ, withdrawnQ, fate>> /\ Carrying' = Carrying
    BY <1>25 DEF RetryStops, Onward, ToThreshold, context, queues, run, flags, tail, Carrying, Typed,
       Carried, Looping
  <2>2. Times(x, live') = Times(x, live)
    BY <1>a, <1>25, LiveTimes DEF RetryStops, Withdrawing, CommitInput
  <2> QED
    BY <1>a, <2>1, <2>2 DEF Counted, Elsewhere
<1>26. CASE NoRecovery
  <2>1. UNCHANGED <<nextQ, steerQ, followQ, withdrawnQ, fate>> /\ Carrying' = Carrying
    BY <1>26 DEF NoRecovery, ToThreshold, context, queues, run, flags, tail, Carrying, Typed, Carried,
       Looping
  <2>2. Times(x, live') = Times(x, live)
    BY <1>a, <1>26, LiveTimes DEF NoRecovery, Withdrawing, CommitInput
  <2> QED
    BY <1>a, <2>1, <2>2 DEF Counted, Elsewhere
<1>27. CASE Recover
  <2>1. UNCHANGED <<nextQ, steerQ, followQ, withdrawnQ, fate>> /\ Carrying' = Carrying
    BY <1>27 DEF Recover, context, queues, run, flags, tail, Carrying, Typed, Carried, Looping
  <2>2. Times(x, live') = Times(x, live)
    BY <1>a, <1>27, LiveTimes DEF Recover, Withdrawing, CommitInput
  <2> QED
    BY <1>a, <2>1, <2>2 DEF Counted, Elsewhere
<1>28. CASE CompactFails
  <2>1. UNCHANGED <<nextQ, steerQ, followQ, withdrawnQ, fate>> /\ Carrying' = Carrying
    BY <1>28 DEF CompactFails, ToThreshold, context, queues, run, flags, tail, Carrying, Typed,
       Carried, Looping
  <2>2. Times(x, live') = Times(x, live)
    BY <1>a, <1>28, LiveTimes DEF CompactFails, Withdrawing, CommitInput
  <2> QED
    BY <1>a, <2>1, <2>2 DEF Counted, Elsewhere
<1>29. CASE CompactWrites
  <2>1. UNCHANGED <<nextQ, steerQ, followQ, withdrawnQ, fate>> /\ Carrying' = Carrying
    BY <1>29 DEF CompactWrites, context, queues, run, flags, tail, Carrying, Typed, Carried, Looping
  <2>2. Times(x, live') = Times(x, live)
    BY <1>a, <1>29, LiveTimes DEF CompactWrites, Withdrawing, CommitInput
  <2> QED
    BY <1>a, <2>1, <2>2 DEF Counted, Elsewhere
<1>30. CASE RecoveryRuns
  <2>1. UNCHANGED <<nextQ, steerQ, followQ, withdrawnQ, fate>> /\ Carrying' = Carrying
    BY <1>30 DEF RecoveryRuns, Rerun, context, queues, run, flags, tail, Carrying, Typed, Carried,
       Looping
  <2>2. Times(x, live') = Times(x, live)
    BY <1>a, <1>30, LiveTimes DEF RecoveryRuns, Withdrawing, CommitInput
  <2> QED
    BY <1>a, <2>1, <2>2 DEF Counted, Elsewhere
<1>31. CASE RecoveryStops
  <2>1. UNCHANGED <<nextQ, steerQ, followQ, withdrawnQ, fate>> /\ Carrying' = Carrying
    BY <1>31 DEF RecoveryStops, ToThreshold, context, queues, run, flags, tail, Carrying, Typed,
       Carried, Looping
  <2>2. Times(x, live') = Times(x, live)
    BY <1>a, <1>31, LiveTimes DEF RecoveryStops, Withdrawing, CommitInput
  <2> QED
    BY <1>a, <2>1, <2>2 DEF Counted, Elsewhere
<1>32. CASE TailWithdraws
  <2>1. UNCHANGED <<steerQ, followQ>> /\ Carrying = open /\ Carrying' = open' /\ pc \in {"closeout", "withdraw", "release"}
    BY <1>32 DEF TailWithdraws, Carrying
  <2>2. CASE Withdraw \/ WithdrawCut
    BY <1>a, <2>1, <2>2, WithdrawCounts
  <2> QED
    BY <1>32, <2>2 DEF TailWithdraws
<1>33. CASE NoThreshold
  <2>1. UNCHANGED <<nextQ, steerQ, followQ, withdrawnQ, fate>> /\ Carrying' = Carrying
    BY <1>33 DEF NoThreshold, context, queues, run, flags, tail, Carrying, Typed, Carried, Looping
  <2>2. Times(x, live') = Times(x, live)
    BY <1>a, <1>33, LiveTimes DEF NoThreshold, Withdrawing, CommitInput
  <2> QED
    BY <1>a, <2>1, <2>2 DEF Counted, Elsewhere
<1>34. CASE Threshold
  <2>1. UNCHANGED <<nextQ, steerQ, followQ, withdrawnQ, fate>> /\ Carrying' = Carrying
    BY <1>34 DEF Threshold, context, queues, run, flags, tail, Carrying, Typed, Carried, Looping
  <2>2. Times(x, live') = Times(x, live)
    BY <1>a, <1>34, LiveTimes DEF Threshold, Withdrawing, CommitInput
  <2> QED
    BY <1>a, <2>1, <2>2 DEF Counted, Elsewhere
<1>35. CASE ThresholdEnds
  <2>1. UNCHANGED <<nextQ, steerQ, followQ, withdrawnQ, fate>> /\ Carrying' = Carrying
    BY <1>35 DEF ThresholdEnds, context, queues, run, flags, tail, Carrying, Typed, Carried, Looping
  <2>2. Times(x, live') = Times(x, live)
    BY <1>a, <1>35, LiveTimes DEF ThresholdEnds, Withdrawing, CommitInput
  <2> QED
    BY <1>a, <2>1, <2>2 DEF Counted, Elsewhere
<1>36. CASE Raise
  <2>1. UNCHANGED <<nextQ, steerQ, followQ, withdrawnQ, fate>> /\ Carrying' = Carrying
    BY <1>36 DEF Raise, context, queues, run, flags, tail, Carrying, Typed, Carried, Looping
  <2>2. Times(x, live') = Times(x, live)
    BY <1>a, <1>36, LiveTimes DEF Raise, Withdrawing, CommitInput
  <2> QED
    BY <1>a, <2>1, <2>2 DEF Counted, Elsewhere
<1>37. CASE Release
  <2>1. UNCHANGED <<steerQ, followQ>> /\ Carrying = open /\ Carrying' = open' /\ pc \in {"closeout", "withdraw", "release"}
    BY <1>37 DEF Release, Carrying
  <2>2. CASE Withdraw \/ WithdrawCut
    BY <1>a, <2>1, <2>2, WithdrawCounts
  <2>3. CASE Keep
    BY <1>a, <2>1, <2>3 DEF Keep, context, Counted, Elsewhere
  <2> QED
    BY <1>37, <2>2, <2>3 DEF Release
<1>38. CASE Idle
  <2>1. /\ UNCHANGED <<nextQ, steerQ, followQ>> /\ Carrying' = Carrying /\ Times(x, live') = Times(x, live)
        /\ \/ withdrawnQ' = withdrawnQ /\ fate' = fate
           \/ withdrawnQ' = <<>> /\ fate'[x] = IF x \in ToSet(withdrawnQ) THEN "given" ELSE fate[x]
    <3>1. UNCHANGED <<nextQ, steerQ, followQ>> /\ Carrying' = Carrying /\ Times(x, live') = Times(x, live)
      BY <1>38 DEF Idle, context, queues, Carrying, Typed, Carried
    <3>2. \/ withdrawnQ' = withdrawnQ /\ fate' = fate
          \/ withdrawnQ' = <<>> /\ fate'[x] = IF x \in ToSet(withdrawnQ) THEN "given" ELSE fate[x]
      BY <1>f, <1>38 DEF Idle, EmitWithdrawn
    <3> QED
      BY <3>1, <3>2
  <2>2. CASE withdrawnQ' = withdrawnQ /\ fate' = fate
    BY <1>a, <2>1, <2>2 DEF Counted, Elsewhere
  <2>3. CASE withdrawnQ' = <<>> /\ fate'[x] = IF x \in ToSet(withdrawnQ) THEN "given" ELSE fate[x]
    <3>1. Times(x, withdrawnQ') = 0
      BY <1>c, <2>3
    <3>2. x \in ToSet(withdrawnQ) <=> Times(x, withdrawnQ) # 0
      BY <1>b DEF Numbers
    <3>91. CASE x \in ToSet(withdrawnQ)
      <4>1. fate'[x] = "given"
        BY <2>3, <3>91
      <4>2. Elsewhere(x)' = 1
        BY <4>1 DEF Elsewhere
      <4> QED
        BY <1>k, <1>h, <2>1, <2>3, <3>1, <3>2, <3>91, <4>2 DEF Counted
    <3>92. CASE ~(x \in ToSet(withdrawnQ))
      <4>1. Elsewhere(x)' = Elsewhere(x)
        BY <2>3, <3>92 DEF Elsewhere
      <4> QED
        BY <1>a, <1>h, <2>1, <2>3, <3>1, <3>2, <3>92, <4>1 DEF Counted
    <3> QED
      BY <3>91, <3>92
  <2> QED
    BY <2>1, <2>2, <2>3
<1>39. CASE CutTail
  <2>1. UNCHANGED <<nextQ, steerQ, followQ, withdrawnQ, fate>> /\ Carrying' = Carrying
    BY <1>39 DEF CutTail, context, queues, run, flags, tail, Carrying, Typed, Carried, Looping
  <2>2. Times(x, live') = Times(x, live)
    BY <1>a, <1>39, LiveTimes DEF CutTail, Withdrawing, CommitInput
  <2> QED
    BY <1>a, <2>1, <2>2 DEF Counted, Elsewhere
<1>40. CASE CutWithdraw
  <2>1. UNCHANGED <<steerQ, followQ>> /\ Carrying = open /\ Carrying' = open' /\ pc \in {"closeout", "withdraw", "release"}
    BY <1>40 DEF CutWithdraw, Carrying
  <2>2. CASE Withdraw \/ WithdrawCut
    BY <1>a, <2>1, <2>2, WithdrawCounts
  <2> QED
    BY <1>40, <2>2 DEF CutWithdraw
<1>41. ASSUME NEW m \in scope.sent, Steer(m) PROVE Counted(x)' = 1
  <2>1. /\ UNCHANGED <<nextQ, followQ, withdrawnQ>> /\ Carrying' = Carrying /\ Times(x, live') = Times(x, live)
        /\ steerQ' = Append(steerQ, m) /\ fate[m] = "fresh" /\ m \in Inputs
        /\ fate'[x] = IF x = m THEN "held" ELSE fate[x]
    BY <1>f, <1>41 DEF Steer, Inputs, context, queues, run, flags, tail, Carrying
  <2>2. Times(x, steerQ') = Times(x, steerQ) + (IF m = x THEN 1 ELSE 0)
    BY <1>e, <2>1, TimesMore
  <2>3. x = m => Elsewhere(x) = 1
    BY <2>1 DEF Elsewhere
  <2>91. CASE x = m
    <3>1. fate'[x] = "held"
      BY <2>1, <2>91
    <3>2. Elsewhere(x)' = 0
      BY <3>1 DEF Elsewhere
    <3> QED
      BY <1>k, <1>h, <2>1, <2>2, <2>3, <2>91, <3>2 DEF Counted
  <2>92. CASE ~(x = m)
    <3>1. Elsewhere(x)' = Elsewhere(x)
      BY <2>1, <2>92 DEF Elsewhere
    <3> QED
      BY <1>a, <1>h, <2>1, <2>2, <2>3, <2>92, <3>1 DEF Counted
  <2> QED
    BY <2>91, <2>92
<1>42. ASSUME NEW m \in scope.sent, FollowUp(m) PROVE Counted(x)' = 1
  <2>1. /\ UNCHANGED <<nextQ, steerQ, withdrawnQ>> /\ Carrying' = Carrying /\ Times(x, live') = Times(x, live)
        /\ followQ' = Append(followQ, m) /\ fate[m] = "fresh" /\ m \in Inputs
        /\ fate'[x] = IF x = m THEN "held" ELSE fate[x]
    BY <1>f, <1>42 DEF FollowUp, Inputs, context, queues, run, flags, tail, Carrying
  <2>2. Times(x, followQ') = Times(x, followQ) + (IF m = x THEN 1 ELSE 0)
    BY <1>e, <2>1, TimesMore
  <2>3. x = m => Elsewhere(x) = 1
    BY <2>1 DEF Elsewhere
  <2>91. CASE x = m
    <3>1. fate'[x] = "held"
      BY <2>1, <2>91
    <3>2. Elsewhere(x)' = 0
      BY <3>1 DEF Elsewhere
    <3> QED
      BY <1>k, <1>h, <2>1, <2>2, <2>3, <2>91, <3>2 DEF Counted
  <2>92. CASE ~(x = m)
    <3>1. Elsewhere(x)' = Elsewhere(x)
      BY <2>1, <2>92 DEF Elsewhere
    <3> QED
      BY <1>a, <1>h, <2>1, <2>2, <2>3, <2>92, <3>1 DEF Counted
  <2> QED
    BY <2>91, <2>92
<1>43. ASSUME NEW m \in scope.sent, NextTurn(m) PROVE Counted(x)' = 1
  <2>1. /\ UNCHANGED <<steerQ, followQ, withdrawnQ>> /\ Carrying' = Carrying /\ Times(x, live') = Times(x, live)
        /\ nextQ' = Append(nextQ, m) /\ fate[m] = "fresh" /\ m \in Inputs
        /\ fate'[x] = IF x = m THEN "held" ELSE fate[x]
    BY <1>f, <1>43 DEF NextTurn, Inputs, context, queues, run, flags, tail, Carrying
  <2>2. Times(x, nextQ') = Times(x, nextQ) + (IF m = x THEN 1 ELSE 0)
    BY <1>e, <2>1, TimesMore
  <2>3. x = m => Elsewhere(x) = 1
    BY <2>1 DEF Elsewhere
  <2>91. CASE x = m
    <3>1. fate'[x] = "held"
      BY <2>1, <2>91
    <3>2. Elsewhere(x)' = 0
      BY <3>1 DEF Elsewhere
    <3> QED
      BY <1>k, <1>h, <2>1, <2>2, <2>3, <2>91, <3>2 DEF Counted
  <2>92. CASE ~(x = m)
    <3>1. Elsewhere(x)' = Elsewhere(x)
      BY <2>1, <2>92 DEF Elsewhere
    <3> QED
      BY <1>a, <1>h, <2>1, <2>2, <2>3, <2>92, <3>1 DEF Counted
  <2> QED
    BY <2>91, <2>92
<1>44. ASSUME NEW m \in scope.sent, Prompt(m) PROVE Counted(x)' = 1
  <2>1. /\ UNCHANGED <<nextQ, steerQ, followQ, withdrawnQ>> /\ Times(x, live') = Times(x, live)
        /\ Carrying = <<>> /\ Carrying' = <<m>> /\ fate[m] = "fresh" /\ m \in Inputs
        /\ fate'[x] = IF x = m THEN "held" ELSE fate[x]
    <3>1. Carrying = <<>> /\ Carrying' = <<m>>
      BY <1>44 DEF Prompt, Carrying, Typed, Carried
    <3> QED
      BY <1>f, <1>44, <3>1 DEF Prompt, Inputs, context, queues
  <2>2. Times(x, Carrying) = 0 /\ Times(x, Carrying') = (IF x = m THEN 1 ELSE 0)
    BY <1>c, <2>1
  <2>3. x = m => Elsewhere(x) = 1
    BY <2>1 DEF Elsewhere
  <2>91. CASE x = m
    <3>1. fate'[x] = "held"
      BY <2>1, <2>91
    <3>2. Elsewhere(x)' = 0
      BY <3>1 DEF Elsewhere
    <3> QED
      BY <1>k, <1>h, <2>1, <2>2, <2>3, <2>91, <3>2 DEF Counted
  <2>92. CASE ~(x = m)
    <3>1. Elsewhere(x)' = Elsewhere(x)
      BY <2>1, <2>92 DEF Elsewhere
    <3> QED
      BY <1>a, <1>h, <2>1, <2>2, <2>3, <2>92, <3>1 DEF Counted
  <2> QED
    BY <2>91, <2>92
<1>45. ASSUME NEW w \in BOOLEAN, Abort(w) PROVE Counted(x)' = 1
  <2> DEFINE lines == steerQ \o followQ
  <2>1. /\ UNCHANGED nextQ /\ Carrying' = Carrying /\ Times(x, live') = Times(x, live)
        /\ steerQ' = <<>> /\ followQ' = <<>>
    BY <1>45 DEF Abort, context, run, Carrying
  <2>2. \/ withdrawnQ' = <<>> /\ fate'[x] = IF x \in ToSet(lines \o withdrawnQ) THEN "given" ELSE fate[x]
        \/ withdrawnQ' = withdrawnQ \o lines /\ fate' = fate
        \/ withdrawnQ' = withdrawnQ /\ fate'[x] = IF x \in ToSet(lines) THEN "cleared" ELSE fate[x]
    BY <1>f, <1>45 DEF Abort
  <2>3. /\ lines \in Seq(Inputs)
        /\ Times(x, lines) = Times(x, steerQ) + Times(x, followQ)
        /\ Times(x, withdrawnQ \o lines) = Times(x, withdrawnQ) + Times(x, lines)
        /\ Times(x, lines \o withdrawnQ) = Times(x, lines) + Times(x, withdrawnQ)
        /\ (Times(x, lines) = 0 <=> x \notin ToSet(lines))
        /\ (Times(x, lines \o withdrawnQ) = 0 <=> x \notin ToSet(lines \o withdrawnQ))
        /\ Times(x, <<>>) = 0
    <3>1. lines \in Seq(Inputs)
      BY <1>d, <1>e
    <3>2. lines \o withdrawnQ \in Seq(Inputs)
      BY <1>d, <1>e, <3>1
    <3>3. \A r \in Seq(Inputs) : Times(x, r) = 0 <=> x \notin ToSet(r)
      BY TimesIn
    <3> HIDE DEF lines
    <3>4. Times(x, lines) = Times(x, steerQ) + Times(x, followQ)
      BY <1>d, <1>e DEF lines
    <3> QED
      BY <1>c, <1>d, <1>e, <3>1, <3>2, <3>3, <3>4
  <2> HIDE DEF lines
  <2>4. CASE withdrawnQ' = <<>> /\ fate'[x] = IF x \in ToSet(lines \o withdrawnQ) THEN "given" ELSE fate[x]
    <3>1. Times(x, steerQ') = 0 /\ Times(x, followQ') = 0 /\ Times(x, withdrawnQ') = 0
      BY <2>1, <2>3, <2>4
    <3>91. CASE x \in ToSet(lines \o withdrawnQ)
      <4>1. fate'[x] = "given"
        BY <2>4, <3>91
      <4>2. Elsewhere(x)' = 1
        BY <4>1 DEF Elsewhere
      <4> QED
        BY SMTT(60), <1>k, <1>h, <2>1, <2>3, <3>1, <3>91, <4>2 DEF Counted
    <3>92. CASE ~(x \in ToSet(lines \o withdrawnQ))
      <4>1. Elsewhere(x)' = Elsewhere(x)
        BY <2>4, <3>92 DEF Elsewhere
      <4> QED
        BY <1>a, <1>h, <2>1, <2>3, <3>1, <3>92, <4>1 DEF Counted
    <3> QED
      BY <3>91, <3>92
  <2>5. CASE withdrawnQ' = withdrawnQ \o lines /\ fate' = fate
    BY <1>a, <1>b, <2>1, <2>3, <2>5 DEF Counted, Elsewhere, Numbers
  <2>6. CASE withdrawnQ' = withdrawnQ /\ fate'[x] = IF x \in ToSet(lines) THEN "cleared" ELSE fate[x]
    <3>1. Times(x, steerQ') = 0 /\ Times(x, followQ') = 0 /\ Times(x, withdrawnQ') = Times(x, withdrawnQ)
      BY <2>1, <2>3, <2>6
    <3>91. CASE x \in ToSet(lines)
      <4>1. fate'[x] = "cleared"
        BY <2>6, <3>91
      <4>2. Elsewhere(x)' = 1
        BY <4>1 DEF Elsewhere
      <4> QED
        BY SMTT(60), <1>k, <1>h, <2>1, <2>3, <3>1, <3>91, <4>2 DEF Counted
    <3>92. CASE ~(x \in ToSet(lines))
      <4>1. Elsewhere(x)' = Elsewhere(x)
        BY <2>6, <3>92 DEF Elsewhere
      <4> QED
        BY <1>a, <1>h, <2>1, <2>3, <3>1, <3>92, <4>1 DEF Counted
    <3> QED
      BY <3>91, <3>92
  <2> QED
    BY <2>2, <2>4, <2>5, <2>6
<1>46. ASSUME NEW w \in BOOLEAN, AbortRetry(w) PROVE Counted(x)' = 1
  <2>1. UNCHANGED <<nextQ, steerQ, followQ, withdrawnQ, fate>> /\ Carrying' = Carrying
    BY <1>46 DEF AbortRetry, context, queues, run, flags, tail, Carrying, Typed, Carried, Looping
  <2>2. Times(x, live') = Times(x, live)
    BY <1>46 DEF AbortRetry, context
  <2> QED
    BY <1>a, <2>1, <2>2 DEF Counted, Elsewhere
<1>47. CASE CtxAbort
  <2>1. UNCHANGED <<nextQ, steerQ, followQ, withdrawnQ, fate>> /\ Carrying' = Carrying
    BY <1>47 DEF CtxAbort, context, queues, run, flags, tail, Carrying, Typed, Carried, Looping
  <2>2. Times(x, live') = Times(x, live)
    BY <1>47 DEF CtxAbort, context
  <2> QED
    BY <1>a, <2>1, <2>2 DEF Counted, Elsewhere
<1>48. CASE CancelPrompt
  <2>1. UNCHANGED <<nextQ, steerQ, followQ, withdrawnQ, fate>> /\ Carrying' = Carrying
    BY <1>48 DEF CancelPrompt, context, queues, run, flags, tail, Carrying, Typed, Carried, Looping
  <2>2. Times(x, live') = Times(x, live)
    BY <1>48 DEF CancelPrompt, context
  <2> QED
    BY <1>a, <2>1, <2>2 DEF Counted, Elsewhere
<1> QED
  BY <1>1, <1>2, <1>3, <1>4, <1>5, <1>6, <1>7, <1>8, <1>9, <1>10, <1>11, <1>12, <1>13, <1>14, <1>15,
     <1>16, <1>17, <1>18, <1>19, <1>20, <1>21, <1>22, <1>23, <1>24, <1>25, <1>26, <1>27, <1>28, <1>29,
     <1>30, <1>31, <1>32, <1>33, <1>34, <1>35, <1>36, <1>37, <1>38, <1>39, <1>40, <1>41, <1>42, <1>43,
     <1>44, <1>45, <1>46, <1>47, <1>48 DEF Next, Turn, TailStep, Callers

-----------------------------------------------------------------------------
\* Only a cancel of prompt() itself can leave one of its own inputs nowhere.
NotMissed == cuts = 0 => \A m \in Texts \cup Nexts : fate[m] # "missed"

LEMMA NotMissedKept ==
  ASSUME Typed, NotMissed, Next
  PROVE  NotMissed'
<1>1. CASE TurnAway
  BY <1>1 DEF TurnAway, bounds, NotMissed, Inputs, Becomes, Typed, Seated, TypeOK
<1>2. CASE Accept
  BY <1>2 DEF Accept, bounds, NotMissed, Inputs, Becomes, Typed, Seated, TypeOK
<1>3. CASE SetupFails
  BY <1>3 DEF SetupFails, bounds, NotMissed, Inputs, Becomes, Typed, Seated, TypeOK
<1>4. CASE FirstRun
  BY <1>4 DEF FirstRun, bounds, NotMissed, Inputs, Becomes, Typed, Seated, TypeOK
<1>5. CASE BuildFails
  BY <1>5 DEF BuildFails, bounds, NotMissed, Inputs, Becomes, Typed, Seated, TypeOK
<1>6. CASE StartLoop
  BY <1>6 DEF StartLoop, bounds, NotMissed, Inputs, Becomes, Typed, Seated, TypeOK
<1>7. CASE CommitInput
  BY <1>7 DEF CommitInput, bounds, NotMissed, Inputs, Becomes, Typed, Seated, TypeOK
<1>8. CASE StoreInput
  BY <1>8 DEF StoreInput, bounds, NotMissed, Inputs, Becomes, Typed, Seated, TypeOK
<1>9. CASE FirstSteer
  BY <1>9 DEF FirstSteer, TakeSteer, bounds, NotMissed, Inputs, Becomes, Typed, Seated, TypeOK
<1>10. CASE Request
  BY <1>10 DEF Request, bounds, NotMissed, Inputs, Becomes, Typed, Seated, TypeOK
<1>11. ASSUME NEW k \in {"ok", "tools", "retryable", "overflow", "fatal"}, Answer(k) PROVE NotMissed'
  BY <1>11 DEF Answer, bounds, NotMissed, Inputs, Becomes, Typed, Seated, TypeOK
<1>12. CASE StoreAnswer
  BY <1>12 DEF StoreAnswer, bounds, NotMissed, Inputs, Becomes, Typed, Seated, TypeOK
<1>13. CASE ProviderRaises
  BY <1>13 DEF ProviderRaises, bounds, NotMissed, Inputs, Becomes, Typed, Seated, TypeOK
<1>14. CASE ToolsEnd
  BY <1>14 DEF ToolsEnd, bounds, NotMissed, Inputs, Becomes, Typed, Seated, TypeOK
<1>15. CASE TurnEnds
  BY <1>15 DEF TurnEnds, TakeSteer, bounds, NotMissed, Inputs, Becomes, Typed, Seated, TypeOK
<1>16. CASE RunReturns
  BY <1>16 DEF RunReturns, bounds, NotMissed, Inputs, Becomes, Typed, Seated, TypeOK
<1>17. CASE Unwind
  <2> DEFINE rest == IF storing THEN RestOf(todo) ELSE todo
             lost == ToSet(rest) \ ToSet(open)
  <2>1. fate' = Becomes(lost, "missed") /\ cuts' = cuts
    BY <1>17 DEF Unwind, bounds
  <2>2. lost \cap (Texts \cup Nexts) = {}
    <3>1. CASE pc = "feeding"
      <4>1. todo \in Seq(Steers \cup FollowUps) /\ (storing => todo # <<>>)
        BY <3>1 DEF Typed, Carried
      <4>2. rest \in Seq(Steers \cup FollowUps)
        BY <4>1, Ends
      <4> HIDE DEF rest
      <4>3. ToSet(rest) \subseteq Steers \cup FollowUps
        BY <4>2 DEF ToSet
      <4> QED
        BY <4>3, InputsAssumption
    <3>2. CASE pc = "prompts"
      <4>1. todo \in Seq(Inputs) /\ (storing => todo # <<>>)
        BY <3>2 DEF Typed, TypeOK, Carried
      <4>2. todo # <<>> => RestOf(todo) = Tail(todo)
        BY <4>1, Ends
      <4>3. rest = open
        BY <3>2, <4>1, <4>2 DEF Typed, Carried
      <4> QED
        BY <4>3
    <3>3. CASE pc \notin {"feeding", "prompts"}
      <4>1. todo = <<>>
        BY <1>17, <3>3 DEF Unwind, Looping, Typed, Carried
      <4>2. RestOf(<<>>) = <<>> /\ ToSet(<<>>) = {} /\ <<>> \in Seq(Inputs)
        <5>1. <<>> \in Seq(Inputs)
          BY EmptySeq
        <5>2. ToSet(<<>>) = {} /\ RestOf(<<>>) = <<>>
          BY <5>1, SplitTimes, TimesOne
        <5> QED
          BY <5>1, <5>2
      <4> QED
        BY <4>1, <4>2
    <3> QED
      BY <3>1, <3>2, <3>3
  <2> HIDE DEF lost
  <2>3. \A m \in Texts \cup Nexts : m \in Inputs
    BY DEF Inputs
  <2> QED
    BY <2>1, <2>2, <2>3 DEF Becomes, NotMissed
<1>18. CASE Closeout
  BY <1>18 DEF Closeout, EmitWithdrawn, Withdraw, Keep, bounds, NotMissed, Inputs, Becomes, Typed,
     Seated, TypeOK
<1>19. CASE CloseoutCut
  BY <1>19 DEF CloseoutCut, WithdrawCut, bounds, NotMissed, Inputs, Becomes, Typed, Seated, TypeOK
<1>20. CASE CloseoutEnds
  BY <1>20 DEF CloseoutEnds, bounds, NotMissed, Inputs, Becomes, Typed, Seated, TypeOK
<1>21. CASE RetryStarts
  BY <1>21 DEF RetryStarts, bounds, NotMissed, Inputs, Becomes, Typed, Seated, TypeOK
<1>22. CASE RunsOver
  BY <1>22 DEF RunsOver, bounds, NotMissed, Inputs, Becomes, Typed, Seated, TypeOK
<1>23. CASE Countdown
  BY <1>23 DEF Countdown, bounds, NotMissed, Inputs, Becomes, Typed, Seated, TypeOK
<1>24. CASE RetryRuns
  BY <1>24 DEF RetryRuns, Rerun, bounds, NotMissed, Inputs, Becomes, Typed, Seated, TypeOK
<1>25. CASE RetryStops
  BY <1>25 DEF RetryStops, bounds, NotMissed, Inputs, Becomes, Typed, Seated, TypeOK
<1>26. CASE NoRecovery
  BY <1>26 DEF NoRecovery, bounds, NotMissed, Inputs, Becomes, Typed, Seated, TypeOK
<1>27. CASE Recover
  BY <1>27 DEF Recover, bounds, NotMissed, Inputs, Becomes, Typed, Seated, TypeOK
<1>28. CASE CompactFails
  BY <1>28 DEF CompactFails, bounds, NotMissed, Inputs, Becomes, Typed, Seated, TypeOK
<1>29. CASE CompactWrites
  BY <1>29 DEF CompactWrites, bounds, NotMissed, Inputs, Becomes, Typed, Seated, TypeOK
<1>30. CASE RecoveryRuns
  BY <1>30 DEF RecoveryRuns, Rerun, bounds, NotMissed, Inputs, Becomes, Typed, Seated, TypeOK
<1>31. CASE RecoveryStops
  BY <1>31 DEF RecoveryStops, bounds, NotMissed, Inputs, Becomes, Typed, Seated, TypeOK
<1>32. CASE TailWithdraws
  BY <1>32 DEF TailWithdraws, EmitWithdrawn, Withdraw, Keep, bounds, NotMissed, Inputs, Becomes, Typed,
     Seated, TypeOK
<1>33. CASE NoThreshold
  BY <1>33 DEF NoThreshold, bounds, NotMissed, Inputs, Becomes, Typed, Seated, TypeOK
<1>34. CASE Threshold
  BY <1>34 DEF Threshold, bounds, NotMissed, Inputs, Becomes, Typed, Seated, TypeOK
<1>35. CASE ThresholdEnds
  BY <1>35 DEF ThresholdEnds, bounds, NotMissed, Inputs, Becomes, Typed, Seated, TypeOK
<1>36. CASE Raise
  BY <1>36 DEF Raise, bounds, NotMissed, Inputs, Becomes, Typed, Seated, TypeOK
<1>37. CASE Release
  BY <1>37 DEF Release, EmitWithdrawn, Withdraw, Keep, WithdrawCut, bounds, NotMissed, Inputs, Becomes,
     Typed, Seated, TypeOK
<1>38. CASE Idle
  BY <1>38 DEF Idle, EmitWithdrawn, Withdraw, Keep, bounds, NotMissed, Inputs, Becomes, Typed, Seated,
     TypeOK
<1>39. CASE CutTail
  BY <1>39 DEF CutTail, bounds, NotMissed, Inputs, Becomes, Typed, Seated, TypeOK
<1>40. CASE CutWithdraw
  BY <1>40 DEF CutWithdraw, WithdrawCut, bounds, NotMissed, Inputs, Becomes, Typed, Seated, TypeOK
<1>41. ASSUME NEW m \in scope.sent, Steer(m) PROVE NotMissed'
  BY <1>41 DEF Steer, bounds, NotMissed, Inputs, Becomes, Typed, Seated, TypeOK
<1>42. ASSUME NEW m \in scope.sent, FollowUp(m) PROVE NotMissed'
  BY <1>42 DEF FollowUp, bounds, NotMissed, Inputs, Becomes, Typed, Seated, TypeOK
<1>43. ASSUME NEW m \in scope.sent, NextTurn(m) PROVE NotMissed'
  BY <1>43 DEF NextTurn, bounds, NotMissed, Inputs, Becomes, Typed, Seated, TypeOK
<1>44. ASSUME NEW m \in scope.sent, Prompt(m) PROVE NotMissed'
  BY <1>44 DEF Prompt, bounds, NotMissed, Inputs, Becomes, Typed, Seated, TypeOK
<1>45. ASSUME NEW w \in BOOLEAN, Abort(w) PROVE NotMissed'
  BY <1>45 DEF Abort, bounds, NotMissed, Inputs, Becomes, Typed, Seated, TypeOK
<1>46. ASSUME NEW w \in BOOLEAN, AbortRetry(w) PROVE NotMissed'
  BY <1>46 DEF AbortRetry, bounds, NotMissed, Inputs, Becomes, Typed, Seated, TypeOK
<1>47. CASE CtxAbort
  BY <1>47 DEF CtxAbort, bounds, NotMissed, Inputs, Becomes, Typed, Seated, TypeOK
<1>48. CASE CancelPrompt
  BY <1>48 DEF CancelPrompt, bounds, NotMissed, Inputs, Becomes, Typed, Seated, TypeOK
<1> QED
  BY <1>1, <1>2, <1>3, <1>4, <1>5, <1>6, <1>7, <1>8, <1>9, <1>10, <1>11, <1>12, <1>13, <1>14, <1>15,
     <1>16, <1>17, <1>18, <1>19, <1>20, <1>21, <1>22, <1>23, <1>24, <1>25, <1>26, <1>27, <1>28, <1>29,
     <1>30, <1>31, <1>32, <1>33, <1>34, <1>35, <1>36, <1>37, <1>38, <1>39, <1>40, <1>41, <1>42, <1>43,
     <1>44, <1>45, <1>46, <1>47, <1>48 DEF Next, Turn, TailStep, Callers

LEMMA OneOrNone ==
  ASSUME NEW e, NEW P \in BOOLEAN
  PROVE  Cardinality({h \in {e} : P}) = IF P THEN 1 ELSE 0
<1>1. CASE P
  <2>1. {h \in {e} : P} = {e}
    BY <1>1
  <2> QED
    BY <1>1, <2>1, FS_Singleton
<1>2. CASE ~P
  <2>1. {h \in {e} : P} = {}
    BY <1>2
  <2> QED
    BY <1>2, <2>1, FS_EmptySet
<1> QED
  BY <1>1, <1>2

-----------------------------------------------------------------------------
\* The whole invariant.
Homed == Typed /\ Stopping /\ Behind /\ Counts /\ Matches /\ NotMissed

LEMMA HomedInit == Init => Homed
<1> SUFFICES ASSUME Init
             PROVE  Homed
  OBVIOUS
<1>1. Typed /\ Stopping
  BY TypedInit
<1>2. ToSet(<<>>) = {} /\ \A m : Times(m, <<>>) = 0
  BY TimesOne
<1>3. Carrying = <<>> /\ Waiting = <<>>
  BY DEF Init, Carrying, Waiting
<1>4. Counts
  <2> SUFFICES ASSUME NEW m \in Inputs
               PROVE  Counted(m) = 1
    BY DEF Counts
  <2>1. Elsewhere(m) = 1
    BY DEF Init, Elsewhere
  <2> QED
    BY <1>2, <1>3, <2>1 DEF Init, Counted
<1>5. Matches
  <2>1. <<>> \o <<>> = <<>>
    OBVIOUS
  <2> QED
    BY <1>3, <2>1 DEF Init, Matches, InputsOf
<1>6. Behind
  BY <1>2 DEF Init, NoTracker, Behind
<1>7. NotMissed
  BY DEF Init, NotMissed, Inputs
<1> QED
  BY <1>1, <1>4, <1>5, <1>6, <1>7 DEF Homed

LEMMA HomedNext == Homed /\ [Next]_vars => Homed'
<1> SUFFICES ASSUME Homed, [Next]_vars
             PROVE  Homed'
  OBVIOUS
<1>1. Typed' /\ Stopping'
  BY TypedNext DEF Homed
<1>2. CASE Next
  <2>1. Behind' /\ Matches' /\ NotMissed'
    BY <1>1, <1>2, BehindKept, MatchesKept, NotMissedKept DEF Homed
  <2>2. Counts'
    <3>1. \A x \in Inputs \ astray' : Counted(x)' = 1
      BY <1>1, <1>2, CountsStep DEF Homed
    <3> QED
      BY <3>1 DEF Counts
  <2> QED
    BY <1>1, <2>1, <2>2 DEF Homed
<1>3. CASE UNCHANGED vars
  BY <1>1, <1>3 DEF Homed, Behind, Counts, Counted, Carrying, Elsewhere, Matches, InputsOf, Waiting,
     NotMissed,
                    vars, context, queues, run, flags, tail, bounds
<1> QED
  BY <1>2, <1>3

\* The inputs of the running turn are those it carries.
LEMMA InTurnIs ==
  ASSUME Typed, NEW m \in Inputs
  PROVE  InTurn(m) <=> m \in ToSet(Carrying)
<1>1. ToSet(<<>>) = {} /\ <<>> \in Seq(Inputs)
  BY EmptySeq, TimesOne
<1>2. drained \in Seq(Inputs) /\ todo \in Seq(Inputs) /\ open \in Seq(Inputs)
  BY QueuesTyped
<1>3. RestOf(<<>>) = <<>> /\ (todo # <<>> => RestOf(todo) = Tail(todo))
  BY <1>1, <1>2, SplitTimes, Ends
<1>4. CASE pc = "asked"
  <2>1. open = <<>> /\ todo = <<>> /\ ~storing /\ drained = <<>> /\ Carrying = <<current>>
    BY <1>4 DEF Typed, Carried, Seated, Carrying
  <2>2. ToSet(<<current>>) = {current}
    BY DEF ToSet
  <2> QED
    BY <1>1, <1>4, <2>1, <2>2 DEF InTurn
<1>5. CASE pc = "setup"
  <2>1. open = <<>> /\ todo = <<>> /\ ~storing /\ Carrying = drained \o <<current>>
    BY <1>5 DEF Typed, Carried, Carrying
  <2>2. <<current>> \in Seq(Inputs)
    BY <1>5, QueuesTyped
  <2>3. ToSet(<<current>>) = {current}
    BY DEF ToSet
  <2>4. ToSet(drained \o <<current>>) = ToSet(drained) \cup {current}
    <3>1. \A q, r \in Seq(Inputs) : ToSet(q \o r) = ToSet(q) \cup ToSet(r)
      BY Members
    <3> QED
      BY <1>2, <2>2, <2>3, <3>1
  <2> QED
    BY <1>1, <1>5, <2>1, <2>4 DEF InTurn
<1>6. CASE pc = "feeding"
  <2>1. open = <<>> /\ (storing => todo # <<>>) /\ Carrying = IF storing THEN RestOf(todo) ELSE todo
    BY <1>3, <1>6 DEF Typed, Carried, Carrying
  <2> QED
    BY <1>1, <1>6, <2>1 DEF InTurn
<1>7. CASE pc = "prompts"
  <2>1. open = (IF storing THEN RestOf(todo) ELSE todo) /\ Carrying = open
    BY <1>3, <1>7 DEF Typed, Carried, Carrying
  <2> QED
    BY <1>7, <2>1 DEF InTurn
<1>8. CASE pc = "build"
  <2>1. open = todo /\ ~storing /\ Carrying = open
    BY <1>8 DEF Typed, Carried, Carrying
  <2> QED
    BY <1>8, <2>1 DEF InTurn
<1>9. CASE pc \notin {"asked", "setup", "feeding", "prompts", "build"}
  <2>1. todo = <<>> /\ Carrying = open
    BY <1>9 DEF Typed, Carried, Carrying
  <2> QED
    BY <1>1, <1>3, <1>9, <2>1 DEF InTurn
<1> QED
  BY <1>4, <1>5, <1>6, <1>7, <1>8, <1>9

LEMMA HomesCounted ==
  ASSUME Typed, NEW m \in Inputs, Counted(m) = 1
  PROVE  Homes(m) = 1
<1>1. /\ nextQ \in Seq(Items) /\ steerQ \in Seq(Items) /\ followQ \in Seq(Items) /\ withdrawnQ \in Seq(Items)
      /\ live \in Seq(Items)
  <2>1. \A q \in Seq(Inputs) : q \in Seq(Items)
    BY DEF Items
  <2>2. live \in Seq(Items)
    BY DEF Typed, TypeOK, Items
  <2> QED
    BY <2>1, <2>2, QueuesTyped
<1>2. \A q, r \in Seq(Items) : q \o r \in Seq(Items) /\ Times(m, q \o r) = Times(m, q) + Times(m, r)
  BY TimesBoth
<1> DEFINE two == nextQ \o steerQ
           three == two \o followQ
           four == three \o withdrawnQ
<1>3. two \in Seq(Items) /\ Times(m, two) = Times(m, nextQ) + Times(m, steerQ)
  BY <1>1, <1>2
<1> HIDE DEF two
<1>4. three \in Seq(Items) /\ Times(m, three) = Times(m, two) + Times(m, followQ)
  BY <1>1, <1>2, <1>3
<1> HIDE DEF three
<1>5. four \in Seq(Items) /\ Times(m, four) = Times(m, three) + Times(m, withdrawnQ)
  BY <1>1, <1>2, <1>4
<1> HIDE DEF four
<1>6. Times(m, four \o live) = Times(m, four) + Times(m, live)
  BY <1>1, <1>2, <1>5
<1>7. nextQ \o steerQ \o followQ \o withdrawnQ \o live = four \o live
  BY DEF two, three, four
<1>8. Cardinality({h \in {"turn"} : InTurn(m)}) = IF m \in ToSet(Carrying) THEN 1 ELSE 0
  BY InTurnIs, OneOrNone
<1>9. Cardinality({h \in {"fate"} : fate[m] # "held"}) = Elsewhere(m)
  <2>1. \A P \in BOOLEAN : Cardinality({h \in {"fate"} : P}) = IF P THEN 1 ELSE 0
    BY OneOrNone
  <2>2. (fate[m] # "held") \in BOOLEAN
    OBVIOUS
  <2> QED
    BY <2>1, <2>2 DEF Elsewhere
<1>10. Numbers(m)
  BY NumbersAre DEF Numbered
<1>11. Homes(m) = Times(m, four \o live) + (IF m \in ToSet(Carrying) THEN 1 ELSE 0) + Elsewhere(m)
  BY <1>7, <1>8, <1>9 DEF Homes
<1>12. Times(m, Carrying) = IF m \in ToSet(Carrying) THEN 1 ELSE 0
  <2>1. Times(m, Carrying) \in {0, 1}
    BY OnePlace
  <2> QED
    BY <1>10, <2>1 DEF Numbers
<1> QED
  BY <1>3, <1>4, <1>5, <1>6, <1>10, <1>11, <1>12 DEF Counted, Numbers

\* No input is lost or sent twice (prompt(), `_run', abort(), the withdrawal of an Esc, #320, #321,
\* #654): an input the session did not refuse is in exactly one of a queue, the running turn, the
\* context, an event or a refusal, whatever fails, is retried, compacted, aborted or cancelled, and
\* the prompt's own are never nowhere unless somebody cancels prompt() itself.
THEOREM OneHomeHolds == Spec => []OneHome
<1>1. Homed => OneHome
  <2> SUFFICES ASSUME Homed
               PROVE  OneHome
    OBVIOUS
  <2>1. \A m \in Inputs \ astray : Homes(m) = 1
    BY HomesCounted DEF Homed, Counts
  <2> QED
    BY <2>1 DEF Homed, NotMissed, OneHome
<1> QED
  BY <1>1, HomedInit, HomedNext, PTL DEF Spec

-----------------------------------------------------------------------------
\* What a withdrawal may still find: the prompt's own input is the last it commits, and a batch of
\* tools runs for an answer.
Bound ==
  /\ pc = "idle" => ~tracker.on
  /\ open # <<>> => Last(open) = current
  /\ pc = "tools" => tracker.committed = <<>>

LEMMA RemoveNone ==
  ASSUME NEW m
  PROVE  RemoveFirst(<<>>, m) = <<>>
<1>1. ~\E i \in 1..Len(<<>>) : <<>>[i] = m
  OBVIOUS
<1> QED
  BY <1>1 DEF RemoveFirst

LEMMA BoundKept ==
  ASSUME Typed, Bound, Next
  PROVE  Bound'
<1>1. CASE TurnAway
  BY <1>1 DEF TurnAway, context, queues, run, flags, tail, Bound, Typed, Carried, Looping
<1>2. CASE Accept
  BY <1>2 DEF Accept, context, queues, run, flags, tail, Bound, Typed, Carried, Looping
<1>3. CASE SetupFails
  BY <1>3 DEF SetupFails, context, queues, run, flags, tail, Bound, Typed, Carried, Looping
<1>4. CASE FirstRun
  <2>1. open' = drained \o <<current>> /\ pc' = "build" /\ current' = current
    BY <1>4 DEF FirstRun
  <2>2. drained \in Seq(Inputs) /\ current \in Inputs /\ <<current>> \in Seq(Inputs)
    BY <1>4, QueuesTyped DEF FirstRun
  <2>3. Append(drained, current) = drained \o <<current>>
    BY <2>2, AppendIsConcat
  <2>4. Last(Append(drained, current)) = current
    BY <2>2 DEF Last
  <2> QED
    BY <2>1, <2>3, <2>4 DEF Bound
<1>5. CASE BuildFails
  BY <1>5 DEF BuildFails, context, queues, run, flags, tail, Bound, Typed, Carried, Looping
<1>6. CASE StartLoop
  BY <1>6 DEF StartLoop, context, queues, run, flags, tail, Bound, Typed, Carried, Looping
<1>7. CASE CommitInput
  <2>1. /\ pc \in {"prompts", "feeding"} /\ ~storing /\ pc' = pc /\ current' = current /\ todo # <<>>
        /\ open' = RemoveFirst(open, Head(todo))
    BY <1>7 DEF CommitInput
  <2>2. CASE open = <<>>
    <3>1. pc = "feeding"
      BY <2>1, <2>2 DEF Typed, Carried
    <3>2. open' = <<>>
      BY <2>1, <2>2, RemoveNone
    <3> QED
      BY <2>1, <3>1, <3>2 DEF Bound
  <2>3. CASE open # <<>>
    <3>1. pc = "prompts" /\ open = todo /\ open \in Seq(Inputs)
      BY <2>1, <2>3 DEF Typed, TypeOK, Carried
    <3>2. open' = Tail(open)
      BY <2>1, <2>3, <3>1, RemoveHead
    <3>3. Tail(open) # <<>> => Last(Tail(open)) = Last(open)
      BY <2>3, <3>1 DEF Last
    <3> QED
      BY <2>1, <2>3, <3>1, <3>2, <3>3 DEF Bound
  <2> QED
    BY <2>2, <2>3
<1>8. CASE StoreInput
  BY <1>8 DEF StoreInput, context, queues, run, flags, tail, Bound, Typed, Carried, Looping
<1>9. CASE FirstSteer
  BY <1>9 DEF FirstSteer, TakeSteer, context, queues, run, flags, tail, Bound, Typed, Carried, Looping
<1>10. CASE Request
  BY <1>10 DEF Request, context, queues, run, flags, tail, Bound, Typed, Carried, Looping
<1>11. ASSUME NEW k \in {"ok", "tools", "retryable", "overflow", "fatal"}, Answer(k) PROVE Bound'
  BY <1>11 DEF Answer, context, queues, run, flags, tail, Bound, Typed, Carried, Looping
<1>12. CASE StoreAnswer
  <2>1. pc' # "idle" /\ open' = open /\ current' = current
    BY <1>12 DEF StoreAnswer
  <2>2. pc' = "tools" => Last(live) \in Answers
    BY <1>12 DEF StoreAnswer, Answers
  <2>3. tracker'.committed = tracker.committed
    <3>1. tracker \in Trackers /\ \A t \in Trackers : \A p : Safe(t, p).committed = t.committed
      BY TrackerIs DEF Typed
    <3> QED
      BY <1>12, <3>1 DEF StoreAnswer
  <2>4. Last(live) \in Answers => tracker.committed = <<>>
    BY <1>12 DEF StoreAnswer, Typed, Seated
  <2> QED
    BY <2>1, <2>2, <2>3, <2>4 DEF Bound
<1>13. CASE ProviderRaises
  BY <1>13 DEF ProviderRaises, context, queues, run, flags, tail, Bound, Typed, Carried, Looping
<1>14. CASE ToolsEnd
  BY <1>14 DEF ToolsEnd, context, queues, run, flags, tail, Bound, Typed, Carried, Looping
<1>15. CASE TurnEnds
  BY <1>15 DEF TurnEnds, TakeSteer, context, queues, run, flags, tail, Bound, Typed, Carried, Looping
<1>16. CASE RunReturns
  BY <1>16 DEF RunReturns, context, queues, run, flags, tail, Bound, Typed, Carried, Looping
<1>17. CASE Unwind
  BY <1>17 DEF Unwind, context, queues, run, flags, tail, Bound, Typed, Carried, Looping
<1>18. CASE Closeout
  BY <1>18 DEF Closeout, Withdraw, WithdrawCut, Keep, NoTracker, context, queues, run, flags, tail,
     Bound, Typed, Carried, Looping
<1>19. CASE CloseoutCut
  BY <1>19 DEF CloseoutCut, Withdraw, WithdrawCut, Keep, NoTracker, context, queues, run, flags, tail,
     Bound, Typed, Carried, Looping
<1>20. CASE CloseoutEnds
  BY <1>20 DEF CloseoutEnds, context, queues, run, flags, tail, Bound, Typed, Carried, Looping
<1>21. CASE RetryStarts
  BY <1>21 DEF RetryStarts, context, queues, run, flags, tail, Bound, Typed, Carried, Looping
<1>22. CASE RunsOver
  BY <1>22 DEF RunsOver, Onward, ToThreshold, context, queues, run, flags, tail, Bound, Typed, Carried,
     Looping
<1>23. CASE Countdown
  BY <1>23 DEF Countdown, context, queues, run, flags, tail, Bound, Typed, Carried, Looping
<1>24. CASE RetryRuns
  BY <1>24 DEF RetryRuns, Rerun, context, queues, run, flags, tail, Bound, Typed, Carried, Looping
<1>25. CASE RetryStops
  BY <1>25 DEF RetryStops, Onward, ToThreshold, context, queues, run, flags, tail, Bound, Typed,
     Carried, Looping
<1>26. CASE NoRecovery
  BY <1>26 DEF NoRecovery, ToThreshold, context, queues, run, flags, tail, Bound, Typed, Carried,
     Looping
<1>27. CASE Recover
  BY <1>27 DEF Recover, context, queues, run, flags, tail, Bound, Typed, Carried, Looping
<1>28. CASE CompactFails
  BY <1>28 DEF CompactFails, ToThreshold, context, queues, run, flags, tail, Bound, Typed, Carried,
     Looping
<1>29. CASE CompactWrites
  BY <1>29 DEF CompactWrites, Compacted, NoTracker, context, queues, run, flags, tail, Bound, Typed,
     Carried, Looping
<1>30. CASE RecoveryRuns
  BY <1>30 DEF RecoveryRuns, Rerun, context, queues, run, flags, tail, Bound, Typed, Carried, Looping
<1>31. CASE RecoveryStops
  BY <1>31 DEF RecoveryStops, ToThreshold, context, queues, run, flags, tail, Bound, Typed, Carried,
     Looping
<1>32. CASE TailWithdraws
  BY <1>32 DEF TailWithdraws, Withdraw, WithdrawCut, Keep, NoTracker, context, queues, run, flags,
     tail, Bound, Typed, Carried, Looping
<1>33. CASE NoThreshold
  BY <1>33 DEF NoThreshold, context, queues, run, flags, tail, Bound, Typed, Carried, Looping
<1>34. CASE Threshold
  BY <1>34 DEF Threshold, context, queues, run, flags, tail, Bound, Typed, Carried, Looping
<1>35. CASE ThresholdEnds
  BY <1>35 DEF ThresholdEnds, Compacted, NoTracker, context, queues, run, flags, tail, Bound, Typed,
     Carried, Looping
<1>36. CASE Raise
  BY <1>36 DEF Raise, context, queues, run, flags, tail, Bound, Typed, Carried, Looping
<1>37. CASE Release
  BY <1>37 DEF Release, Withdraw, WithdrawCut, Keep, NoTracker, context, queues, run, flags, tail,
     Bound, Typed, Carried, Looping
<1>38. CASE Idle
  BY <1>38 DEF Idle, NoTracker, context, queues, run, flags, tail, Bound, Typed, Carried, Looping
<1>39. CASE CutTail
  BY <1>39 DEF CutTail, context, queues, run, flags, tail, Bound, Typed, Carried, Looping
<1>40. CASE CutWithdraw
  BY <1>40 DEF CutWithdraw, Withdraw, WithdrawCut, Keep, NoTracker, context, queues, run, flags, tail,
     Bound, Typed, Carried, Looping
<1>41. ASSUME NEW m \in scope.sent, Steer(m) PROVE Bound'
  BY <1>41 DEF Steer, context, queues, run, flags, tail, Bound, Typed, Carried, Looping
<1>42. ASSUME NEW m \in scope.sent, FollowUp(m) PROVE Bound'
  BY <1>42 DEF FollowUp, context, queues, run, flags, tail, Bound, Typed, Carried, Looping
<1>43. ASSUME NEW m \in scope.sent, NextTurn(m) PROVE Bound'
  BY <1>43 DEF NextTurn, context, queues, run, flags, tail, Bound, Typed, Carried, Looping
<1>44. ASSUME NEW m \in scope.sent, Prompt(m) PROVE Bound'
  BY <1>44 DEF Prompt, context, queues, run, flags, tail, Bound, Typed, Carried, Looping
<1>45. ASSUME NEW w \in BOOLEAN, Abort(w) PROVE Bound'
  BY <1>45 DEF Abort, context, queues, run, flags, tail, Bound, Typed, Carried, Looping
<1>46. ASSUME NEW w \in BOOLEAN, AbortRetry(w) PROVE Bound'
  BY <1>46 DEF AbortRetry, context, queues, run, flags, tail, Bound, Typed, Carried, Looping
<1>47. CASE CtxAbort
  BY <1>47 DEF CtxAbort, context, queues, run, flags, tail, Bound, Typed, Carried, Looping
<1>48. CASE CancelPrompt
  BY <1>48 DEF CancelPrompt, context, queues, run, flags, tail, Bound, Typed, Carried, Looping
<1> QED
  BY <1>1, <1>2, <1>3, <1>4, <1>5, <1>6, <1>7, <1>8, <1>9, <1>10, <1>11, <1>12, <1>13, <1>14, <1>15,
     <1>16, <1>17, <1>18, <1>19, <1>20, <1>21, <1>22, <1>23, <1>24, <1>25, <1>26, <1>27, <1>28, <1>29,
     <1>30, <1>31, <1>32, <1>33, <1>34, <1>35, <1>36, <1>37, <1>38, <1>39, <1>40, <1>41, <1>42, <1>43,
     <1>44, <1>45, <1>46, <1>47, <1>48 DEF Next, Turn, TailStep, Callers

\* Who an Esc may still speak for.
Escaping ==
  /\ escaped # {} => stopped \in {"entry", "yes", "retry"}
  /\ cut = "prompt" => escaped = {}
  /\ stopped = "late" => abortReq /\ pc \notin {"retrystart", "backoff"}
  /\ pc \in {"asked", "setup"} => escaped \subseteq {current}

LEMMA EscapingKept ==
  ASSUME Typed, Stopping, Bound, Escaping, Next
  PROVE  Escaping'
<1>1. CASE TurnAway
  BY <1>1 DEF TurnAway, context, queues, run, flags, tail, Escaping, Typed, Carried, Seated, Looping
<1>2. CASE Accept
  BY <1>2 DEF Accept, context, queues, run, flags, tail, Escaping, Typed, Carried, Seated, Looping
<1>3. CASE SetupFails
  BY <1>3 DEF SetupFails, context, queues, run, flags, tail, Escaping, Typed, Carried, Seated, Looping
<1>4. CASE FirstRun
  BY <1>4 DEF FirstRun, context, queues, run, flags, tail, Escaping, Typed, Carried, Seated, Looping
<1>5. CASE BuildFails
  BY <1>5 DEF BuildFails, context, queues, run, flags, tail, Escaping, Typed, Carried, Seated, Looping
<1>6. CASE StartLoop
  BY <1>6 DEF StartLoop, context, queues, run, flags, tail, Escaping, Typed, Carried, Seated, Looping
<1>7. CASE CommitInput
  BY <1>7 DEF CommitInput, context, queues, run, flags, tail, Escaping, Typed, Carried, Seated, Looping
<1>8. CASE StoreInput
  BY <1>8 DEF StoreInput, context, queues, run, flags, tail, Escaping, Typed, Carried, Seated, Looping
<1>9. CASE FirstSteer
  BY <1>9 DEF FirstSteer, TakeSteer, context, queues, run, flags, tail, Escaping, Typed, Carried,
     Seated, Looping
<1>10. CASE Request
  BY <1>10 DEF Request, context, queues, run, flags, tail, Escaping, Typed, Carried, Seated, Looping
<1>11. ASSUME NEW k \in {"ok", "tools", "retryable", "overflow", "fatal"}, Answer(k) PROVE Escaping'
  BY <1>11 DEF Answer, context, queues, run, flags, tail, Escaping, Typed, Carried, Seated, Looping
<1>12. CASE StoreAnswer
  BY <1>12 DEF StoreAnswer, context, queues, run, flags, tail, Escaping, Typed, Carried, Seated, Looping
<1>13. CASE ProviderRaises
  BY <1>13 DEF ProviderRaises, context, queues, run, flags, tail, Escaping, Typed, Carried, Seated,
     Looping
<1>14. CASE ToolsEnd
  BY <1>14 DEF ToolsEnd, context, queues, run, flags, tail, Escaping, Typed, Carried, Seated, Looping
<1>15. CASE TurnEnds
  BY <1>15 DEF TurnEnds, TakeSteer, context, queues, run, flags, tail, Escaping, Typed, Carried,
     Seated, Looping
<1>16. CASE RunReturns
  BY <1>16 DEF RunReturns, context, queues, run, flags, tail, Escaping, Typed, Carried, Seated, Looping
<1>17. CASE Unwind
  BY <1>17 DEF Unwind, context, queues, run, flags, tail, Escaping, Typed, Carried, Seated, Looping
<1>18. CASE Closeout
  BY <1>18 DEF Closeout, context, queues, run, flags, tail, Escaping, Typed, Carried, Seated, Looping
<1>19. CASE CloseoutCut
  BY <1>19 DEF CloseoutCut, context, queues, run, flags, tail, Escaping, Typed, Carried, Seated, Looping
<1>20. CASE CloseoutEnds
  BY <1>20 DEF CloseoutEnds, context, queues, run, flags, tail, Escaping, Typed, Carried, Seated,
     Looping
<1>21. CASE RetryStarts
  BY <1>21 DEF RetryStarts, context, queues, run, flags, tail, Escaping, Typed, Carried, Seated, Looping
<1>22. CASE RunsOver
  BY <1>22 DEF RunsOver, Onward, ToThreshold, context, queues, run, flags, tail, Escaping, Typed,
     Carried, Seated, Looping
<1>23. CASE Countdown
  BY <1>23 DEF Countdown, context, queues, run, flags, tail, Escaping, Typed, Carried, Seated, Looping
<1>24. CASE RetryRuns
  BY <1>24 DEF RetryRuns, Rerun, Stopping, context, queues, run, flags, tail, Escaping, Typed, Carried,
     Seated, Looping
<1>25. CASE RetryStops
  BY <1>25 DEF RetryStops, Onward, ToThreshold, context, queues, run, flags, tail, Escaping, Typed,
     Carried, Seated, Looping
<1>26. CASE NoRecovery
  BY <1>26 DEF NoRecovery, ToThreshold, context, queues, run, flags, tail, Escaping, Typed, Carried,
     Seated, Looping
<1>27. CASE Recover
  BY <1>27 DEF Recover, context, queues, run, flags, tail, Escaping, Typed, Carried, Seated, Looping
<1>28. CASE CompactFails
  BY <1>28 DEF CompactFails, ToThreshold, context, queues, run, flags, tail, Escaping, Typed, Carried,
     Seated, Looping
<1>29. CASE CompactWrites
  BY <1>29 DEF CompactWrites, context, queues, run, flags, tail, Escaping, Typed, Carried, Seated,
     Looping
<1>30. CASE RecoveryRuns
  BY <1>30 DEF RecoveryRuns, Rerun, Stopping, context, queues, run, flags, tail, Escaping, Typed,
     Carried, Seated, Looping
<1>31. CASE RecoveryStops
  BY <1>31 DEF RecoveryStops, ToThreshold, context, queues, run, flags, tail, Escaping, Typed, Carried,
     Seated, Looping
<1>32. CASE TailWithdraws
  BY <1>32 DEF TailWithdraws, context, queues, run, flags, tail, Escaping, Typed, Carried, Seated,
     Looping
<1>33. CASE NoThreshold
  BY <1>33 DEF NoThreshold, context, queues, run, flags, tail, Escaping, Typed, Carried, Seated, Looping
<1>34. CASE Threshold
  BY <1>34 DEF Threshold, context, queues, run, flags, tail, Escaping, Typed, Carried, Seated, Looping
<1>35. CASE ThresholdEnds
  BY <1>35 DEF ThresholdEnds, context, queues, run, flags, tail, Escaping, Typed, Carried, Seated,
     Looping
<1>36. CASE Raise
  BY <1>36 DEF Raise, context, queues, run, flags, tail, Escaping, Typed, Carried, Seated, Looping
<1>37. CASE Release
  BY <1>37 DEF Release, context, queues, run, flags, tail, Escaping, Typed, Carried, Seated, Looping
<1>38. CASE Idle
  BY <1>38 DEF Idle, context, queues, run, flags, tail, Escaping, Typed, Carried, Seated, Looping
<1>39. CASE CutTail
  BY <1>39 DEF CutTail, context, queues, run, flags, tail, Escaping, Typed, Carried, Seated, Looping
<1>40. CASE CutWithdraw
  BY <1>40 DEF CutWithdraw, context, queues, run, flags, tail, Escaping, Typed, Carried, Seated, Looping
<1>41. ASSUME NEW m \in scope.sent, Steer(m) PROVE Escaping'
  BY <1>41 DEF Steer, context, queues, run, flags, tail, Escaping, Typed, Carried, Seated, Looping
<1>42. ASSUME NEW m \in scope.sent, FollowUp(m) PROVE Escaping'
  BY <1>42 DEF FollowUp, context, queues, run, flags, tail, Escaping, Typed, Carried, Seated, Looping
<1>43. ASSUME NEW m \in scope.sent, NextTurn(m) PROVE Escaping'
  BY <1>43 DEF NextTurn, context, queues, run, flags, tail, Escaping, Typed, Carried, Seated, Looping
<1>44. ASSUME NEW m \in scope.sent, Prompt(m) PROVE Escaping'
  BY <1>44 DEF Prompt, context, queues, run, flags, tail, Escaping, Typed, Carried, Seated, Looping
<1>45. ASSUME NEW w \in BOOLEAN, Abort(w) PROVE Escaping'
  <2>1. \/ (pc = "idle" \/ stopped # "no") /\ stopped' = stopped
        \/ pc # "idle" /\ stopped = "no" /\ stopped' \in {"entry", "yes"}
        \/ pc = "build" /\ stopped = "no" /\ stopped' = "late"
    BY <1>45 DEF Abort
  <2>2. \/ escaped' = {}
        \/ escaped' = escaped
        \/ stopped' # "late" /\ cut # "prompt" /\ escaped' = escaped \cup AtStake
    BY <1>45 DEF Abort
  <2>3. abortReq' /\ pc' = pc /\ current' = current /\ (cut' = "prompt" => cut = "prompt")
    BY <1>45 DEF Abort
  <2>4. pc = "idle" => AtStake = {}
    BY DEF AtStake, Bound
  <2>5. pc \in {"asked", "setup"} => AtStake = {current}
    BY DEF AtStake
  <2>6. escaped' # {} => stopped' \in {"entry", "yes", "retry"}
    <3>1. escaped # {} => stopped \in {"entry", "yes", "retry"} /\ stopped' = stopped
      BY <2>1 DEF Escaping
    <3>2. CASE escaped = {} /\ escaped' # {}
      <4>1. stopped' # "late" /\ AtStake # {} /\ pc # "idle"
        BY <2>2, <2>4, <3>2
      <4>2. stopped \in {"no", "entry", "yes", "late", "retry"}
        BY DEF Typed, TypeOK
      <4> QED
        BY <2>1, <4>1, <4>2
    <3> QED
      BY <3>1, <3>2
  <2>7. cut' = "prompt" => escaped' = {}
    BY <2>2, <2>3 DEF Escaping
  <2>8. stopped' = "late" => abortReq' /\ pc' \notin {"retrystart", "backoff"}
    BY <2>1, <2>3 DEF Escaping
  <2>9. pc' \in {"asked", "setup"} => escaped' \subseteq {current'}
    BY <2>2, <2>3, <2>5 DEF Escaping
  <2> QED
    BY <2>6, <2>7, <2>8, <2>9 DEF Escaping
<1>46. ASSUME NEW w \in BOOLEAN, AbortRetry(w) PROVE Escaping'
  <2>1. UNCHANGED <<pc, cut, current, abortReq>>
    BY <1>46 DEF AbortRetry
  <2>2. \/ stopped = "no" /\ pc \in {"retrystart", "backoff"} /\ stopped' = "retry"
        \/ ~(stopped = "no" /\ pc \in {"retrystart", "backoff"}) /\ stopped' = stopped
    BY <1>46 DEF AbortRetry
  <2>3. escaped' = escaped \/ (pc \in {"retrystart", "backoff"} /\ cut = "none")
    BY <1>46 DEF AbortRetry
  <2>4. stopped \in {"no", "entry", "yes", "late", "retry"}
    BY DEF Typed, TypeOK
  <2> QED
    BY <2>1, <2>2, <2>3, <2>4 DEF Escaping
<1>47. CASE CtxAbort
  BY <1>47 DEF CtxAbort, context, queues, run, flags, tail, Escaping, Typed, Carried, Seated, Looping
<1>48. CASE CancelPrompt
  BY <1>48 DEF CancelPrompt, context, queues, run, flags, tail, Escaping, Typed, Carried, Seated,
     Looping
<1> QED
  BY <1>1, <1>2, <1>3, <1>4, <1>5, <1>6, <1>7, <1>8, <1>9, <1>10, <1>11, <1>12, <1>13, <1>14, <1>15,
     <1>16, <1>17, <1>18, <1>19, <1>20, <1>21, <1>22, <1>23, <1>24, <1>25, <1>26, <1>27, <1>28, <1>29,
     <1>30, <1>31, <1>32, <1>33, <1>34, <1>35, <1>36, <1>37, <1>38, <1>39, <1>40, <1>41, <1>42, <1>43,
     <1>44, <1>45, <1>46, <1>47, <1>48 DEF Next, Turn, TailStep, Callers

\* Given back, or on its queue again; and what a withdrawal still owes one.
Freed(m) == fate[m] \in {"given", "refused"} \/ m \in ToSet(nextQ)
Owes(m) == IF pc \in {"asked", "setup"} THEN m = current
           ELSE pc \notin {"idle", "draining"} /\ tracker.on /\ m \in ToSet(tracker.committed) \cup ToSet(open)
Due == stopped # "retry" => \A m \in escaped \ astray : Freed(m) \/ (withdrawReq /\ Owes(m))

LEMMA CarriedNotFreed ==
  ASSUME Typed, Counts, NEW m \in Inputs \ astray, m \in ToSet(Carrying)
  PROVE  ~Freed(m)
<1>1. Counted(m) = 1 /\ Numbers(m)
  BY NumbersAre DEF Counts, Numbered
<1>2. Times(m, Carrying) # 0
  BY <1>1 DEF Numbers
<1>3. Times(m, nextQ) = 0 /\ Elsewhere(m) = 0
  BY <1>1, <1>2, OnePlace
<1>4. m \notin ToSet(nextQ)
  BY <1>1, <1>3 DEF Numbers
<1> QED
  BY <1>3, <1>4 DEF Elsewhere, Freed

LEMMA HandedBack ==
  ASSUME Typed
  PROVE  ToSet(open \o nextQ) = ToSet(open) \cup ToSet(nextQ)
<1>1. open \in Seq(Inputs) /\ nextQ \in Seq(Inputs)
  BY QueuesTyped
<1>2. ASSUME NEW e \in Inputs PROVE ToSet(open \o nextQ) = ToSet(open) \cup ToSet(nextQ)
  BY <1>1, Members
<1>3. CASE Inputs = {}
  <2>1. open = <<>> /\ nextQ = <<>>
    BY <1>1, <1>3
  <2>2. <<>> \o <<>> = <<>>
    OBVIOUS
  <2> QED
    BY <2>1, <2>2
<1> QED
  BY <1>2, <1>3

\* A withdrawal frees what it owes and keeps free what was.
LEMMA WithdrawFrees ==
  ASSUME Typed, Bound, Withdraw, pc \notin {"idle", "asked", "setup", "draining"}
  PROVE  \A m \in Inputs : Freed(m) \/ Owes(m) => Freed(m)'
<1>1. /\ tracker.committed \in Seq(Inputs) /\ open \in Seq(Inputs) /\ nextQ \in Seq(Inputs)
      /\ ToSet(<<>>) = {}
  BY QueuesTyped, TimesOne DEF Typed, TypeOK
<1>2. CASE ~Unanswered /\ EmitWithdrawn({}) /\ nextQ' = nextQ
  <2>1. \A m : ~Owes(m)
    <3> SUFFICES ASSUME NEW m, Owes(m)
                 PROVE  FALSE
      OBVIOUS
    <3>1. tracker.on /\ (m \in ToSet(tracker.committed) \/ m \in ToSet(open))
      BY DEF Owes
    <3>2. CASE m \in ToSet(tracker.committed)
      BY <1>1, <1>2, <3>1, <3>2 DEF Unanswered
    <3>3. CASE m \in ToSet(open)
      <4>1. open # <<>>
        BY <1>1, <3>3
      <4>2. current \in ToSet(open)
        <5>1. Last(open) = current /\ Len(open) \in 1..Len(open) /\ Last(open) = open[Len(open)]
          BY <1>1, <4>1 DEF Bound, Last
        <5> QED
          BY <5>1 DEF ToSet
      <4> QED
        BY <1>2, <3>1, <4>2 DEF Unanswered
    <3> QED
      BY <3>1, <3>2, <3>3
  <2> QED
    BY <1>2, <2>1 DEF EmitWithdrawn, Becomes, Freed
<1>3. CASE nextQ' = Restored(Requeued) /\ EmitWithdrawn(GivenBack)
  <2> SUFFICES ASSUME NEW m \in Inputs
               PROVE  Freed(m) \/ Owes(m) => Freed(m)'
    OBVIOUS
  <2> DEFINE a == Within(tracker.committed, ToSet(drained))
             b == Without(open, {current})
  <2>1. /\ a \in Seq(Inputs) /\ ToSet(a) = ToSet(tracker.committed) \ (ToSet(tracker.committed) \ ToSet(drained))
        /\ b \in Seq(Inputs) /\ ToSet(b) = ToSet(open) \ {current}
    <3>1. \A q \in Seq(Inputs) : \A S : Without(q, S) \in Seq(Inputs) /\ ToSet(Without(q, S)) = ToSet(q) \ S
      BY WithoutTyped, WithoutMembers
    <3> QED
      BY <1>1, <3>1 DEF Within
  <2>2. nextQ' = (a \o b) \o nextQ
    BY <1>3 DEF Restored, Requeued
  <2> HIDE DEF a, b
  <2>3. \A q, r \in Seq(Inputs) : q \o r \in Seq(Inputs) /\ ToSet(q \o r) = ToSet(q) \cup ToSet(r)
    BY Members
  <2>4. a \o b \in Seq(Inputs) /\ ToSet(a \o b) = ToSet(a) \cup ToSet(b)
    BY <2>1, <2>3
  <2>5. ToSet(nextQ') = ToSet(a) \cup ToSet(b) \cup ToSet(nextQ)
    BY <1>1, <2>2, <2>3, <2>4
  <2>6. fate' = Becomes(GivenBack \cup ToSet(withdrawnQ), "given")
    BY <1>3 DEF EmitWithdrawn
  <2>7. fate'[m] = IF m \in GivenBack \cup ToSet(withdrawnQ) THEN "given" ELSE fate[m]
    BY <2>6 DEF Becomes
  <2>8. Owes(m) => m \in ToSet(tracker.committed) \cup ToSet(open)
    BY DEF Owes
  <2> QED
    BY <2>1, <2>5, <2>7, <2>8 DEF Freed, GivenBack
<1> QED
  BY <1>2, <1>3 DEF Withdraw

LEMMA DueKept ==
  ASSUME Typed, Stopping, Counts, Bound, Escaping, Due, Next
  PROVE  Due'
<1>0. astray \subseteq astray'
  BY Astray
<1>1. CASE TurnAway
  <2>1. UNCHANGED <<escaped, nextQ>> /\ escaped \subseteq {current} /\ fate' = Becomes({current}, "refused")
    BY <1>1 DEF TurnAway, flags, queues, Escaping
  <2>2. escaped \subseteq Inputs
    BY DEF Typed, TypeOK
  <2> QED
    BY <1>0, <2>1, <2>2 DEF Due, Freed, Becomes
<1>2. CASE Accept
  <2>1. UNCHANGED <<escaped, stopped, astray, withdrawReq, current, fate>> /\ escaped \subseteq {current} /\ pc = "asked" /\ pc' = "setup"
    BY <1>2 DEF Accept, context, flags, Escaping
  <2> SUFFICES ASSUME stopped # "retry", NEW m \in escaped \ astray
               PROVE  withdrawReq /\ m = current
    BY <2>1 DEF Due, Owes
  <2>2. m = current /\ m \in Inputs \ astray
    BY <2>1 DEF Typed, TypeOK
  <2>3. m \in ToSet(Carrying)
    BY <2>1, <2>2 DEF Carrying, ToSet
  <2>4. ~Freed(m)
    BY <2>2, <2>3, CarriedNotFreed
  <2> QED
    BY <2>1, <2>2, <2>4 DEF Due, Owes
<1>3. CASE SetupFails
  <2>1. escaped' = escaped /\ escaped \subseteq {current} /\ fate' = Becomes({current}, "refused")
    BY <1>3 DEF SetupFails, flags, Escaping
  <2>2. escaped \subseteq Inputs
    BY DEF Typed, TypeOK
  <2> QED
    BY <1>0, <2>1, <2>2 DEF Due, Freed, Becomes
<1>4. CASE FirstRun
  <2>1. UNCHANGED <<escaped, stopped, astray, current, fate, nextQ>> /\ escaped \subseteq {current} /\ pc = "setup" /\ pc' = "build"
        /\ withdrawReq' = (withdrawReq /\ abortReq) /\ tracker'.on /\ open' = drained \o <<current>>
    BY <1>4 DEF FirstRun, context, queues, tail, Escaping
  <2>2. current \in ToSet(open')
    <3>1. <<current>> \in Seq(Inputs) /\ drained \in Seq(Inputs) /\ current \in ToSet(<<current>>)
      BY <2>1, QueuesTyped DEF ToSet
    <3>2. \A q, r \in Seq(Inputs) : ToSet(q \o r) = ToSet(q) \cup ToSet(r)
      <4>1. current \in Inputs
        BY <2>1, QueuesTyped
      <4> QED
        BY <4>1, Members
    <3> QED
      BY <2>1, <3>1, <3>2
  <2>3. escaped # {} /\ stopped # "retry" => abortReq
    BY DEF Escaping, Stopping
  <2> QED
    BY <2>1, <2>2, <2>3 DEF Due, Freed, Owes
<1>5. CASE BuildFails
  <2>1. /\ UNCHANGED <<escaped, stopped, fate, withdrawReq, tracker>> /\ astray \subseteq astray'
        /\ nextQ' = open \o nextQ /\ pc' \in {"tail", "release"} /\ pc \in {"build", "closing"}
    BY <1>5 DEF BuildFails, context, queues, flags, Restored
  <2>2. ToSet(nextQ') = ToSet(open) \cup ToSet(nextQ)
    BY <2>1, HandedBack
  <2> QED
    BY <2>1, <2>2 DEF Due, Freed, Owes
<1>6. CASE StartLoop
  <2>1. UNCHANGED <<escaped, stopped, fate, nextQ, withdrawReq, open, tracker>> /\ pc \notin {"idle", "asked", "setup", "draining"}
        /\ pc' \notin {"idle", "asked", "setup", "draining"}
    BY <1>6 DEF StartLoop, context, queues, run, flags, tail
  <2> QED
    BY <1>0, <2>1 DEF Due, Freed, Owes
<1>7. CASE CommitInput
  <2> DEFINE h == Head(todo)
  <2>1. /\ UNCHANGED <<escaped, stopped, fate, nextQ, withdrawReq, astray, pc>> /\ pc \in {"prompts", "feeding"}
        /\ todo # <<>> /\ ~storing /\ open' = RemoveFirst(open, h) /\ tracker' = Committed(h)
    BY <1>7 DEF CommitInput, queues, flags
  <2>2. h \in Inputs /\ Tail(todo) \in Seq(Inputs) /\ todo = <<h>> \o Tail(todo) /\ ToSet(todo) = {h} \cup ToSet(Tail(todo))
    <3>1. todo \in Seq(Inputs)
      BY DEF Typed, TypeOK
    <3>2. h \in Inputs /\ Tail(todo) \in Seq(Inputs) /\ todo = <<h>> \o Tail(todo)
      BY <2>1, <3>1, Ends
    <3>3. \A q, r \in Seq(Inputs) : ToSet(q \o r) = ToSet(q) \cup ToSet(r)
      BY <3>2, Members
    <3>4. <<h>> \in Seq(Inputs) /\ ToSet(<<h>>) = {h}
      BY <3>2 DEF ToSet
    <3> HIDE DEF h
    <3> QED
      BY <3>2, <3>3, <3>4
  <2>3. open = <<>> \/ (open = todo /\ open' = Tail(todo))
    BY <2>1, <2>2, RemoveHead DEF Typed, TypeOK, Carried
  <2>4. tracker'.on = tracker.on /\ (tracker.on => ToSet(tracker'.committed) = ToSet(tracker.committed) \cup {h})
    <3>1. tracker' = [on |-> tracker.on, committed |-> IF tracker.on THEN Append(tracker.committed, h) ELSE tracker.committed,
                      safe |-> tracker.safe]
      BY <2>1, <2>2, TrackerIs DEF Typed
    <3>2. tracker.committed \in Seq(Inputs)
      BY DEF Typed, TypeOK
    <3>3. ToSet(Append(tracker.committed, h)) = ToSet(tracker.committed) \cup {h}
      BY <2>2, <3>2, Members
    <3> QED
      BY <3>1, <3>3
  <2>5. ToSet(<<>>) = {}
    BY TimesOne
  <2>6. \A m : Owes(m) => Owes(m)'
    <3>1. \A m : m \in ToSet(open) => m = h \/ m \in ToSet(open')
      BY <2>2, <2>3, <2>5
    <3> HIDE DEF h
    <3> QED
      BY <2>1, <2>4, <3>1 DEF Owes
  <2> QED
    BY <2>1, <2>6 DEF Due, Freed
<1>8. CASE StoreInput
  <2>1. UNCHANGED <<escaped, stopped, fate, nextQ, withdrawReq, open, tracker>> /\ pc \notin {"idle", "asked", "setup", "draining"}
        /\ pc' \notin {"idle", "asked", "setup", "draining"}
    BY <1>8 DEF StoreInput, context, queues, run, flags, tail
  <2> QED
    BY <1>0, <2>1 DEF Due, Freed, Owes
<1>9. CASE FirstSteer
  <2>1. UNCHANGED <<escaped, stopped, fate, nextQ, withdrawReq, open, tracker>> /\ pc \notin {"idle", "asked", "setup", "draining"}
        /\ pc' \notin {"idle", "asked", "setup", "draining"}
    BY <1>9 DEF FirstSteer, TakeSteer, context, queues, run, flags, tail
  <2> QED
    BY <1>0, <2>1 DEF Due, Freed, Owes
<1>10. CASE Request
  <2>1. UNCHANGED <<escaped, stopped, fate, nextQ, withdrawReq, open, tracker>> /\ pc \notin {"idle", "asked", "setup", "draining"}
        /\ pc' \notin {"idle", "asked", "setup", "draining"}
    BY <1>10 DEF Request, context, queues, run, flags, tail
  <2> QED
    BY <1>0, <2>1 DEF Due, Freed, Owes
<1>11. ASSUME NEW k \in {"ok", "tools", "retryable", "overflow", "fatal"}, Answer(k) PROVE Due'
  <2>1. stopped \notin {"entry", "yes"} /\ stopped' = stopped /\ escaped' = escaped
    BY <1>11 DEF Answer, flags, Stopping, Looping
  <2> QED
    BY <2>1 DEF Due, Escaping
<1>12. CASE StoreAnswer
  <2>1. stopped \notin {"entry", "yes"} /\ stopped' = stopped /\ escaped' = escaped
    BY <1>12 DEF StoreAnswer, flags, Stopping, Looping
  <2> QED
    BY <2>1 DEF Due, Escaping
<1>13. CASE ProviderRaises
  <2>1. UNCHANGED <<escaped, stopped, fate, nextQ, withdrawReq, open, tracker>> /\ pc \notin {"idle", "asked", "setup", "draining"}
        /\ pc' \notin {"idle", "asked", "setup", "draining"}
    BY <1>13 DEF ProviderRaises, context, queues, run, flags, tail
  <2> QED
    BY <1>0, <2>1 DEF Due, Freed, Owes
<1>14. CASE ToolsEnd
  <2>1. stopped \notin {"entry", "yes"} /\ stopped' = stopped /\ escaped' = escaped
    BY <1>14 DEF ToolsEnd, flags, Stopping, Looping
  <2> QED
    BY <2>1 DEF Due, Escaping
<1>15. CASE TurnEnds
  <2>1. UNCHANGED <<escaped, stopped, fate, nextQ, withdrawReq, open, tracker>> /\ pc \notin {"idle", "asked", "setup", "draining"}
        /\ pc' \notin {"idle", "asked", "setup", "draining"}
    BY <1>15 DEF TurnEnds, TakeSteer, context, queues, run, flags, tail
  <2> QED
    BY <1>0, <2>1 DEF Due, Freed, Owes
<1>16. CASE RunReturns
  <2>1. UNCHANGED <<escaped, stopped, fate, nextQ, withdrawReq, open, tracker>> /\ pc \notin {"idle", "asked", "setup", "draining"}
        /\ pc' \notin {"idle", "asked", "setup", "draining"}
    BY <1>16 DEF RunReturns, context, queues, run, flags, tail
  <2> QED
    BY <1>0, <2>1 DEF Due, Freed, Owes
<1>17. CASE Unwind
  <2> DEFINE rest == IF storing THEN RestOf(todo) ELSE todo
             lost == ToSet(rest) \ ToSet(open)
  <2>1. /\ UNCHANGED <<escaped, stopped, withdrawReq, current>> /\ astray \subseteq astray'
        /\ fate' = Becomes(lost, "missed") /\ pc \in Looping /\ pc' \in {"closeout", "release"}
    BY <1>17 DEF Unwind, flags
  <2>2. ToSet(open) \cup ToSet(nextQ) = ToSet(open') \cup ToSet(nextQ') /\ ToSet(nextQ) \subseteq ToSet(nextQ')
    <3>1. (nextQ' = nextQ /\ open' = open) \/ (nextQ' = open \o nextQ /\ open' = <<>>)
      BY <1>17 DEF Unwind, Restored
    <3>2. ToSet(open \o nextQ) = ToSet(open) \cup ToSet(nextQ)
      BY HandedBack
    <3>3. ToSet(<<>>) = {}
      BY TimesOne
    <3>4. CASE nextQ' = nextQ /\ open' = open
      BY <3>4
    <3>5. CASE nextQ' = open \o nextQ /\ open' = <<>>
      BY <3>2, <3>3, <3>5
    <3> QED
      BY <3>1, <3>4, <3>5
  <2>3. tracker'.on = tracker.on /\ tracker'.committed = tracker.committed
    <3>1. CASE pc = "tools" /\ tracker' = Safe(Committed("result"), path')
      <4>1. tracker' = [on |-> tracker.on, committed |-> <<>>, safe |-> IF tracker.on THEN Len(path') ELSE tracker.safe]
        BY <3>1, TrackerIs DEF Typed
      <4> QED
        BY <3>1, <4>1 DEF Bound
    <3> QED
      BY <1>17, <3>1 DEF Unwind
  <2>4. \A m \in Inputs \ astray : Freed(m) => m \notin lost
    <3> SUFFICES ASSUME NEW m \in Inputs \ astray, Freed(m), m \in lost
                 PROVE  FALSE
      OBVIOUS
    <3>1. InTurn(m)
      BY DEF InTurn
    <3>2. m \in ToSet(Carrying)
      BY <3>1, InTurnIs
    <3> QED
      BY <3>2, CarriedNotFreed
  <2> HIDE DEF lost
  <2>5. pc \notin {"idle", "asked", "setup", "draining"}
    BY <2>1 DEF Looping
  <2>6. \A m \in Inputs \ astray : Freed(m) => Freed(m)'
    BY <2>1, <2>2, <2>4 DEF Freed, Becomes
  <2>7. \A m : Owes(m) => Owes(m)' \/ m \in ToSet(nextQ')
    BY <2>1, <2>2, <2>3, <2>5 DEF Owes
  <2>8. escaped \subseteq Inputs
    BY DEF Typed, TypeOK
  <2> QED
    BY <2>1, <2>6, <2>7, <2>8 DEF Due, Freed
<1>18. CASE Closeout
  <2>1. UNCHANGED <<escaped, stopped, withdrawReq, current, tracker>> \/ UNCHANGED <<escaped, stopped, withdrawReq, current>>
    BY <1>18 DEF Closeout, flags
  <2>2. CASE Withdraw
    <3>1. astray \subseteq astray' /\ pc \notin {"idle", "asked", "setup", "draining"}
      BY <1>18, Astray DEF Closeout
    <3>2. \A m \in Inputs : Freed(m) \/ Owes(m) => Freed(m)'
      BY <2>2, <3>1, WithdrawFrees
    <3>3. escaped \subseteq Inputs
      BY DEF Typed, TypeOK
    <3> QED
      BY <2>1, <3>1, <3>2, <3>3 DEF Due
  <2>3. CASE Keep /\ ~withdrawReq
    BY <2>1, <2>3 DEF Due, Freed, Keep, context
  <2> QED
    BY <1>18, <2>2, <2>3 DEF Closeout
<1>19. CASE CloseoutCut
  <2>1. escaped' = {}
    BY <1>19 DEF CloseoutCut, flags, Escaping
  <2> QED
    BY <2>1 DEF Due
<1>20. CASE CloseoutEnds
  <2>1. /\ UNCHANGED <<escaped, stopped, fate, withdrawReq, tracker>> /\ astray \subseteq astray'
        /\ nextQ' = open \o nextQ /\ pc' \in {"tail", "release"} /\ pc \in {"build", "closing"}
    BY <1>20 DEF CloseoutEnds, context, queues, flags, Restored
  <2>2. ToSet(nextQ') = ToSet(open) \cup ToSet(nextQ)
    BY <2>1, HandedBack
  <2> QED
    BY <2>1, <2>2 DEF Due, Freed, Owes
<1>21. CASE RetryStarts
  <2>1. UNCHANGED <<escaped, stopped, fate, nextQ, withdrawReq, open, tracker>> /\ pc \notin {"idle", "asked", "setup", "draining"}
        /\ pc' \notin {"idle", "asked", "setup", "draining"}
    BY <1>21 DEF RetryStarts, context, queues, run, flags, tail
  <2> QED
    BY <1>0, <2>1 DEF Due, Freed, Owes
<1>22. CASE RunsOver
  <2>1. UNCHANGED <<escaped, stopped, fate, nextQ, withdrawReq, open, tracker>> /\ pc \notin {"idle", "asked", "setup", "draining"}
        /\ pc' \notin {"idle", "asked", "setup", "draining"}
    BY <1>22 DEF RunsOver, Onward, ToThreshold, context, queues, run, flags, tail
  <2> QED
    BY <1>0, <2>1 DEF Due, Freed, Owes
<1>23. CASE Countdown
  <2>1. UNCHANGED <<escaped, stopped, fate, nextQ, withdrawReq, open, tracker>> /\ pc \notin {"idle", "asked", "setup", "draining"}
        /\ pc' \notin {"idle", "asked", "setup", "draining"}
    BY <1>23 DEF Countdown, context, queues, run, flags, tail
  <2> QED
    BY <1>0, <2>1 DEF Due, Freed, Owes
<1>24. CASE RetryRuns
  <2>1. stopped \notin {"entry", "yes"} /\ stopped' = stopped /\ escaped' = escaped
    BY <1>24 DEF RetryRuns, Rerun, flags, Stopping, Looping
  <2> QED
    BY <2>1 DEF Due, Escaping
<1>25. CASE RetryStops
  <2>1. UNCHANGED <<escaped, stopped, fate, nextQ, withdrawReq, open, tracker>> /\ pc \notin {"idle", "asked", "setup", "draining"}
        /\ pc' \notin {"idle", "asked", "setup", "draining"}
    BY <1>25 DEF RetryStops, Onward, ToThreshold, context, queues, run, flags, tail
  <2> QED
    BY <1>0, <2>1 DEF Due, Freed, Owes
<1>26. CASE NoRecovery
  <2>1. UNCHANGED <<escaped, stopped, fate, nextQ, withdrawReq, open, tracker>> /\ pc \notin {"idle", "asked", "setup", "draining"}
        /\ pc' \notin {"idle", "asked", "setup", "draining"}
    BY <1>26 DEF NoRecovery, ToThreshold, context, queues, run, flags, tail
  <2> QED
    BY <1>0, <2>1 DEF Due, Freed, Owes
<1>27. CASE Recover
  <2>1. UNCHANGED <<escaped, stopped, fate, nextQ, withdrawReq, open, tracker>> /\ pc \notin {"idle", "asked", "setup", "draining"}
        /\ pc' \notin {"idle", "asked", "setup", "draining"}
    BY <1>27 DEF Recover, context, queues, run, flags, tail
  <2> QED
    BY <1>0, <2>1 DEF Due, Freed, Owes
<1>28. CASE CompactFails
  <2>1. UNCHANGED <<escaped, stopped, fate, nextQ, withdrawReq, open, tracker>> /\ pc \notin {"idle", "asked", "setup", "draining"}
        /\ pc' \notin {"idle", "asked", "setup", "draining"}
    BY <1>28 DEF CompactFails, ToThreshold, context, queues, run, flags, tail
  <2> QED
    BY <1>0, <2>1 DEF Due, Freed, Owes
<1>29. CASE CompactWrites
  <2>1. stopped \notin {"entry", "yes"} /\ stopped' = stopped /\ escaped' = escaped
    BY <1>29 DEF CompactWrites, flags, Stopping, Looping
  <2> QED
    BY <2>1 DEF Due, Escaping
<1>30. CASE RecoveryRuns
  <2>1. stopped \notin {"entry", "yes"} /\ stopped' = stopped /\ escaped' = escaped
    BY <1>30 DEF RecoveryRuns, Rerun, flags, Stopping, Looping
  <2> QED
    BY <2>1 DEF Due, Escaping
<1>31. CASE RecoveryStops
  <2>1. UNCHANGED <<escaped, stopped, fate, nextQ, withdrawReq, open, tracker>> /\ pc \notin {"idle", "asked", "setup", "draining"}
        /\ pc' \notin {"idle", "asked", "setup", "draining"}
    BY <1>31 DEF RecoveryStops, ToThreshold, context, queues, run, flags, tail
  <2> QED
    BY <1>0, <2>1 DEF Due, Freed, Owes
<1>32. CASE TailWithdraws
  <2>1. UNCHANGED <<escaped, stopped, withdrawReq, current, tracker>> \/ UNCHANGED <<escaped, stopped, withdrawReq, current>>
    BY <1>32 DEF TailWithdraws, flags
  <2>2. CASE Withdraw
    <3>1. astray \subseteq astray' /\ pc \notin {"idle", "asked", "setup", "draining"}
      BY <1>32, Astray DEF TailWithdraws
    <3>2. \A m \in Inputs : Freed(m) \/ Owes(m) => Freed(m)'
      BY <2>2, <3>1, WithdrawFrees
    <3>3. escaped \subseteq Inputs
      BY DEF Typed, TypeOK
    <3> QED
      BY <2>1, <3>1, <3>2, <3>3 DEF Due
  <2> QED
    BY <1>32, <2>2 DEF TailWithdraws
<1>33. CASE NoThreshold
  <2>1. UNCHANGED <<escaped, stopped, fate, nextQ, withdrawReq, open, tracker>> /\ pc \notin {"idle", "asked", "setup", "draining"}
        /\ pc' \notin {"idle", "asked", "setup", "draining"}
    BY <1>33 DEF NoThreshold, context, queues, run, flags, tail
  <2> QED
    BY <1>0, <2>1 DEF Due, Freed, Owes
<1>34. CASE Threshold
  <2>1. UNCHANGED <<escaped, stopped, fate, nextQ, withdrawReq, open, tracker>> /\ pc \notin {"idle", "asked", "setup", "draining"}
        /\ pc' \notin {"idle", "asked", "setup", "draining"}
    BY <1>34 DEF Threshold, context, queues, run, flags, tail
  <2> QED
    BY <1>0, <2>1 DEF Due, Freed, Owes
<1>35. CASE ThresholdEnds
  <2>1. UNCHANGED <<escaped, stopped, fate, nextQ, withdrawReq, open, astray>> /\ pc = "thresholding" /\ pc' = "release"
    BY <1>35 DEF ThresholdEnds, queues, run, flags
  <2>2. CASE tracker' = tracker
    BY <2>1, <2>2 DEF Due, Freed, Owes
  <2>3. CASE ~abortReq
    BY <2>1, <2>3 DEF Due, Escaping, Stopping
  <2> QED
    BY <1>35, <2>2, <2>3 DEF ThresholdEnds
<1>36. CASE Raise
  <2>1. UNCHANGED <<escaped, stopped, fate, nextQ, withdrawReq, open, tracker>> /\ pc \notin {"idle", "asked", "setup", "draining"}
        /\ pc' \notin {"idle", "asked", "setup", "draining"}
    BY <1>36 DEF Raise, context, queues, run, flags, tail
  <2> QED
    BY <1>0, <2>1 DEF Due, Freed, Owes
<1>37. CASE Release
  <2>1. UNCHANGED <<escaped, stopped, withdrawReq, current, tracker>> \/ UNCHANGED <<escaped, stopped, withdrawReq, current>>
    BY <1>37 DEF Release, flags
  <2>2. CASE Withdraw
    <3>1. astray \subseteq astray' /\ pc \notin {"idle", "asked", "setup", "draining"}
      BY <1>37, Astray DEF Release
    <3>2. \A m \in Inputs : Freed(m) \/ Owes(m) => Freed(m)'
      BY <2>2, <3>1, WithdrawFrees
    <3>3. escaped \subseteq Inputs
      BY DEF Typed, TypeOK
    <3> QED
      BY <2>1, <3>1, <3>2, <3>3 DEF Due
  <2>3. CASE Keep /\ ~withdrawReq
    BY <2>1, <2>3 DEF Due, Freed, Keep, context
  <2>4. CASE cut = "prompt"
    BY <1>37, <2>1, <2>4 DEF Due, Escaping
  <2> QED
    BY <1>37, <2>2, <2>3, <2>4 DEF Release
<1>38. CASE Idle
  <2>1. UNCHANGED <<escaped, stopped, nextQ, astray>> /\ pc = "draining" /\ (fate' = fate \/ fate' = Becomes({} \cup ToSet(withdrawnQ), "given"))
    BY <1>38 DEF Idle, EmitWithdrawn, context, queues, flags
  <2>2. \A m : ~Owes(m)
    BY <2>1 DEF Owes
  <2>3. \A m \in Inputs : Freed(m) => Freed(m)'
    BY <2>1 DEF Freed, Becomes
  <2>4. escaped \subseteq Inputs
    BY DEF Typed, TypeOK
  <2> QED
    BY <2>1, <2>2, <2>3, <2>4 DEF Due
<1>39. CASE CutTail
  <2>1. escaped' = {}
    BY <1>39 DEF CutTail, flags, Escaping
  <2> QED
    BY <2>1 DEF Due
<1>40. CASE CutWithdraw
  <2>1. escaped' = {}
    BY <1>40 DEF CutWithdraw, flags, Escaping
  <2> QED
    BY <2>1 DEF Due
<1>41. ASSUME NEW m \in scope.sent, Steer(m) PROVE Due'
  <2>1. /\ UNCHANGED <<escaped, stopped, withdrawReq, open, tracker, pc, current, astray>>
        /\ fate' = Becomes({m}, "held") /\ fate[m] = "fresh" /\ (nextQ' = nextQ \/ nextQ' = Append(nextQ, m)) /\ m \in Inputs
    BY <1>41 DEF Steer, context, run, flags, Inputs
  <2>2. ToSet(nextQ) \subseteq ToSet(nextQ')
    <3>1. ToSet(Append(nextQ, m)) = ToSet(nextQ) \cup {m}
      BY <2>1, QueuesTyped, Members
    <3> QED
      BY <2>1, <3>1
  <2>3. \A e \in Inputs : Freed(e) => Freed(e)'
    BY <2>1, <2>2 DEF Freed, Becomes
  <2>4. escaped \subseteq Inputs /\ \A e : Owes(e)' <=> Owes(e)
    BY <2>1 DEF Typed, TypeOK, Owes
  <2> QED
    BY <2>1, <2>3, <2>4 DEF Due
<1>42. ASSUME NEW m \in scope.sent, FollowUp(m) PROVE Due'
  <2>1. /\ UNCHANGED <<escaped, stopped, withdrawReq, open, tracker, pc, current, astray>>
        /\ fate' = Becomes({m}, "held") /\ fate[m] = "fresh" /\ (nextQ' = nextQ \/ nextQ' = Append(nextQ, m)) /\ m \in Inputs
    BY <1>42 DEF FollowUp, context, run, flags, Inputs
  <2>2. ToSet(nextQ) \subseteq ToSet(nextQ')
    <3>1. ToSet(Append(nextQ, m)) = ToSet(nextQ) \cup {m}
      BY <2>1, QueuesTyped, Members
    <3> QED
      BY <2>1, <3>1
  <2>3. \A e \in Inputs : Freed(e) => Freed(e)'
    BY <2>1, <2>2 DEF Freed, Becomes
  <2>4. escaped \subseteq Inputs /\ \A e : Owes(e)' <=> Owes(e)
    BY <2>1 DEF Typed, TypeOK, Owes
  <2> QED
    BY <2>1, <2>3, <2>4 DEF Due
<1>43. ASSUME NEW m \in scope.sent, NextTurn(m) PROVE Due'
  <2>1. /\ UNCHANGED <<escaped, stopped, withdrawReq, open, tracker, pc, current, astray>>
        /\ fate' = Becomes({m}, "held") /\ fate[m] = "fresh" /\ (nextQ' = nextQ \/ nextQ' = Append(nextQ, m)) /\ m \in Inputs
    BY <1>43 DEF NextTurn, context, run, flags, Inputs
  <2>2. ToSet(nextQ) \subseteq ToSet(nextQ')
    <3>1. ToSet(Append(nextQ, m)) = ToSet(nextQ) \cup {m}
      BY <2>1, QueuesTyped, Members
    <3> QED
      BY <2>1, <3>1
  <2>3. \A e \in Inputs : Freed(e) => Freed(e)'
    BY <2>1, <2>2 DEF Freed, Becomes
  <2>4. escaped \subseteq Inputs /\ \A e : Owes(e)' <=> Owes(e)
    BY <2>1 DEF Typed, TypeOK, Owes
  <2> QED
    BY <2>1, <2>3, <2>4 DEF Due
<1>44. ASSUME NEW m \in scope.sent, Prompt(m) PROVE Due'
  BY <1>44 DEF Prompt, Due
<1>45. ASSUME NEW w \in BOOLEAN, Abort(w) PROVE Due'
  <2>1. /\ UNCHANGED <<nextQ, open, tracker, pc, current, astray>> /\ withdrawReq' = w
        /\ (stopped' # "retry" => stopped # "retry")
    BY <1>45 DEF Abort, context, run
  <2>2. CASE ~w
    BY <1>45, <2>2 DEF Abort, Due
  <2>3. CASE w
    <3>1. \E S : fate' = fate \/ fate' = Becomes(S, "given")
      BY <1>45, <2>3 DEF Abort
    <3>2. \A e \in Inputs : Freed(e) => Freed(e)'
      BY <2>1, <3>1 DEF Freed, Becomes
    <3>3. escaped' = escaped \/ (pc # "draining" /\ escaped' = escaped \cup AtStake)
      BY <1>45, <2>3 DEF Abort
    <3>4. \A e \in AtStake : pc # "draining" => Owes(e)
      BY DEF AtStake, Owes, Bound
    <3>5. escaped \subseteq Inputs /\ \A e : Owes(e)' <=> Owes(e)
      BY <2>1 DEF Typed, TypeOK, Owes
    <3> QED
      BY <2>1, <2>3, <3>2, <3>3, <3>4, <3>5 DEF Due
  <2> QED
    BY <2>2, <2>3
<1>46. ASSUME NEW w \in BOOLEAN, AbortRetry(w) PROVE Due'
  <2>1. /\ UNCHANGED <<nextQ, open, tracker, pc, current, astray, fate>> /\ withdrawReq' = (withdrawReq \/ w)
        /\ (stopped' # "retry" => stopped # "retry")
        /\ (escaped' = escaped \/ (w /\ pc \in {"retrystart", "backoff"} /\ escaped' = escaped \cup AtStake))
    BY <1>46 DEF AbortRetry, context, run, queues
  <2>2. \A e \in AtStake : pc \in {"retrystart", "backoff"} => Owes(e)
    BY DEF AtStake, Owes
  <2>3. \A e : (Owes(e)' <=> Owes(e)) /\ (Freed(e)' <=> Freed(e))
    BY <2>1 DEF Owes, Freed
  <2> QED
    BY <2>1, <2>2, <2>3 DEF Due
<1>47. CASE CtxAbort
  <2>1. UNCHANGED <<escaped, stopped, fate, nextQ, withdrawReq, open, tracker, pc, current>>
    BY <1>47 DEF CtxAbort, context, queues, run
  <2> QED
    BY <1>0, <2>1 DEF Due, Freed, Owes
<1>48. CASE CancelPrompt
  BY <1>48 DEF CancelPrompt, Due
<1> QED
  BY <1>1, <1>2, <1>3, <1>4, <1>5, <1>6, <1>7, <1>8, <1>9, <1>10, <1>11, <1>12, <1>13, <1>14, <1>15,
     <1>16, <1>17, <1>18, <1>19, <1>20, <1>21, <1>22, <1>23, <1>24, <1>25, <1>26, <1>27, <1>28, <1>29,
     <1>30, <1>31, <1>32, <1>33, <1>34, <1>35, <1>36, <1>37, <1>38, <1>39, <1>40, <1>41, <1>42, <1>43,
     <1>44, <1>45, <1>46, <1>47, <1>48 DEF Next, Turn, TailStep, Callers

-----------------------------------------------------------------------------
\* What is free is on no path to the model.
LEMMA TakenIs ==
  ASSUME Typed, Counts, Matches, NEW m \in Inputs \ astray, Freed(m)
  PROVE  TakenBack(m)
<1>1. Counted(m) = 1 /\ Numbers(m)
  BY NumbersAre DEF Counts, Numbered
<1>2. Times(m, nextQ) # 0 \/ Elsewhere(m) = 1
  BY <1>1 DEF Freed, Numbers, Elsewhere
<1>3. Times(m, live) = 0
  BY <1>1, <1>2, OnePlace
<1>4. m \notin ToSet(live)
  BY <1>1, <1>3 DEF Numbers
<1>5. m \notin ToSet(path)
  <2>1. path \in Seq(Items)
    BY WaitingTyped
  <2>2. Times(m, path) \in Nat /\ (Times(m, path) = 0 <=> m \notin ToSet(path))
    BY <2>1, TimesIn
  <2>3. Times(m, path) <= Times(m, live)
    BY AbsentFromPath
  <2> QED
    BY <1>3, <2>2, <2>3
<1> QED
  BY <1>4, <1>5 DEF TakenBack, Freed

Honoured == Homed /\ Bound /\ Escaping /\ Due

LEMMA HonouredInit == Init => Honoured
BY HomedInit DEF Honoured, Init, NoTracker, Bound, Escaping, Due

LEMMA HonouredNext == Honoured /\ [Next]_vars => Honoured'
<1> SUFFICES ASSUME Honoured, [Next]_vars
             PROVE  Honoured'
  OBVIOUS
<1>1. Homed'
  BY HomedNext DEF Honoured
<1>2. CASE Next
  BY <1>1, <1>2, BoundKept, EscapingKept, DueKept DEF Honoured, Homed
<1>3. CASE UNCHANGED vars
  BY <1>1, <1>3 DEF Honoured, Bound, Escaping, Due, Freed, Owes, vars, context, queues, run, flags,
     tail, bounds
<1> QED
  BY <1>2, <1>3

\* What a prompt leaves (emit's message_end, `_withdraw_unanswered', compact(), ADR-0286): once it is
\* over the session's branch holds the inputs of the live context, in the same order, and an input
\* that an Esc took back is on neither of them - given back to its user, or on its queue again.
THEOREM PromptLeavesHolds == Spec => []PromptLeaves
<1>1. Honoured => LiveMatchesSession
  <2> SUFFICES ASSUME Honoured, pc = "idle"
               PROVE  InputsOf(live) = InputsOf(path)
    BY DEF LiveMatchesSession
  <2>1. Waiting = <<>> /\ path \in Seq(Items)
    BY WaitingTyped DEF Honoured, Homed, Typed, Carried, Waiting
  <2>2. path \o <<>> = path
    BY <2>1, ConcatEmptySeq
  <2> QED
    BY <2>1, <2>2 DEF Honoured, Homed, Matches
<1>2. Honoured => EscGivesBack
  <2> SUFFICES ASSUME Honoured, pc = "idle", stopped # "retry", NEW m \in escaped \ astray
               PROVE  TakenBack(m)
    BY DEF EscGivesBack
  <2>1. m \in Inputs \ astray
    BY DEF Honoured, Homed, Typed, TypeOK
  <2>2. Freed(m)
    BY DEF Honoured, Due, Owes
  <2> QED
    BY <2>1, <2>2, TakenIs DEF Honoured, Homed
<1> QED
  BY <1>1, <1>2, HonouredInit, HonouredNext, PTL DEF Spec, PromptLeaves
=============================================================================
