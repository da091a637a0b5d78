-------------------------- MODULE SessionStore_proofs --------------------------
(***************************************************************************)
(* For every set of tasks, every bound and every set of histories: types   *)
(* hold, what an open session has in memory hangs together, the file       *)
(* implements SessionTree, and withdraw_tail() leaves the path it means to *)
(* where the FileSystem does not suspend.  At the end, what SessionTree    *)
(* itself promises.                                                        *)
(*                                                                         *)
(* Facts on recursive functions are proved from the lowest number, or the  *)
(* shortest prefix, that would be an exception.                            *)
(***************************************************************************)
EXTENDS SessionStore, FiniteSetTheorems, SequenceTheorems, WellFoundedInduction, TLAPS

-----------------------------------------------------------------------------
\* Induction, from the lowest number that would be an exception.

LEMMA Lowest ==
  ASSUME NEW S \in SUBSET Nat, S # {}
  PROVE  \E m \in S : \A d \in S : m <= d
<1>1. IsWellFoundedOn(OpToRel(<, Nat), Nat)
  BY NatLessThanWellFounded
<1>2. PICK m \in S : \A d \in S : ~(<<d, m>> \in OpToRel(<, Nat))
  BY <1>1, WFMin
<1>3. ASSUME NEW d \in S PROVE m <= d
  <2>1. d \in Nat /\ m \in Nat
    OBVIOUS
  <2>2. ~(d < m)
    BY <1>2, <2>1 DEF OpToRel
  <2> QED
    BY <2>1, <2>2
<1> QED
  BY <1>3

LEMMA FromBelow ==
  ASSUME NEW n \in Nat, NEW P, \A i \in 0..n : (\A j \in 0..n : j < i => j \in P) => i \in P
  PROVE  0..n \subseteq P
<1> DEFINE B == {i \in 0..n : i \notin P}
<1> SUFFICES ASSUME B # {} PROVE FALSE
  OBVIOUS
<1>1. B \in SUBSET Nat
  OBVIOUS
<1>2. PICK m \in B : \A d \in B : m <= d
  BY <1>1, Lowest
<1>3. \A j \in 0..n : j < m => j \in P
  BY <1>2
<1> QED
  BY <1>3

LEMMA Upwards ==
  ASSUME NEW n \in Nat, NEW P, 0 \in P, \A i \in 1..n : i - 1 \in P => i \in P
  PROVE  0..n \subseteq P
<1>1. ASSUME NEW i \in 0..n, \A j \in 0..n : j < i => j \in P PROVE i \in P
  <2>1. CASE i = 0
    BY <2>1
  <2>2. CASE i # 0
    <3>1. i \in 1..n /\ i - 1 \in 0..n /\ i - 1 < i
      BY <2>2
    <3> QED
      BY <1>1, <3>1
  <2> QED
    BY <2>1, <2>2
<1> QED
  BY <1>1, FromBelow

\* Over a sequence, from its empty prefix on.
LEMMA Growing ==
  ASSUME NEW T, NEW s \in Seq(T), NEW P, <<>> \in P,
         \A q \in Seq(T) : q \in P => \A e \in T : Append(q, e) \in P
  PROVE  s \in P
<1> DEFINE Q == {i \in 0..Len(s) : SubSeq(s, 1, i) \in P}
<1>0. Len(s) \in Nat
  OBVIOUS
<1>1. 0 \in Q
  <2>1. SubSeq(s, 1, 0) = <<>> /\ 0 \in 0..Len(s)
    OBVIOUS
  <2> QED
    BY <2>1
<1>2. ASSUME NEW i \in 1..Len(s), i - 1 \in Q PROVE i \in Q
  <2>1. s[i] \in T /\ SubSeq(s, 1, i - 1) \in Seq(T)
    <3>1. i - 1 \in Int /\ 1 \in Int /\ \A j \in 1..(i - 1) : s[j] \in T
      BY <1>2
    <3>2. SubSeq(s, 1, i - 1) \in Seq(T)
      BY ONLY <3>1, SubSeqProperties
    <3>3. s[i] \in T
      BY ElementOfSeq
    <3> QED
      BY <3>2, <3>3
  <2>2. SubSeq(s, 1, i) = SubSeq(s, 1, i - 1) \o <<s[i]>>
    <3>1. 1 \in 1..Len(s) /\ i \in 1..Len(s)
      BY <1>2
    <3> QED
      BY <3>1, SubSeqRecursiveSecond
  <2>3. SubSeq(s, 1, i) = Append(SubSeq(s, 1, i - 1), s[i])
    BY <2>1, <2>2, AppendIsConcat
  <2>4. SubSeq(s, 1, i - 1) \in P
    BY <1>2
  <2>5. SubSeq(s, 1, i) \in P
    BY <2>1, <2>3, <2>4
  <2>6. i \in 0..Len(s)
    BY <1>0, <1>2
  <2> QED
    BY <2>5, <2>6
<1> HIDE DEF Q
<1>5. 0..Len(s) \subseteq Q
  BY <1>0, <1>1, <1>2, Upwards
<1>6. Len(s) \in Q
  BY <1>0, <1>5
<1>7. SubSeq(s, 1, Len(s)) = s
  OBVIOUS
<1> QED
  BY <1>6, <1>7 DEF Q

-----------------------------------------------------------------------------
\* A function of the prefixes of s: where it starts, and how it goes on at each element.
Steps(step, V, T) == step \in [V \X T -> V]
Along(g, s, V, start, step) ==
  /\ g \in [0..Len(s) -> V] /\ g[0] = start
  /\ \A i \in 1..Len(s) : g[i] = step[<<g[i - 1], s[i]>>]

LEMMA AlongIs ==
  ASSUME NEW T, NEW s \in Seq(T), NEW V, NEW start \in V, NEW step, Steps(step, V, T)
  PROVE  \E g : Along(g, s, V, start, step)
<1> DEFINE n == Len(s)
           Ok(g, k) == /\ g \in [0..k -> V] /\ g[0] = start
                       /\ \A i \in 1..k : g[i] = step[<<g[i - 1], s[i]>>]
           P == {k \in 0..n : \E g : Ok(g, k)}
<1>0. n \in Nat
  OBVIOUS
<1>1. 0 \in P
  <2>1. Ok([i \in 0..0 |-> start], 0)
    OBVIOUS
  <2>2. 0 \in 0..n /\ \E g : Ok(g, 0)
    <3> HIDE DEF Ok
    <3> QED
      BY <1>0, <2>1
  <2> QED
    BY <2>2
<1>2. ASSUME NEW i \in 1..n, i - 1 \in P PROVE i \in P
  <2>1. PICK g : Ok(g, i - 1)
    BY <1>2
  <2> DEFINE next == step[<<g[i - 1], s[i]>>]
             h == [j \in 0..i |-> IF j = i THEN next ELSE g[j]]
  <2>2. s[i] \in T /\ g[i - 1] \in V
    BY <1>2, <2>1
  <2>3. next \in V
    BY <2>2 DEF Steps
  <2>4. h \in [0..i -> V]
    <3>1. ASSUME NEW j \in 0..i, j # i PROVE g[j] \in V
      <4>1. j \in 0..(i - 1)
        BY <3>1
      <4> QED
        BY <2>1, <4>1
    <3> HIDE DEF next
    <3> QED
      BY <2>3, <3>1
  <2>5. h[0] = start
    BY <2>1, <1>2
  <2>6. ASSUME NEW j \in 1..i PROVE h[j] = step[<<h[j - 1], s[j]>>]
    <3>0. i \in Nat
      BY <1>0, <1>2
    <3>1. j - 1 \in 0..i /\ j - 1 # i /\ h[j - 1] = g[j - 1]
      <4> HIDE DEF next
      <4> QED
        BY <2>6, <3>0
    <3>2. CASE j = i
      BY <3>1, <3>2
    <3>3. CASE j # i
      <4>1. j \in 1..(i - 1) /\ h[j] = g[j]
        BY <3>3
      <4> QED
        BY <2>1, <3>1, <4>1
    <3> QED
      BY <3>2, <3>3
  <2>7. Ok(h, i)
    BY <2>4, <2>5, <2>6
  <2>8. \E f : Ok(f, i)
    <3> HIDE DEF Ok, h
    <3> QED
      BY <2>7
  <2> QED
    BY <2>8
<1>3. n \in P
  <2> HIDE DEF P
  <2>2. 0..n \subseteq P
    BY <1>0, <1>1, <1>2, Upwards
  <2> QED
    BY <1>0, <2>2
<1> QED
  BY <1>3 DEF Along

LEMMA AlongMore ==
  ASSUME NEW T, NEW s \in Seq(T), NEW e \in T, NEW V, NEW start \in V, NEW step, Steps(step, V, T),
         NEW f, NEW g, Along(f, s, V, start, step), Along(g, Append(s, e), V, start, step)
  PROVE  g[Len(Append(s, e))] = step[<<f[Len(s)], e>>]
<1> DEFINE n == Len(s)
           t == Append(s, e)
<1>0. n \in Nat /\ Len(t) = n + 1 /\ t[n + 1] = e /\ \A i \in 1..n : t[i] = s[i]
  OBVIOUS
<1> HIDE DEF t
<1>1. \A i \in 1..n : f[i - 1] = g[i - 1] => f[i] = g[i]
  <2> SUFFICES ASSUME NEW i \in 1..n, f[i - 1] = g[i - 1] PROVE f[i] = g[i]
    OBVIOUS
  <2>1. f[i] = step[<<f[i - 1], s[i]>>]
    BY DEF Along
  <2>2. i \in 1..Len(t) /\ t[i] = s[i]
    BY <1>0
  <2>3. g[i] = step[<<g[i - 1], t[i]>>]
    BY <2>2 DEF Along, t
  <2> QED
    BY <2>1, <2>2, <2>3
<1>2. f[0] = g[0]
  BY DEF Along
<1>3. f[n] = g[n]
  <2> DEFINE P == {i \in 0..n : f[i] = g[i]}
  <2>1. 0 \in P /\ \A i \in 1..n : i - 1 \in P => i \in P
    BY <1>0, <1>1, <1>2
  <2> HIDE DEF P
  <2>2. 0..n \subseteq P
    BY <1>0, <2>1, Upwards
  <2> QED
    BY <1>0, <2>2 DEF P
<1>4. g[n + 1] = step[<<g[n], e>>]
  <2>1. n + 1 \in 1..Len(t) /\ (n + 1) - 1 = n
    BY <1>0
  <2>2. g[n + 1] = step[<<g[(n + 1) - 1], t[n + 1]>>]
    BY <2>1 DEF Along, t
  <2> QED
    BY <1>0, <2>1, <2>2
<1> QED
  BY <1>0, <1>3, <1>4 DEF t
-----------------------------------------------------------------------------
\* Without, Readable and Kept, element by element.
Skipping(S, T) == [p \in Seq(T) \X T |-> IF p[2] \in S THEN p[1] ELSE Append(p[1], p[2])]

LEMMA WithoutIs ==
  ASSUME NEW T, NEW s \in Seq(T), NEW S
  PROVE  \E g : /\ Along(g, s, Seq(T), <<>>, Skipping(S, T))
               /\ Without(s, S) = g[Len(s)]
<1> DEFINE n == Len(s)
<1>0. n \in Nat /\ <<>> \in Seq(T) /\ Steps(Skipping(S, T), Seq(T), T)
  BY DEF Steps, Skipping
<1>1. PICK g : Along(g, s, Seq(T), <<>>, Skipping(S, T))
  BY <1>0, AlongIs
<1> DEFINE h == CHOOSE f : f = [i \in 0..n |-> IF i = 0 THEN <<>>
                                               ELSE IF s[i] \in S THEN f[i - 1] ELSE Append(f[i - 1], s[i])]
<1>2. ASSUME NEW i \in 1..n PROVE g[i] = IF s[i] \in S THEN g[i - 1] ELSE Append(g[i - 1], s[i])
  <2>1. g[i - 1] \in Seq(T) /\ s[i] \in T
    <3>1. i - 1 \in 0..n
      BY <1>0
    <3> QED
      BY <1>1, <3>1 DEF Along
  <2>2. g[i] = Skipping(S, T)[<<g[i - 1], s[i]>>]
    BY <1>1 DEF Along
  <2>3. \A q \in Seq(T), e \in T : Skipping(S, T)[<<q, e>>] = IF e \in S THEN q ELSE Append(q, e)
    BY DEF Skipping
  <2> QED
    BY <2>1, <2>2, <2>3
<1>3. g = [i \in 0..n |-> IF i = 0 THEN <<>> ELSE IF s[i] \in S THEN g[i - 1] ELSE Append(g[i - 1], s[i])]
  <2>1. g = [i \in 0..n |-> g[i]] /\ g[0] = <<>>
    BY <1>1 DEF Along
  <2>2. ASSUME NEW i \in 0..n PROVE i = 0 \/ i \in 1..n
    BY <1>0
  <2> QED
    BY <1>2, <2>1, <2>2
<1>4. h = [i \in 0..n |-> IF i = 0 THEN <<>> ELSE IF s[i] \in S THEN h[i - 1] ELSE Append(h[i - 1], s[i])]
  BY <1>3
<1>5. Without(s, S) = h[n]
  BY DEF Without
<1> HIDE DEF h
<1> DEFINE P == {i \in 0..n : h[i] = g[i]}
<1>6. h[0] = <<>> /\ \A i \in 1..n : h[i] = IF s[i] \in S THEN h[i - 1] ELSE Append(h[i - 1], s[i])
  <2>1. 0 \in 0..n /\ \A i \in 1..n : i \in 0..n /\ i # 0
    BY <1>0
  <2> QED
    BY <1>4, <2>1
<1>7. 0 \in P
  BY <1>0, <1>1, <1>6 DEF Along
<1>8. ASSUME NEW i \in 1..n, i - 1 \in P PROVE i \in P
  <2>1. i \in 0..n /\ h[i - 1] = g[i - 1]
    BY <1>0, <1>8
  <2> QED
    BY <1>2, <1>6, <2>1
<1> HIDE DEF P
<1>9. 0..n \subseteq P
  BY <1>0, <1>7, <1>8, Upwards
<1>10. h[n] = g[n]
  BY <1>0, <1>9 DEF P
<1> QED
  BY <1>1, <1>5, <1>10

Line == [whole : BOOLEAN, entry : Entry]
Reading == [p \in Seq(Entry) \X Line |-> IF p[2].whole THEN Append(p[1], p[2].entry) ELSE p[1]]

LEMMA ReadableIs ==
  ASSUME NEW f \in Seq(Line)
  PROVE  \E g : /\ Along(g, f, Seq(Entry), <<>>, Reading)
               /\ Readable(f) = g[Len(f)]
<1> DEFINE n == Len(f)
<1>0. n \in Nat /\ <<>> \in Seq(Entry) /\ Steps(Reading, Seq(Entry), Line)
  BY DEF Steps, Reading, Line
<1>1. PICK g : Along(g, f, Seq(Entry), <<>>, Reading)
  BY <1>0, AlongIs
<1> DEFINE h == CHOOSE r : r = [i \in 0..n |-> IF i = 0 THEN <<>>
                                               ELSE IF f[i].whole THEN Append(r[i - 1], f[i].entry) ELSE r[i - 1]]
<1>2. ASSUME NEW i \in 1..n PROVE g[i] = IF f[i].whole THEN Append(g[i - 1], f[i].entry) ELSE g[i - 1]
  <2>1. g[i - 1] \in Seq(Entry) /\ f[i] \in Line
    <3>1. i - 1 \in 0..n
      BY <1>0
    <3> QED
      BY <1>1, <3>1 DEF Along
  <2>2. g[i] = Reading[<<g[i - 1], f[i]>>]
    BY <1>1 DEF Along
  <2>3. \A q \in Seq(Entry), e \in Line : Reading[<<q, e>>] = IF e.whole THEN Append(q, e.entry) ELSE q
    BY DEF Reading, Line
  <2> QED
    BY <2>1, <2>2, <2>3
<1>3. g = [i \in 0..n |-> IF i = 0 THEN <<>> ELSE IF f[i].whole THEN Append(g[i - 1], f[i].entry) ELSE g[i - 1]]
  <2>1. g = [i \in 0..n |-> g[i]] /\ g[0] = <<>>
    BY <1>1 DEF Along
  <2>2. ASSUME NEW i \in 0..n PROVE i = 0 \/ i \in 1..n
    BY <1>0
  <2> QED
    BY <1>2, <2>1, <2>2
<1>4. h = [i \in 0..n |-> IF i = 0 THEN <<>> ELSE IF f[i].whole THEN Append(h[i - 1], f[i].entry) ELSE h[i - 1]]
  BY <1>3
<1>5. Readable(f) = h[n]
  BY DEF Readable
<1> HIDE DEF h
<1> DEFINE P == {i \in 0..n : h[i] = g[i]}
<1>6. h[0] = <<>> /\ \A i \in 1..n : h[i] = IF f[i].whole THEN Append(h[i - 1], f[i].entry) ELSE h[i - 1]
  <2>1. 0 \in 0..n /\ \A i \in 1..n : i \in 0..n /\ i # 0
    BY <1>0
  <2> QED
    BY <1>4, <2>1
<1>7. 0 \in P
  BY <1>0, <1>1, <1>6 DEF Along
<1>8. ASSUME NEW i \in 1..n, i - 1 \in P PROVE i \in P
  <2>1. i \in 0..n /\ h[i - 1] = g[i - 1]
    BY <1>0, <1>8
  <2> QED
    BY <1>2, <1>6, <2>1
<1> HIDE DEF P
<1>9. 0..n \subseteq P
  BY <1>0, <1>7, <1>8, Upwards
<1>10. h[n] = g[n]
  BY <1>0, <1>9 DEF P
<1> QED
  BY <1>1, <1>5, <1>10

Pruning == [p \in Seq(Entry) \X Entry |-> IF p[2].parent \in Known(p[1]) \cup {Root} THEN Append(p[1], p[2]) ELSE p[1]]

LEMMA KeptIs ==
  ASSUME NEW es \in Seq(Entry)
  PROVE  \E g : /\ Along(g, es, Seq(Entry), <<>>, Pruning)
               /\ Kept(es) = g[Len(es)]
<1> DEFINE n == Len(es)
<1>0. n \in Nat /\ <<>> \in Seq(Entry) /\ Steps(Pruning, Seq(Entry), Entry)
  BY DEF Steps, Pruning
<1>1. PICK g : Along(g, es, Seq(Entry), <<>>, Pruning)
  BY <1>0, AlongIs
<1> DEFINE h == CHOOSE f : f = [i \in 0..n |-> IF i = 0 THEN <<>>
                                               ELSE IF es[i].parent \in Known(f[i - 1]) \cup {Root}
                                                    THEN Append(f[i - 1], es[i]) ELSE f[i - 1]]
<1>2. ASSUME NEW i \in 1..n PROVE g[i] = IF es[i].parent \in Known(g[i - 1]) \cup {Root}
                                         THEN Append(g[i - 1], es[i]) ELSE g[i - 1]
  <2>1. g[i - 1] \in Seq(Entry) /\ es[i] \in Entry
    <3>1. i - 1 \in 0..n
      BY <1>0
    <3> QED
      BY <1>1, <3>1 DEF Along
  <2>2. g[i] = Pruning[<<g[i - 1], es[i]>>]
    BY <1>1 DEF Along
  <2>3. \A q \in Seq(Entry), e \in Entry : Pruning[<<q, e>>] = IF e.parent \in Known(q) \cup {Root}
                                                               THEN Append(q, e) ELSE q
    BY DEF Pruning
  <2> QED
    BY <2>1, <2>2, <2>3
<1>3. g = [i \in 0..n |-> IF i = 0 THEN <<>>
                          ELSE IF es[i].parent \in Known(g[i - 1]) \cup {Root}
                               THEN Append(g[i - 1], es[i]) ELSE g[i - 1]]
  <2>1. g = [i \in 0..n |-> g[i]] /\ g[0] = <<>>
    BY <1>1 DEF Along
  <2>2. ASSUME NEW i \in 0..n PROVE i = 0 \/ i \in 1..n
    BY <1>0
  <2> QED
    BY <1>2, <2>1, <2>2
<1>4. h = [i \in 0..n |-> IF i = 0 THEN <<>>
                          ELSE IF es[i].parent \in Known(h[i - 1]) \cup {Root}
                               THEN Append(h[i - 1], es[i]) ELSE h[i - 1]]
  BY <1>3
<1>5. Kept(es) = h[n]
  BY DEF Kept
<1> HIDE DEF h
<1> DEFINE P == {i \in 0..n : h[i] = g[i]}
<1>6. h[0] = <<>> /\ \A i \in 1..n : h[i] = IF es[i].parent \in Known(h[i - 1]) \cup {Root}
                                            THEN Append(h[i - 1], es[i]) ELSE h[i - 1]
  <2>1. 0 \in 0..n /\ \A i \in 1..n : i \in 0..n /\ i # 0
    BY <1>0
  <2> QED
    BY <1>4, <2>1
<1>7. 0 \in P
  BY <1>0, <1>1, <1>6 DEF Along
<1>8. ASSUME NEW i \in 1..n, i - 1 \in P PROVE i \in P
  <2>1. i \in 0..n /\ h[i - 1] = g[i - 1]
    BY <1>0, <1>8
  <2> QED
    BY <1>2, <1>6, <2>1
<1> HIDE DEF P
<1>9. 0..n \subseteq P
  BY <1>0, <1>7, <1>8, Upwards
<1>10. h[n] = g[n]
  BY <1>0, <1>9 DEF P
<1> QED
  BY <1>1, <1>5, <1>10

LEMMA WithoutMore ==
  ASSUME NEW T, NEW s \in Seq(T), NEW e \in T, NEW S
  PROVE  Without(Append(s, e), S) = IF e \in S THEN Without(s, S) ELSE Append(Without(s, S), e)
<1>0. <<>> \in Seq(T) /\ Steps(Skipping(S, T), Seq(T), T) /\ Append(s, e) \in Seq(T) /\ Len(s) \in Nat
  BY DEF Steps, Skipping
<1>1. PICK g : Along(g, s, Seq(T), <<>>, Skipping(S, T)) /\ Without(s, S) = g[Len(s)]
  BY WithoutIs
<1>2. PICK h : /\ Along(h, Append(s, e), Seq(T), <<>>, Skipping(S, T))
             /\ Without(Append(s, e), S) = h[Len(Append(s, e))]
  BY <1>0, WithoutIs
<1>3. h[Len(Append(s, e))] = Skipping(S, T)[<<g[Len(s)], e>>]
  <2> DEFINE V == Seq(T)
             start == <<>>
             step == Skipping(S, T)
  <2>1. start \in V /\ Steps(step, V, T) /\ Along(g, s, V, start, step) /\ Along(h, Append(s, e), V, start, step)
    BY <1>0, <1>1, <1>2
  <2> HIDE DEF V, start, step
  <2>2. h[Len(Append(s, e))] = step[<<g[Len(s)], e>>]
    BY <2>1, AlongMore
  <2> QED
    BY <2>2 DEF step
<1>4. g[Len(s)] \in Seq(T)
  BY <1>0, <1>1 DEF Along
<1>5. \A q \in Seq(T) : Skipping(S, T)[<<q, e>>] = IF e \in S THEN q ELSE Append(q, e)
  BY DEF Skipping
<1> QED
  BY <1>1, <1>2, <1>3, <1>4, <1>5

LEMMA WithoutNothing ==
  ASSUME NEW S
  PROVE  Without(<<>>, S) = <<>>
<1>1. <<>> \in Seq({}) /\ Len(<<>>) = 0
  OBVIOUS
<1>2. PICK g : Along(g, <<>>, Seq({}), <<>>, Skipping(S, {})) /\ Without(<<>>, S) = g[Len(<<>>)]
  BY <1>1, WithoutIs
<1> QED
  BY <1>1, <1>2 DEF Along

LEMMA ReadableMore ==
  ASSUME NEW f \in Seq(Line), NEW l \in Line
  PROVE  Readable(Append(f, l)) = IF l.whole THEN Append(Readable(f), l.entry) ELSE Readable(f)
<1>0. <<>> \in Seq(Entry) /\ Steps(Reading, Seq(Entry), Line) /\ Append(f, l) \in Seq(Line) /\ Len(f) \in Nat
  BY DEF Steps, Reading, Line
<1>1. PICK g : Along(g, f, Seq(Entry), <<>>, Reading) /\ Readable(f) = g[Len(f)]
  BY ReadableIs
<1>2. PICK h : /\ Along(h, Append(f, l), Seq(Entry), <<>>, Reading)
             /\ Readable(Append(f, l)) = h[Len(Append(f, l))]
  BY <1>0, ReadableIs
<1>3. h[Len(Append(f, l))] = Reading[<<g[Len(f)], l>>]
  <2> DEFINE V == Seq(Entry)
             start == <<>>
             step == Reading
  <2>1. start \in V /\ Steps(step, V, Line) /\ Along(g, f, V, start, step) /\ Along(h, Append(f, l), V, start, step)
    BY <1>0, <1>1, <1>2
  <2> HIDE DEF V, start, step
  <2>2. h[Len(Append(f, l))] = step[<<g[Len(f)], l>>]
    BY <2>1, AlongMore
  <2> QED
    BY <2>2 DEF step
<1>4. g[Len(f)] \in Seq(Entry)
  BY <1>0, <1>1 DEF Along
<1>5. \A q \in Seq(Entry) : Reading[<<q, l>>] = IF l.whole THEN Append(q, l.entry) ELSE q
  BY DEF Reading, Line
<1> QED
  BY <1>1, <1>2, <1>3, <1>4, <1>5

LEMMA ReadableNothing == Readable(<<>>) = <<>>
<1>1. <<>> \in Seq(Line) /\ Len(<<>>) = 0
  OBVIOUS
<1>2. PICK g : Along(g, <<>>, Seq(Entry), <<>>, Reading) /\ Readable(<<>>) = g[Len(<<>>)]
  BY <1>1, ReadableIs
<1> QED
  BY <1>1, <1>2 DEF Along

LEMMA KeptMore ==
  ASSUME NEW es \in Seq(Entry), NEW e \in Entry
  PROVE  Kept(Append(es, e)) = IF e.parent \in Known(Kept(es)) \cup {Root} THEN Append(Kept(es), e) ELSE Kept(es)
<1>0. <<>> \in Seq(Entry) /\ Steps(Pruning, Seq(Entry), Entry) /\ Append(es, e) \in Seq(Entry) /\ Len(es) \in Nat
  BY DEF Steps, Pruning
<1>1. PICK g : Along(g, es, Seq(Entry), <<>>, Pruning) /\ Kept(es) = g[Len(es)]
  BY KeptIs
<1>2. PICK h : /\ Along(h, Append(es, e), Seq(Entry), <<>>, Pruning)
             /\ Kept(Append(es, e)) = h[Len(Append(es, e))]
  BY <1>0, KeptIs
<1>3. h[Len(Append(es, e))] = Pruning[<<g[Len(es)], e>>]
  <2> DEFINE V == Seq(Entry)
             start == <<>>
             step == Pruning
  <2>1. start \in V /\ Steps(step, V, Entry) /\ Along(g, es, V, start, step) /\ Along(h, Append(es, e), V, start, step)
    BY <1>0, <1>1, <1>2
  <2> HIDE DEF V, start, step
  <2>2. h[Len(Append(es, e))] = step[<<g[Len(es)], e>>]
    BY <2>1, AlongMore
  <2> QED
    BY <2>2 DEF step
<1>4. g[Len(es)] \in Seq(Entry)
  BY <1>0, <1>1 DEF Along
<1>5. \A q \in Seq(Entry) : Pruning[<<q, e>>] = IF e.parent \in Known(q) \cup {Root} THEN Append(q, e) ELSE q
  BY DEF Pruning
<1> QED
  BY <1>1, <1>2, <1>3, <1>4, <1>5

LEMMA KeptNothing == Kept(<<>>) = <<>>
<1>1. <<>> \in Seq(Entry) /\ Len(<<>>) = 0
  OBVIOUS
<1>2. PICK g : Along(g, <<>>, Seq(Entry), <<>>, Pruning) /\ Kept(<<>>) = g[Len(<<>>)]
  BY <1>1, KeptIs
<1> QED
  BY <1>1, <1>2 DEF Along

-----------------------------------------------------------------------------
\* What lists of entries hold.
LEMMA Members ==
  ASSUME NEW T, NEW s \in Seq(T), NEW t \in Seq(T), NEW e \in T
  PROVE  /\ ToSet(s) \in SUBSET T
         /\ ToSet(<<>>) = {}
         /\ ToSet(Append(s, e)) = ToSet(s) \cup {e}
         /\ ToSet(s \o t) = ToSet(s) \cup ToSet(t)
<1>1. ToSet(s) \in SUBSET T /\ ToSet(<<>>) = {}
  BY DEF ToSet
<1>2. ToSet(Append(s, e)) = ToSet(s) \cup {e}
  <2>1. Append(s, e)[Len(s) + 1] = e /\ DOMAIN Append(s, e) = 1..(Len(s) + 1) /\ DOMAIN s = 1..Len(s) /\ Len(s) \in Nat
    OBVIOUS
  <2>2. \A i \in 1..Len(s) : Append(s, e)[i] = s[i]
    OBVIOUS
  <2>3. 1..(Len(s) + 1) = 1..Len(s) \cup {Len(s) + 1}
    BY <2>1
  <2> QED
    BY SMTT(60), <2>1, <2>2, <2>3, Zenon DEF ToSet
<1>3. ToSet(s \o t) = ToSet(s) \cup ToSet(t)
  <2>1. /\ s \o t \in Seq(T) /\ Len(s \o t) = Len(s) + Len(t)
        /\ \A i \in 1..Len(s) + Len(t) : (s \o t)[i] = IF i <= Len(s) THEN s[i] ELSE t[i - Len(s)]
    BY ConcatProperties
  <2>2. DOMAIN s = 1..Len(s) /\ DOMAIN t = 1..Len(t) /\ DOMAIN (s \o t) = 1..Len(s \o t) /\ Len(s) \in Nat /\ Len(t) \in Nat
    BY <2>1, LenProperties
  <2>3. ASSUME NEW i \in DOMAIN (s \o t) PROVE (s \o t)[i] \in ToSet(s) \cup ToSet(t)
    <3>1. CASE i <= Len(s)
      <4>1. i \in DOMAIN s /\ (s \o t)[i] = s[i]
        BY <2>1, <2>2, <2>3, <3>1
      <4> QED
        BY <4>1 DEF ToSet
    <3>2. CASE ~(i <= Len(s))
      <4>1. i - Len(s) \in DOMAIN t /\ (s \o t)[i] = t[i - Len(s)]
        BY <2>1, <2>2, <2>3, <3>2
      <4> QED
        BY <4>1 DEF ToSet
    <3> QED
      BY <3>1, <3>2
  <2>4. ASSUME NEW i \in DOMAIN s PROVE s[i] \in ToSet(s \o t)
    <3>1. i \in DOMAIN (s \o t) /\ (s \o t)[i] = s[i]
      BY <2>1, <2>2, <2>4
    <3> QED
      BY <3>1 DEF ToSet
  <2>5. ASSUME NEW i \in DOMAIN t PROVE t[i] \in ToSet(s \o t)
    <3>1. i + Len(s) \in DOMAIN (s \o t) /\ (s \o t)[i + Len(s)] = t[i]
      <4>1. i \in 1..Len(t) /\ i + Len(s) \in 1..Len(s) + Len(t) /\ ~(i + Len(s) <= Len(s)) /\ (i + Len(s)) - Len(s) = i
        BY <2>2, <2>5
      <4> QED
        BY <2>1, <2>2, <4>1
    <3> QED
      BY <3>1 DEF ToSet
  <2> QED
    BY <2>3, <2>4, <2>5 DEF ToSet
<1> QED
  BY <1>1, <1>2, <1>3


LEMMA KnownMore ==
  ASSUME NEW es \in Seq(Entry), NEW e \in Entry
  PROVE  /\ Known(<<>>) = {}
         /\ Known(es) = {d.id : d \in ToSet(es)}
         /\ Known(Append(es, e)) = Known(es) \cup {e.id}
<1>1. Known(<<>>) = {}
  BY DEF Known
<1>2. \A s : Known(s) = {d.id : d \in ToSet(s)}
  BY DEF Known, ToSet
<1>3. ToSet(Append(es, e)) = ToSet(es) \cup {e}
  BY Members
<1> QED
  BY <1>1, <1>2, <1>3

LEMMA KnownIds ==
  ASSUME NEW es \in Seq(Entry)
  PROVE  Known(es) \subseteq Ids /\ ToSet(es) \subseteq Entry /\ Known(es) = {d.id : d \in ToSet(es)}
<1>1. ToSet(es) \subseteq Entry
  BY DEF ToSet
<1>2. Known(es) = {d.id : d \in ToSet(es)}
  BY DEF Known, ToSet
<1> QED
  BY <1>1, <1>2 DEF Entry

\* The entries of all lines, of those no parser takes any more too.
EntriesOf(f) == [i \in DOMAIN f |-> f[i].entry]

LEMMA EntriesMore ==
  ASSUME NEW f \in Seq(Line), NEW l \in Line
  PROVE  /\ EntriesOf(f) \in Seq(Entry)
         /\ EntriesOf(<<>>) = <<>>
         /\ EntriesOf(Append(f, l)) = Append(EntriesOf(f), l.entry)
<1>0. DOMAIN f = 1..Len(f) /\ Len(f) \in Nat /\ \A i \in 1..Len(f) : f[i].entry \in Entry
  <2>1. DOMAIN f = 1..Len(f) /\ Len(f) \in Nat /\ \A i \in 1..Len(f) : f[i] \in Line
    OBVIOUS
  <2>2. \A l1 \in Line : l1.entry \in Entry
    BY DEF Line
  <2> QED
    BY <2>1, <2>2
<1>1. EntriesOf(f) \in Seq(Entry)
  BY <1>0, IsASeq DEF EntriesOf
<1>2. EntriesOf(<<>>) = <<>>
  BY DEF EntriesOf
<1>3. EntriesOf(Append(f, l)) = Append(EntriesOf(f), l.entry)
  <2>1. DOMAIN EntriesOf(f) = 1..Len(f) /\ Len(EntriesOf(f)) = Len(f)
    BY <1>0, <1>1 DEF EntriesOf
  <2>2. /\ DOMAIN Append(f, l) = 1..(Len(f) + 1) /\ Append(f, l)[Len(f) + 1] = l
        /\ \A i \in 1..Len(f) : Append(f, l)[i] = f[i]
    BY <1>0
  <2>3. l.entry \in Entry
    BY DEF Line
  <2>4. /\ DOMAIN Append(EntriesOf(f), l.entry) = 1..(Len(f) + 1)
        /\ Append(EntriesOf(f), l.entry)[Len(f) + 1] = l.entry
        /\ \A i \in 1..Len(f) : Append(EntriesOf(f), l.entry)[i] = EntriesOf(f)[i]
        /\ Append(EntriesOf(f), l.entry) = [i \in 1..(Len(f) + 1) |-> Append(EntriesOf(f), l.entry)[i]]
    BY <1>1, <2>1, <2>3
  <2>5. EntriesOf(Append(f, l)) = [i \in 1..(Len(f) + 1) |-> Append(f, l)[i].entry]
    BY <2>2 DEF EntriesOf
  <2>6. ASSUME NEW i \in 1..(Len(f) + 1) PROVE Append(f, l)[i].entry = Append(EntriesOf(f), l.entry)[i]
    <3>1. CASE i = Len(f) + 1
      BY <2>2, <2>4, <3>1
    <3>2. CASE i # Len(f) + 1
      <4>1. i \in 1..Len(f)
        BY <1>0, <3>2
      <4>2. EntriesOf(f)[i] = f[i].entry
        BY <1>0, <4>1 DEF EntriesOf
      <4> QED
        BY <2>2, <2>4, <4>1, <4>2
    <3> QED
      BY <3>1, <3>2
  <2> QED
    BY ONLY <2>4, <2>5, <2>6
<1> QED
  BY <1>1, <1>2, <1>3

LEMMA EntriesFrom ==
  ASSUME NEW f \in Seq(Line)
  PROVE  EntriesOf(f) \in Seq(Entry) /\ Len(EntriesOf(f)) = Len(f)
<1>1. DOMAIN f = 1..Len(f) /\ Len(f) \in Nat /\ \A i \in 1..Len(f) : f[i] \in Line
  OBVIOUS
<1>2. \A l \in Line : l.entry \in Entry
  BY DEF Line
<1>3. EntriesOf(f) = [i \in 1..Len(f) |-> f[i].entry]
  BY <1>1 DEF EntriesOf
<1>4. EntriesOf(f) \in Seq(Entry)
  BY <1>1, <1>2, <1>3, IsASeq
<1> QED
  BY <1>1, <1>3, <1>4

LEMMA SkipsMore ==
  ASSUME NEW f \in Seq(Line), NEW l \in Line
  PROVE  Skips(Append(f, l)) <=> Skips(f) \/ ~l.whole
<1>1. /\ DOMAIN f = 1..Len(f) /\ Len(f) \in Nat
      /\ DOMAIN Append(f, l) = 1..(Len(f) + 1) /\ Append(f, l)[Len(f) + 1] = l
      /\ \A i \in 1..Len(f) : Append(f, l)[i] = f[i]
  OBVIOUS
<1>2. \A i : i \in 1..(Len(f) + 1) <=> i \in 1..Len(f) \/ i = Len(f) + 1
  BY <1>1
<1> QED
  BY ZenonT(30), <1>1, <1>2 DEF Skips

LEMMA ReadableFacts ==
  ASSUME NEW f \in Seq(Line)
  PROVE  /\ Readable(f) \in Seq(Entry)
         /\ ToSet(Readable(f)) \subseteq ToSet(EntriesOf(f))
         /\ ~Skips(f) => Readable(f) = EntriesOf(f)
<1> DEFINE Ok(q) == /\ Readable(q) \in Seq(Entry)
                    /\ ToSet(Readable(q)) \subseteq ToSet(EntriesOf(q))
                    /\ ~Skips(q) => Readable(q) = EntriesOf(q)
           P == {q \in Seq(Line) : Ok(q)}
<1>1. <<>> \in P
  <2>1. <<>> \in Seq(Line) /\ <<>> \in Seq(Entry) /\ EntriesOf(<<>>) = <<>>
    BY DEF EntriesOf
  <2> QED
    BY <2>1, ReadableNothing
<1>2. ASSUME NEW q \in Seq(Line), q \in P, NEW l \in Line PROVE Append(q, l) \in P
  <2>0. Append(q, l) \in Seq(Line) /\ l.entry \in Entry /\ l.whole \in BOOLEAN
    BY DEF Line
  <2>1. Readable(Append(q, l)) = IF l.whole THEN Append(Readable(q), l.entry) ELSE Readable(q)
    BY ReadableMore
  <2>2. EntriesOf(Append(q, l)) = Append(EntriesOf(q), l.entry) /\ EntriesOf(q) \in Seq(Entry)
    BY EntriesMore
  <2>3. Ok(q)
    BY <1>2
  <2>4. ToSet(Append(EntriesOf(q), l.entry)) = ToSet(EntriesOf(q)) \cup {l.entry}
    BY <2>0, <2>2, Members
  <2>5. ToSet(Append(Readable(q), l.entry)) = ToSet(Readable(q)) \cup {l.entry}
    BY <2>0, <2>3, Members
  <2>6. Append(Readable(q), l.entry) \in Seq(Entry)
    BY <2>0, <2>3
  <2>7. Skips(Append(q, l)) <=> Skips(q) \/ ~l.whole
    BY SkipsMore
  <2>8. CASE l.whole
    BY <2>1, <2>2, <2>3, <2>4, <2>5, <2>6, <2>7, <2>8, <2>0
  <2>9. CASE ~l.whole
    BY <2>1, <2>2, <2>3, <2>4, <2>7, <2>9, <2>0
  <2> QED
    BY <2>8, <2>9
<1> HIDE DEF P
<1>3. f \in P
  BY <1>1, <1>2, Growing
<1> QED
  BY <1>3 DEF P

\* Each entry hangs from one before it, and points there or at itself.
Before(es, i) == {es[j].id : j \in 1..(i - 1)}
Hung(es) == \A i \in DOMAIN es : /\ es[i].parent \in Before(es, i) \cup {Root}
                                 /\ es[i].target \in Before(es, i) \cup {Root, es[i].id}
Closed(es) == \A e \in ToSet(es) : e.parent \in Known(es) \cup {Root}
LastTarget(es) == IF es = <<>> THEN Root ELSE Last(es).target

LEMMA HungMore ==
  ASSUME NEW es \in Seq(Entry), NEW e \in Entry
  PROVE  /\ Hung(<<>>)
         /\ Hung(Append(es, e)) <=> /\ Hung(es) /\ e.parent \in Known(es) \cup {Root}
                                    /\ e.target \in Known(es) \cup {Root, e.id}
<1> DEFINE n == Len(es)
           t == Append(es, e)
<1>0. /\ n \in Nat /\ DOMAIN es = 1..n /\ DOMAIN t = 1..(n + 1) /\ t[n + 1] = e
      /\ \A i \in 1..n : t[i] = es[i]
  OBVIOUS
<1>1. \A i : i \in 1..(n + 1) <=> i \in 1..n \/ i = n + 1
  BY <1>0
<1> HIDE DEF n, t
<1>2. ASSUME NEW i \in 1..n PROVE Before(t, i) = Before(es, i)
  <2>1. \A j \in 1..(i - 1) : j \in 1..n
    BY <1>0
  <2> QED
    BY <1>0, <2>1 DEF Before
<1>3. Before(t, n + 1) = Known(es)
  <2>1. (n + 1) - 1 = n
    BY <1>0
  <2> QED
    BY <1>0, <2>1 DEF Before, Known
<1>4. Hung(t) <=> /\ \A i \in 1..n : /\ es[i].parent \in Before(es, i) \cup {Root}
                                     /\ es[i].target \in Before(es, i) \cup {Root, es[i].id}
                  /\ e.parent \in Known(es) \cup {Root}
                  /\ e.target \in Known(es) \cup {Root, e.id}
  <2>1. Hung(t) <=> /\ \A i \in 1..n : /\ t[i].parent \in Before(t, i) \cup {Root}
                                       /\ t[i].target \in Before(t, i) \cup {Root, t[i].id}
                    /\ t[n + 1].parent \in Before(t, n + 1) \cup {Root}
                    /\ t[n + 1].target \in Before(t, n + 1) \cup {Root, t[n + 1].id}
    BY ZenonT(30), <1>0, <1>1 DEF Hung
  <2> QED
    BY <1>0, <1>2, <1>3, <2>1
<1>5. Hung(<<>>)
  BY DEF Hung
<1> QED
  BY <1>0, <1>4, <1>5 DEF Hung, t

LEMMA HungCloses ==
  ASSUME NEW es \in Seq(Entry), Hung(es)
  PROVE  /\ Closed(es) /\ \A e \in ToSet(es) : e.target \in Known(es) \cup {Root}
         /\ LastTarget(es) \in Known(es) \cup {Root}
<1>1. ASSUME NEW i \in DOMAIN es PROVE Before(es, i) \subseteq Known(es) /\ es[i].id \in Known(es)
  <2>1. i \in 1..Len(es) /\ Len(es) \in Nat /\ DOMAIN es = 1..Len(es)
    OBVIOUS
  <2>2. \A j \in 1..(i - 1) : j \in DOMAIN es
    BY <2>1
  <2> QED
    BY <2>2 DEF Before, Known
<1>2. \A i \in DOMAIN es : es[i].parent \in Known(es) \cup {Root} /\ es[i].target \in Known(es) \cup {Root}
  BY <1>1 DEF Hung
<1>3. Closed(es) /\ \A e \in ToSet(es) : e.target \in Known(es) \cup {Root}
  BY <1>2 DEF Closed, ToSet
<1>4. LastTarget(es) \in Known(es) \cup {Root}
  <2>1. CASE es = <<>>
    BY <2>1 DEF LastTarget
  <2>2. CASE es # <<>>
    <3>1. Len(es) \in DOMAIN es
      BY <2>2
    <3> QED
      BY <1>2, <2>2, <3>1 DEF LastTarget, Last
  <2> QED
    BY <2>1, <2>2
<1> QED
  BY <1>3, <1>4

LEMMA KeptFacts ==
  ASSUME NEW es \in Seq(Entry)
  PROVE  /\ Kept(es) \in Seq(Entry) /\ ToSet(Kept(es)) \subseteq ToSet(es)
         /\ Closed(Kept(es))
         /\ Hung(es) => Kept(es) = es
<1> DEFINE Ok(q) == /\ Kept(q) \in Seq(Entry) /\ ToSet(Kept(q)) \subseteq ToSet(q)
                    /\ Closed(Kept(q))
                    /\ Hung(q) => Kept(q) = q
           P == {q \in Seq(Entry) : Ok(q)}
<1>1. <<>> \in P
  <2>1. <<>> \in Seq(Entry) /\ ToSet(<<>>) = {}
    BY DEF ToSet
  <2> QED
    BY <2>1, KeptNothing DEF Closed
<1>2. ASSUME NEW q \in Seq(Entry), q \in P, NEW e \in Entry PROVE Append(q, e) \in P
  <2>0. Append(q, e) \in Seq(Entry)
    OBVIOUS
  <2>1. Kept(Append(q, e)) = IF e.parent \in Known(Kept(q)) \cup {Root} THEN Append(Kept(q), e) ELSE Kept(q)
    BY KeptMore
  <2>3. Ok(q)
    BY <1>2
  <2>4. ToSet(Append(q, e)) = ToSet(q) \cup {e}
    BY Members
  <2>5. Hung(Append(q, e)) => Hung(q) /\ e.parent \in Known(q) \cup {Root}
    BY HungMore
  <2>6. CASE e.parent \in Known(Kept(q)) \cup {Root}
    <3>1. Kept(Append(q, e)) = Append(Kept(q), e) /\ Append(Kept(q), e) \in Seq(Entry)
      BY <2>1, <2>3, <2>6
    <3>2. /\ ToSet(Append(Kept(q), e)) = ToSet(Kept(q)) \cup {e}
          /\ Known(Append(Kept(q), e)) = Known(Kept(q)) \cup {e.id}
      BY <2>3, Members, KnownMore
    <3>3. Closed(Append(Kept(q), e))
      BY <2>3, <2>6, <3>2 DEF Closed
    <3> QED
      BY <2>0, <2>3, <2>4, <2>5, <3>1, <3>2, <3>3
  <2>7. CASE e.parent \notin Known(Kept(q)) \cup {Root}
    <3>1. Kept(Append(q, e)) = Kept(q)
      BY <2>1, <2>7
    <3>2. ~Hung(Append(q, e))
      BY <2>3, <2>5, <2>7
    <3> QED
      BY <2>0, <2>3, <2>4, <3>1, <3>2
  <2> QED
    BY <2>6, <2>7
<1> HIDE DEF P
<1>3. es \in P
  BY <1>1, <1>2, Growing
<1> QED
  BY <1>3 DEF P

LEMMA WithoutFacts ==
  ASSUME NEW T, NEW s \in Seq(T), NEW S
  PROVE  /\ Without(s, S) \in Seq(T)
         /\ ToSet(Without(s, S)) = ToSet(s) \ S
         /\ ToSet(s) \cap S = {} => Without(s, S) = s
<1> DEFINE Ok(q) == /\ Without(q, S) \in Seq(T)
                    /\ ToSet(Without(q, S)) = ToSet(q) \ S
                    /\ ToSet(q) \cap S = {} => Without(q, S) = q
           P == {q \in Seq(T) : Ok(q)}
<1>1. <<>> \in P
  <2>1. <<>> \in Seq(T) /\ ToSet(<<>>) = {}
    BY DEF ToSet
  <2> QED
    BY <2>1, WithoutNothing
<1>2. ASSUME NEW q \in Seq(T), q \in P, NEW e \in T PROVE Append(q, e) \in P
  <2>0. Append(q, e) \in Seq(T)
    OBVIOUS
  <2>1. Without(Append(q, e), S) = IF e \in S THEN Without(q, S) ELSE Append(Without(q, S), e)
    BY WithoutMore
  <2>3. Ok(q)
    BY <1>2
  <2>4. ToSet(Append(q, e)) = ToSet(q) \cup {e} /\ ToSet(Append(Without(q, S), e)) = ToSet(Without(q, S)) \cup {e}
    BY <2>3, Members
  <2>5. e \notin S => Append(Without(q, S), e) \in Seq(T)
    BY <2>3
  <2>6. CASE e \in S
    BY <2>0, <2>1, <2>3, <2>4, <2>6
  <2>7. CASE e \notin S
    BY <2>0, <2>1, <2>3, <2>4, <2>5, <2>7
  <2> QED
    BY <2>6, <2>7
<1> HIDE DEF P
<1>3. s \in P
  BY <1>1, <1>2, Growing
<1> QED
  BY <1>3 DEF P

LEMMA Loaded ==
  ASSUME NEW f \in Seq(Line)
  PROVE  /\ LoadedEntries(f) \in Seq(Entry) /\ ToSet(LoadedEntries(f)) \subseteq ToSet(EntriesOf(f))
         /\ LoadedLeaf(f) \in Ids \cup {Root}
         /\ Hung(EntriesOf(f)) => /\ Closed(LoadedEntries(f))
                                  /\ LoadedLeaf(f) \in Known(LoadedEntries(f)) \cup {Root}
         /\ Hung(Readable(f)) => /\ LoadedEntries(f) = Readable(f)
                                 /\ LoadedLeaf(f) = LastTarget(Readable(f))
<1>1. /\ Readable(f) \in Seq(Entry) /\ ToSet(Readable(f)) \subseteq ToSet(EntriesOf(f))
      /\ ~Skips(f) => Readable(f) = EntriesOf(f)
  BY ReadableFacts
<1>2. /\ Kept(Readable(f)) \in Seq(Entry) /\ ToSet(Kept(Readable(f))) \subseteq ToSet(Readable(f))
      /\ Closed(Kept(Readable(f)))
      /\ Hung(Readable(f)) => Kept(Readable(f)) = Readable(f)
  BY <1>1, KeptFacts
<1> DEFINE es == LoadedEntries(f)
           astray == {e \in ToSet(es) : e.target \notin Known(es) \cup {Root}}
           fit == IF Skips(f) THEN Without(es, astray) ELSE es
<1>0. (Skips(f) => es = Kept(Readable(f))) /\ (~Skips(f) => es = Readable(f))
  BY DEF LoadedEntries
<1> HIDE DEF es
<1>3. es \in Seq(Entry) /\ ToSet(es) \subseteq ToSet(EntriesOf(f)) /\ (Hung(Readable(f)) => es = Readable(f))
  <2>1. CASE Skips(f)
    BY <1>0, <1>1, <1>2, <2>1
  <2>2. CASE ~Skips(f)
    BY <1>0, <1>1, <2>2
  <2> QED
    BY <2>1, <2>2
<1>4. LoadedLeaf(f) = LastTarget(fit)
  BY DEF es, LoadedLeaf, LastTarget
<1>5. /\ Without(es, astray) \in Seq(Entry) /\ ToSet(Without(es, astray)) = ToSet(es) \ astray
      /\ ToSet(es) \cap astray = {} => Without(es, astray) = es
  <2> HIDE DEF astray
  <2> QED
    BY <1>3, WithoutFacts
<1>6. ASSUME NEW s \in Seq(Entry) PROVE s # <<>> => Last(s) \in ToSet(s)
  <2>1. s # <<>> => Len(s) \in DOMAIN s
    OBVIOUS
  <2> QED
    BY <2>1 DEF Last, ToSet
<1>7. fit \in Seq(Entry) /\ ToSet(fit) \subseteq ToSet(es)
  BY <1>3, <1>5
<1>8. LastTarget(fit) \in Ids \cup {Root}
  <2> HIDE DEF fit
  <2>1. fit # <<>> => Last(fit) \in Entry
    BY <1>6, <1>7, KnownIds
  <2> QED
    BY <2>1 DEF LastTarget, Entry
<1>9. Hung(EntriesOf(f)) => Closed(es) /\ LastTarget(fit) \in Known(es) \cup {Root}
  <2>1. CASE Skips(f)
    <3>1. Closed(es)
      BY <1>0, <1>2, <2>1
    <3>2. fit # <<>> => Last(fit) \in ToSet(es) \ astray
      BY <1>5, <1>6, <1>7, <2>1
    <3>3. fit # <<>> => Last(fit).target \in Known(es) \cup {Root}
      BY <3>2
    <3> QED
      BY <3>1, <3>3 DEF LastTarget
  <2>2. CASE ~Skips(f)
    <3>1. es = EntriesOf(f) /\ fit = es
      BY <1>0, <1>1, <2>2
    <3> QED
      BY <1>3, <3>1, HungCloses
  <2> QED
    BY <2>1, <2>2
<1>10. ASSUME Hung(Readable(f)) PROVE es = Readable(f) /\ fit = es
  <2>1. es = Readable(f)
    BY <1>3, <1>10
  <2>2. astray = {}
    BY <1>10, <1>1, <2>1, HungCloses
  <2> HIDE DEF astray
  <2> QED
    BY <1>5, <2>1, <2>2
<1> QED
  BY <1>3, <1>4, <1>8, <1>9, <1>10 DEF es

-----------------------------------------------------------------------------
\* The parts of the invariant.

All == EntriesOf(file)
Apart(es) == \A d, e \in ToSet(es) : d.id = e.id => d = e
Rising(es) == \A e \in ToSet(es) : e.parent < e.id

\* The lock's queue holds the tasks whose calls go on, and a line is never added to one that was cut.
Queued == /\ up \/ lock = <<>>
          /\ up /\ ~ends => heals
          /\ \A w \in ToSet(lock) : line[w] \in Entry
          /\ \A w \in Writers : Len(job[w].todo) <= MaxEntries
          /\ ~Awaits => Len(lock) <= 1

Room == Owed <= scope.entries

\* An entry that waits for the lock has a name of its own.
Fresh == /\ \A e \in ToSet(All) : e.id <= built
         /\ \A w \in ToSet(lock) : line[w].id <= built /\ line[w].id \notin Known(All)
         /\ \A v, w \in ToSet(lock) : line[v].id = line[w].id => v = w

\* The lines, readable or not, hang together, and what is in memory is among them and does so too.
Hanging == /\ Hung(All) /\ Apart(All) /\ Rising(All)
           /\ ToSet(entries) \subseteq ToSet(All) /\ Closed(entries)
           /\ leaf \in Known(entries) \cup {Root}

\* So do the entries that wait, and those their calls will build.
Pending == \A w \in ToSet(lock) :
             /\ line[w].parent \in Known(entries) \cup {Root} /\ line[w].parent < line[w].id
             /\ line[w].target \in Known(entries) \cup {Root, line[w].id}
             /\ \A i \in DOMAIN job[w].todo : job[w].todo[i].to \in Known(entries) \cup {Root}

\* With no line damaged, the file has all that is in memory, and the leaf is where its last entry put it
\* unless that one is in doubt.
Undamaged == damage = 0 =>
               /\ ToSet(entries) \subseteq ToSet(Readable(file))
               /\ Hung(Readable(file))
               /\ IF Readable(file) = <<>> THEN leaf = Root
                  ELSE Last(Readable(file)) \in ToSet(entries) => leaf = LastTarget(Readable(file))

Inv == TypeOK /\ Queued /\ Room /\ Fresh /\ Hanging /\ Pending /\ Undamaged

-----------------------------------------------------------------------------
\* Where the FileSystem does not suspend.

\* Contents are at most as old as the entries that carry them.
Aged == /\ \A i \in 1..built : origin[i] \in 1..i
        /\ away \subseteq 1..built
        /\ \A w \in Writers : job[w].takes \subseteq 1..built

\* The contents along the path to l.
Carry(o, p) == [i \in DOMAIN p |-> o[p[i]]]
Trail(l) == Carry(origin, Path(All, l))

\* No content comes twice on a path.
Once == \A l \in Known(All) \cup {Root} : IsInjective(Trail(l))

\* The entries whose contents calls bring back.
Ofs(q) == [i \in DOMAIN q |-> q[i].of]

\* The task at the lock appends under the leaf; move_to() goes to its target and summarises there.
Moving(w) == LET todo == job[w].todo IN
  /\ line[w].target = IF Head(todo).moves THEN Head(todo).to ELSE line[w].id
  /\ Len(todo) <= 2
  /\ Len(todo) = 2 => Head(todo).moves /\ todo[2] = [New EXCEPT !.pinned = TRUE, !.to = Head(todo).to]

\* What is on the path already and what withdraw_tail() still appends make up what it wants.
Withdrawing(w) == LET todo == job[w].todo
                      want == job[w].want IN
  /\ IsInjective(want) /\ job[w].takes \cap ToSet(want) = {}
  /\ \A i \in DOMAIN todo : i > 1 => ~todo[i].moves
  /\ \A i \in DOMAIN todo : ~todo[i].moves => ~todo[i].pinned /\ todo[i].of \in Known(entries)
  /\ IF Head(todo).moves
     THEN /\ line[w].target = Head(todo).to
          /\ want = Trail(Head(todo).to) \o Carry(origin, Ofs(Tail(todo)))
     ELSE /\ line[w].target = line[w].id /\ origin[line[w].id] = origin[Head(todo).of]
          /\ want = Trail(leaf) \o Carry(origin, Ofs(todo))

Going == \A w \in ToSet(lock) :
           /\ line[w].parent = leaf
           /\ origin[line[w].id] \notin ToSet(Trail(leaf))
           /\ IF job[w].takes = {} THEN Moving(w) ELSE Withdrawing(w)

Off(l) == away \cap ToSet(Trail(l)) = {}

\* What was withdrawn is off the path of the leaf, of the leaf the next open would find, and of what
\* the task at the lock will make the leaf.
KeptOff ==
  damage = 0 =>
    /\ Off(leaf) /\ Off(LastTarget(Readable(file)))
    /\ \A w \in ToSet(lock) :
         IF job[w].takes = {} THEN IF Head(job[w].todo).moves THEN Off(Head(job[w].todo).to)
                                                               ELSE origin[line[w].id] \notin away
         ELSE away \cap ToSet(job[w].want) = {}

Solo == ~Awaits => Aged /\ Once /\ Going /\ KeptOff

IInv == Inv /\ Solo

-----------------------------------------------------------------------------
\* The bound on what is built.

LEMMA Bounds ==
  ASSUME TypeOK
  PROVE  /\ scope.entries \in 0..MaxEntries /\ MaxEntries \in Nat
         /\ IsFiniteSet(Later) /\ Cardinality(Later) \in Nat
         /\ built \in Nat /\ Owed \in Nat
<1>1. scope.entries \in 0..MaxEntries /\ MaxEntries \in Nat /\ IsFiniteSet(Writers)
  BY StoreAssumption DEF TypeOK
<1>2. IsFiniteSet(2..MaxEntries)
  BY <1>1, FS_Interval
<1>3. IsFiniteSet(Writers \X (2..MaxEntries))
  BY <1>1, <1>2, FS_Product
<1>4. Later \in SUBSET (Writers \X (2..MaxEntries))
  BY DEF Later
<1>5. IsFiniteSet(Later)
  BY <1>3, <1>4, FS_Subset
<1>6. Cardinality(Later) \in Nat
  BY <1>5, FS_CardinalityType
<1> QED
  BY <1>1, <1>5, <1>6 DEF TypeOK, Owed

LEMMA LaterIs ==
  ASSUME TypeOK, NEW w \in Writers, NEW i \in 2..MaxEntries
  PROVE  <<w, i>> \in Later <=> i <= Len(job[w].todo)
BY DEF Later

\* Calls that end, or fail, owe nothing more.
LEMMA RoomLess ==
  ASSUME TypeOK, Room, scope' = scope, built' = built,
         \A w \in Writers : job'[w].todo \in {<<>>, job[w].todo}
  PROVE  Room'
<1>1. IsFiniteSet(Later) /\ Cardinality(Later) \in Nat /\ built \in Nat
  BY Bounds
<1>2. Later' \in SUBSET Later
  <2>1. ASSUME NEW p \in Writers \X (2..MaxEntries), p[2] <= Len(job'[p[1]].todo)
        PROVE  p[2] <= Len(job[p[1]].todo)
    <3>1. p[1] \in Writers /\ p[2] \in 2..MaxEntries
      OBVIOUS
    <3>2. Len(<<>>) = 0
      OBVIOUS
    <3>3. ~(p[2] <= 0)
      BY <3>1
    <3> QED
      BY <2>1, <3>1, <3>2, <3>3
  <2> QED
    BY <2>1 DEF Later
<1>3. Cardinality(Later') <= Cardinality(Later) /\ Cardinality(Later') \in Nat
  <2>1. IsFiniteSet(Later') /\ Cardinality(Later') <= Cardinality(Later)
    BY ONLY <1>1, <1>2, FS_Subset
  <2> QED
    BY <2>1, FS_CardinalityType
<1>4. scope.entries \in Nat
  BY Bounds
<1> QED
  BY <1>1, <1>3, <1>4 DEF Room, Owed

\* A call that begins: the entry it builds, and those it owes.
LEMMA RoomMore ==
  ASSUME TypeOK, NEW w \in Writers, job[w].todo = <<>>, NEW calls \in Seq(Call), calls # <<>>,
         Owed + Len(calls) <= scope.entries,
         scope' = scope, built' = built + 1,
         \A v \in Writers : job'[v].todo = IF v = w THEN calls ELSE job[v].todo
  PROVE  Room' /\ Len(calls) <= MaxEntries /\ built + 1 \in Ids
<1>1. /\ IsFiniteSet(Later) /\ Cardinality(Later) \in Nat /\ built \in Nat /\ Owed \in Nat
      /\ scope.entries \in 0..MaxEntries /\ MaxEntries \in Nat
  BY Bounds
<1> DEFINE n == Len(calls)
           more == {w} \X (2..n)
<1>2. n \in Nat /\ n >= 1
  OBVIOUS
<1>3. n <= MaxEntries /\ built + 1 \in Ids
  <2> HIDE DEF n
  <2>1. Owed >= built
    BY <1>1 DEF Owed
  <2> QED
    BY <1>1, <1>2, <2>1 DEF Ids, n
<1>4. IsFiniteSet(more) /\ Cardinality(more) = n - 1
  <2> HIDE DEF n
  <2>1. IsFiniteSet(2..n) /\ Cardinality(2..n) = n - 1
    <3>1. /\ IsFiniteSet(2..n)
          /\ Cardinality(2..n) = IF 2 > n THEN 0 ELSE n - 2 + 1
      BY <1>2, FS_Interval
    <3> QED
      BY <1>2, <3>1
  <2>2. IsFiniteSet({w}) /\ Cardinality({w}) = 1
    BY FS_Singleton
  <2>3. IsFiniteSet(more) /\ Cardinality(more) = Cardinality({w}) * Cardinality(2..n)
    BY ZenonT(30), <2>1, <2>2, FS_Product
  <2>4. 1 * (n - 1) = n - 1
    BY <1>2
  <2> HIDE DEF more
  <2> QED
    BY <2>1, <2>2, <2>3, <2>4
<1>5. Later' \subseteq Later \cup more
  <2>1. ASSUME NEW p \in Writers \X (2..MaxEntries), p[2] <= Len(job'[p[1]].todo) PROVE p \in Later \cup more
    <3>1. p[1] \in Writers /\ p[2] \in 2..MaxEntries /\ p = <<p[1], p[2]>>
      OBVIOUS
    <3>2. CASE p[1] = w
      <4>1. p[2] <= n
        BY <2>1, <3>1, <3>2
      <4>2. p[2] \in 2..n
        BY <1>2, <3>1, <4>1
      <4> QED
        BY <3>1, <3>2, <4>2
    <3>3. CASE p[1] # w
      BY <2>1, <3>1, <3>3 DEF Later
    <3> QED
      BY <3>2, <3>3
  <2> QED
    BY <2>1 DEF Later
<1> HIDE DEF more, n
<1>6. IsFiniteSet(Later \cup more) /\ Cardinality(Later \cup more) <= Cardinality(Later) + (n - 1)
  <2>1. /\ IsFiniteSet(Later \cup more)
        /\ Cardinality(Later \cup more) = Cardinality(Later) + Cardinality(more) - Cardinality(Later \cap more)
    BY <1>1, <1>4, FS_Union
  <2>2. IsFiniteSet(Later \cap more)
    BY <1>1, FS_Intersection
  <2>3. Cardinality(Later \cap more) \in Nat
    BY <2>2, FS_CardinalityType
  <2> QED
    BY <1>1, <1>2, <1>4, <2>1, <2>3
<1>7. Cardinality(Later') <= Cardinality(Later) + (n - 1) /\ Cardinality(Later') \in Nat
  <2>1. Later' \in SUBSET (Later \cup more)
    BY <1>5
  <2>2. IsFiniteSet(Later') /\ Cardinality(Later') <= Cardinality(Later \cup more)
    BY ONLY <1>6, <2>1, FS_Subset
  <2>3. Cardinality(Later') \in Nat
    BY <2>2, FS_CardinalityType
  <2>4. Cardinality(Later \cup more) \in Nat
    BY <1>6, FS_CardinalityType
  <2> QED
    BY <1>1, <1>2, <1>6, <2>2, <2>3, <2>4
<1>8. Room'
  <2>1. Owed + n <= scope.entries
    BY DEF n
  <2>2. Owed' = (built + 1) + Cardinality(Later') /\ Owed = built + Cardinality(Later)
    BY DEF Owed
  <2>3. scope'.entries = scope.entries
    OBVIOUS
  <2>4. Owed' <= Owed + n
    BY ONLY <1>1, <1>2, <1>7, <2>2
  <2>5. Owed' \in Nat
    BY ONLY <1>1, <1>7, <2>2
  <2> QED
    BY ONLY <1>1, <1>2, <2>1, <2>3, <2>4, <2>5 DEF Room
<1> QED
  BY <1>3, <1>8 DEF n

\* A call that goes on: what it owed is built.
LEMMA RoomNext ==
  ASSUME TypeOK, Room, NEW w \in Writers, Len(job[w].todo) \in 2..MaxEntries,
         scope' = scope, built' = built + 1,
         \A v \in Writers : job'[v].todo = IF v = w THEN Tail(job[w].todo) ELSE job[v].todo
  PROVE  Room' /\ built + 1 \in Ids
<1>1. /\ IsFiniteSet(Later) /\ Cardinality(Later) \in Nat /\ built \in Nat
      /\ scope.entries \in 0..MaxEntries /\ MaxEntries \in Nat
  BY Bounds
<1> DEFINE n == Len(job[w].todo)
<1>2. <<w, n>> \in Later
  BY LaterIs
<1>3. Later' \subseteq Later \ {<<w, n>>}
  <2>0. job[w].todo \in Seq(Call)
    BY DEF TypeOK
  <2>1. Len(Tail(job[w].todo)) = n - 1
    <3>1. job[w].todo # <<>>
      <4>1. Len(<<>>) = 0
        OBVIOUS
      <4> QED
        BY <4>1
    <3> QED
      BY <2>0, <3>1, HeadTailProperties
  <2>2. ASSUME NEW p \in Writers \X (2..MaxEntries), p[2] <= Len(job'[p[1]].todo)
        PROVE  p \in Later \ {<<w, n>>}
    <3>1. p[1] \in Writers /\ p[2] \in 2..MaxEntries /\ p = <<p[1], p[2]>>
      OBVIOUS
    <3>2. CASE p[1] = w
      <4>1. p[2] <= n - 1
        BY <2>1, <2>2, <3>1, <3>2
      <4>2. p[2] <= n /\ p[2] # n
        BY <3>1, <4>1
      <4> QED
        BY <3>1, <3>2, <4>2 DEF Later
    <3>3. CASE p[1] # w
      <4>1. p[2] <= Len(job[p[1]].todo)
        BY <2>2, <3>1, <3>3
      <4>2. p # <<w, n>>
        BY <3>1, <3>3
      <4> QED
        BY <4>1, <4>2 DEF Later
    <3> QED
      BY <3>2, <3>3
  <2> QED
    BY <2>2 DEF Later
<1> HIDE DEF n
<1>4. IsFiniteSet(Later \ {<<w, n>>}) /\ Cardinality(Later \ {<<w, n>>}) = Cardinality(Later) - 1
  BY <1>1, <1>2, FS_RemoveElement
<1>5. Cardinality(Later') <= Cardinality(Later) - 1 /\ Cardinality(Later') \in Nat
  <2>1. Later' \in SUBSET (Later \ {<<w, n>>})
    BY <1>3
  <2>2. IsFiniteSet(Later') /\ Cardinality(Later') <= Cardinality(Later \ {<<w, n>>})
    BY ONLY <1>4, <2>1, FS_Subset
  <2>3. Cardinality(Later') \in Nat
    BY <2>2, FS_CardinalityType
  <2> QED
    BY <1>4, <2>2, <2>3
<1>6. built + Cardinality(Later) <= scope.entries
  BY DEF Room, Owed
<1> QED
  BY <1>1, <1>5, <1>6 DEF Room, Owed, Ids

-----------------------------------------------------------------------------
\* The file grows by one line.

Landed(e) == file' = file \/ \E b \in BOOLEAN : file' = Append(file, [whole |-> b, entry |-> e])

LEMMA PutIs ==
  ASSUME TypeOK, Queued, up, NEW e \in Entry, NEW cut \in Cuts, Put(e, cut)
  PROVE  /\ Landed(e) /\ ends' \in BOOLEAN
         /\ cut = "line" => file' = Append(file, [whole |-> TRUE, entry |-> e]) /\ ends' = TRUE
<1>1. ends \/ heals
  BY DEF Queued
<1>2. file' = IF cut \in {"nothing", "newline"} THEN file ELSE Append(file, [whole |-> cut # "part", entry |-> e])
  BY <1>1 DEF Put, PutFile
<1>3. ends' \in BOOLEAN /\ (cut = "line" => ends' = TRUE)
  BY DEF Put, PutEnds, TypeOK, Cuts
<1>4. Landed(e)
  <2>1. (cut # "part") \in BOOLEAN
    OBVIOUS
  <2> QED
    BY <1>2, <2>1 DEF Landed
<1> QED
  BY <1>2, <1>3, <1>4

\* An entry that may be added to a file.
Fits(e, es) == /\ e.parent \in Known(es) \cup {Root} /\ e.parent < e.id
               /\ e.target \in Known(es) \cup {Root, e.id}
               /\ e.id \notin Known(es)

LEMMA FileGrows ==
  ASSUME NEW f \in Seq(Line), NEW l \in Line
  PROVE  /\ EntriesOf(f) \in Seq(Entry) /\ EntriesOf(Append(f, l)) \in Seq(Entry)
         /\ ToSet(EntriesOf(Append(f, l))) = ToSet(EntriesOf(f)) \cup {l.entry}
         /\ Known(EntriesOf(Append(f, l))) = Known(EntriesOf(f)) \cup {l.entry.id}
         /\ Hung(EntriesOf(f)) /\ Apart(EntriesOf(f)) /\ Rising(EntriesOf(f)) /\ Fits(l.entry, EntriesOf(f))
              => /\ Hung(EntriesOf(Append(f, l))) /\ Apart(EntriesOf(Append(f, l)))
                 /\ Rising(EntriesOf(Append(f, l)))
<1> DEFINE es == EntriesOf(f)
           e == l.entry
<1>1. es \in Seq(Entry) /\ e \in Entry /\ EntriesOf(Append(f, l)) = Append(es, e)
  BY EntriesMore DEF Line
<1> HIDE DEF es, e
<1>2. ToSet(Append(es, e)) = ToSet(es) \cup {e}
  BY <1>1, Members
<1>3. Known(Append(es, e)) = Known(es) \cup {e.id} /\ Known(es) = {d.id : d \in ToSet(es)}
  BY <1>1, KnownMore
<1>4. Append(es, e) \in Seq(Entry)
  BY <1>1
<1>5. ASSUME Hung(es), Apart(es), Rising(es), Fits(e, es)
      PROVE  Hung(Append(es, e)) /\ Apart(Append(es, e)) /\ Rising(Append(es, e))
  <2>1. Hung(Append(es, e))
    BY <1>1, <1>5, HungMore DEF Fits
  <2>2. Apart(Append(es, e))
    BY <1>2, <1>3, <1>5 DEF Fits, Apart
  <2>3. Rising(Append(es, e))
    BY <1>2, <1>5 DEF Fits, Rising
  <2> QED
    BY <2>1, <2>2, <2>3
<1> QED
  BY <1>1, <1>2, <1>3, <1>4, <1>5 DEF es, e

LEMMA Typed ==
  ASSUME TypeOK
  PROVE  /\ file \in Seq(Line) /\ All \in Seq(Entry) /\ entries \in Seq(Entry)
         /\ Readable(file) \in Seq(Entry) /\ ToSet(Readable(file)) \subseteq ToSet(All)
         /\ Known(All) = {e.id : e \in ToSet(All)} /\ Known(entries) = {e.id : e \in ToSet(entries)}
         /\ Known(Readable(file)) = {e.id : e \in ToSet(Readable(file))}
         /\ ToSet(All) \subseteq Entry /\ Known(All) \subseteq Ids
<1>1. file \in Seq(Line) /\ entries \in Seq(Entry)
  BY DEF TypeOK, Line
<1>2. All \in Seq(Entry)
  BY <1>1, EntriesFrom DEF All
<1>3. Readable(file) \in Seq(Entry) /\ ToSet(Readable(file)) \subseteq ToSet(All)
  BY <1>1, ReadableFacts DEF All
<1> QED
  BY <1>1, <1>2, <1>3, KnownIds

\* What waits for the lock fits.
LEMMA PendingFits ==
  ASSUME Inv, NEW w \in ToSet(lock)
  PROVE  /\ w \in Writers /\ line[w] \in Entry /\ Fits(line[w], All)
         /\ ToSet(entries) \subseteq ToSet(All) /\ Known(entries) \subseteq Known(All)
         /\ line[w] \notin ToSet(All)
<1>1. TypeOK /\ Queued /\ Fresh /\ Hanging /\ Pending
  BY DEF Inv
<1>2. ToSet(entries) \subseteq ToSet(All)
  BY <1>1 DEF Hanging
<1>3. Known(entries) \subseteq Known(All)
  BY <1>1, <1>2, Typed
<1>4. line[w].id \notin Known(All)
  BY <1>1 DEF Fresh
<1>5. line[w] \notin ToSet(All)
  BY <1>1, <1>4, Typed
<1>6. w \in Writers
  BY <1>1 DEF TypeOK, ToSet
<1>7. line[w] \in Entry
  BY <1>1 DEF Queued
<1>8. Fits(line[w], All)
  BY <1>1, <1>3, <1>4 DEF Fits, Pending
<1> QED
  BY <1>2, <1>3, <1>5, <1>6, <1>7, <1>8

\* One that lands without anybody knowing.
LEMMA Landing ==
  ASSUME Inv, NEW w \in ToSet(lock), Landed(line[w]), UNCHANGED <<entries, leaf, damage>>
  PROVE  /\ file' \in Seq(Line)
         /\ ToSet(All') \subseteq ToSet(All) \cup {line[w]} /\ Known(All') \subseteq Known(All) \cup {line[w].id}
         /\ Hanging' /\ Undamaged'
<1>1. TypeOK /\ Fresh /\ Hanging /\ Undamaged
  BY DEF Inv
<1>2. /\ w \in Writers /\ line[w] \in Entry /\ Fits(line[w], All)
      /\ ToSet(entries) \subseteq ToSet(All) /\ Known(entries) \subseteq Known(All)
      /\ line[w] \notin ToSet(All)
  BY PendingFits
<1>3. file \in Seq(Line) /\ Readable(file) \in Seq(Entry) /\ ToSet(Readable(file)) \subseteq ToSet(All)
  BY <1>1, Typed
<1>4. CASE file' = file
  BY <1>1, <1>3, <1>4 DEF All, Hanging, Undamaged
<1>5. ASSUME NEW b \in BOOLEAN, file' = Append(file, [whole |-> b, entry |-> line[w]])
      PROVE  /\ file' \in Seq(Line)
             /\ ToSet(All') \subseteq ToSet(All) \cup {line[w]} /\ Known(All') \subseteq Known(All) \cup {line[w].id}
             /\ Hanging' /\ Undamaged'
  <2> DEFINE e == line[w]
             l == [whole |-> b, entry |-> e]
  <2>1. l \in Line /\ l.entry = e /\ l.whole = b
    BY <1>2 DEF Line
  <2> HIDE DEF l
  <2>2. file' \in Seq(Line) /\ file' = Append(file, l)
    BY <1>3, <1>5, <2>1 DEF l
  <2>3. /\ ToSet(All') = ToSet(All) \cup {e} /\ Known(All') = Known(All) \cup {e.id}
        /\ Hung(All') /\ Apart(All') /\ Rising(All')
    BY <1>1, <1>2, <1>3, <2>1, <2>2, FileGrows DEF All, Hanging
  <2>4. Hanging'
    <3>1. ToSet(entries') \subseteq ToSet(All') /\ Closed(entries') /\ leaf' \in Known(entries') \cup {Root}
      BY <1>1, <2>3 DEF Hanging
    <3> QED
      BY <2>3, <3>1 DEF Hanging
  <2>5. Readable(file') = IF b THEN Append(Readable(file), e) ELSE Readable(file)
    BY <1>3, <2>1, <2>2, ReadableMore
  <2>6. Undamaged'
    <3>1. SUFFICES ASSUME damage = 0
                   PROVE  /\ ToSet(entries') \subseteq ToSet(Readable(file'))
                          /\ Hung(Readable(file'))
                          /\ IF Readable(file') = <<>> THEN leaf' = Root
                             ELSE Last(Readable(file')) \in ToSet(entries') => leaf' = LastTarget(Readable(file'))
      BY DEF Undamaged
    <3>2. /\ ToSet(entries) \subseteq ToSet(Readable(file)) /\ Hung(Readable(file))
          /\ IF Readable(file) = <<>> THEN leaf = Root
             ELSE Last(Readable(file)) \in ToSet(entries) => leaf = LastTarget(Readable(file))
      BY <1>1, <3>1 DEF Undamaged
    <3>3. CASE b
      <4> DEFINE r == Readable(file)
      <4>1. Readable(file') = Append(r, e)
        BY <2>5, <3>3
      <4>2. ToSet(Append(r, e)) = ToSet(r) \cup {e} /\ Known(Append(r, e)) = Known(r) \cup {e.id}
        BY <1>2, <1>3, Members, KnownMore
      <4>3. Known(entries) \subseteq Known(r)
        BY <1>1, <3>2, Typed
      <4>4. Hung(Append(r, e))
        <5>1. e.parent \in Known(entries) \cup {Root} /\ e.target \in Known(entries) \cup {Root, e.id}
          BY DEF Inv, Pending
        <5> QED
          BY <1>2, <1>3, <3>2, <4>3, <5>1, HungMore
      <4>5. Append(r, e) # <<>> /\ Last(Append(r, e)) = e
        BY <1>2, <1>3 DEF Last
      <4> HIDE DEF r
      <4>6. e \notin ToSet(entries)
        BY <1>2
      <4> QED
        BY <3>2, <4>1, <4>2, <4>4, <4>5, <4>6 DEF r
    <3>4. CASE ~b
      BY <2>5, <3>2, <3>4
    <3> QED
      BY <3>3, <3>4
  <2> QED
    BY <2>2, <2>3, <2>4, <2>6
<1> QED
  BY <1>4, <1>5 DEF Landed

-----------------------------------------------------------------------------
\* Calls that end without their entry.

Job == [todo : Seq(Call), takes : SUBSET Ids, want : Seq(Ids)]

LEMMA NoJobTyped == NoJob \in Job /\ NoJob.todo = <<>> /\ Len(NoJob.todo) = 0
BY DEF NoJob, Job

LEMMA Leaving ==
  ASSUME Inv, up, NEW w \in ToSet(lock), NEW q \in Seq(Writers),
         ToSet(q) = ToSet(lock) \ {w}, IsInjective(q), Len(q) <= Len(lock),
         Leaves(w, q), scope' = scope, faults' \in 0..MaxFaults, heals' \in BOOLEAN, ends' \in BOOLEAN,
         ends' \/ heals', Landed(line[w])
  PROVE  Inv'
<1>1. TypeOK /\ Queued /\ Room /\ Fresh /\ Pending
  BY DEF Inv
<1>2. /\ job' = [job EXCEPT ![w] = NoJob] /\ line' = [line EXCEPT ![w] = NoEntry] /\ lock' = q
      /\ UNCHANGED <<up, entries, leaf, built, origin, away, damage>>
  BY DEF Leaves
<1>3. /\ file' \in Seq(Line)
      /\ ToSet(All') \subseteq ToSet(All) \cup {line[w]} /\ Known(All') \subseteq Known(All) \cup {line[w].id}
      /\ Hanging' /\ Undamaged'
  BY <1>2, Landing
<1>4. w \in Writers /\ job \in [Writers -> Job] /\ line \in [Writers -> Entry \cup {NoEntry}]
  BY <1>1, PendingFits DEF TypeOK, Job
<1>5. /\ job'[w] = NoJob
      /\ \A v \in Writers : v # w => job'[v] = job[v] /\ line'[v] = line[v]
  BY <1>2, <1>4
<1>6. job' \in [Writers -> Job] /\ line' \in [Writers -> Entry \cup {NoEntry}]
  BY <1>2, <1>4, NoJobTyped
<1>7. \A v \in Writers : v \in ToSet(lock') <=> job'[v].todo # <<>>
  <2>1. \A v \in Writers : v \in ToSet(lock) <=> job[v].todo # <<>>
    BY <1>1 DEF TypeOK
  <2> QED
    BY <1>2, <1>5, <2>1, NoJobTyped
<1>8. TypeOK'
  <2>1. /\ scope \in Scopes /\ up \in BOOLEAN /\ entries \in Seq(Entry) /\ leaf \in Ids \cup {Root}
        /\ built \in 0..MaxEntries /\ origin \in [Ids -> Ids] /\ away \subseteq Ids
        /\ damage \in 0..MaxDamage
    BY <1>1 DEF TypeOK
  <2>2. MaxFaults' = MaxFaults /\ MaxDamage' = MaxDamage
    BY DEF MaxFaults, MaxDamage
  <2> QED
    BY <1>2, <1>3, <1>6, <1>7, <2>1, <2>2 DEF TypeOK, Line, Job
<1>9. \A v \in ToSet(q) : v \in ToSet(lock) /\ v \in Writers /\ v # w /\ line'[v] = line[v] /\ job'[v] = job[v]
  <2>1. \A v \in ToSet(lock) : v \in Writers
    BY PendingFits
  <2> QED
    BY <1>5, <2>1
<1>10. Queued'
  <2>1. \A v \in ToSet(lock') : line'[v] \in Entry
    BY <1>1, <1>2, <1>9 DEF Queued
  <2>2. \A v \in Writers : Len(job'[v].todo) <= MaxEntries
    <3>1. 0 <= MaxEntries
      BY <1>1, Bounds
    <3> QED
      BY <1>1, <1>5, <3>1, NoJobTyped DEF Queued
  <2>3. ~Awaits' => Len(lock') <= 1
    <3>1. Awaits' = Awaits
      BY DEF Awaits
    <3>2. Len(q) \in Nat /\ Len(lock) \in Nat
      BY <1>1 DEF TypeOK
    <3> QED
      BY <1>1, <1>2, <3>1, <3>2 DEF Queued
  <2> QED
    BY <1>2, <2>1, <2>2, <2>3 DEF Queued
<1>11. Room'
  BY <1>1, <1>2, <1>5, NoJobTyped, RoomLess
<1>12. Fresh'
  <2>1. \A e \in ToSet(All') : e.id <= built
    BY <1>1, <1>3 DEF Fresh
  <2>2. \A v \in ToSet(q) : line'[v].id <= built /\ line'[v].id \notin Known(All')
    BY <1>1, <1>3, <1>9 DEF Fresh
  <2>3. \A u, v \in ToSet(q) : line'[u].id = line'[v].id => u = v
    BY <1>1, <1>9 DEF Fresh
  <2> QED
    BY <1>2, <2>1, <2>2, <2>3 DEF Fresh
<1>13. Pending'
  BY <1>1, <1>2, <1>9 DEF Pending
<1> QED
  BY <1>3, <1>8, <1>10, <1>11, <1>12, <1>13 DEF Inv

\* The queue without its head, and without one of the others.
LEMMA QueueTail ==
  ASSUME NEW T, NEW s \in Seq(T), s # <<>>, IsInjective(s)
  PROVE  /\ Tail(s) \in Seq(T) /\ IsInjective(Tail(s)) /\ Head(s) \in ToSet(s)
         /\ ToSet(Tail(s)) = ToSet(s) \ {Head(s)} /\ Len(Tail(s)) <= Len(s) /\ Len(Tail(s)) = Len(s) - 1
<1> DEFINE n == Len(s)
           t == Tail(s)
<1>1. /\ n \in Nat /\ n >= 1 /\ DOMAIN s = 1..n /\ Head(s) = s[1]
      /\ t \in Seq(T) /\ Len(t) = n - 1 /\ DOMAIN t = 1..(n - 1)
      /\ \A i \in 1..(n - 1) : t[i] = s[i + 1]
  BY HeadTailProperties, LenProperties
<1> HIDE DEF n, t
<1>2. IsInjective(t)
  <2> SUFFICES ASSUME NEW i \in 1..(n - 1), NEW j \in 1..(n - 1), t[i] = t[j] PROVE i = j
    BY <1>1 DEF IsInjective
  <2>1. i + 1 \in 1..n /\ j + 1 \in 1..n /\ s[i + 1] = s[j + 1]
    BY <1>1
  <2>2. i + 1 = j + 1
    BY <1>1, <2>1 DEF IsInjective
  <2> QED
    BY <1>1, <2>2
<1>3. Head(s) \in ToSet(s)
  BY <1>1 DEF ToSet
<1>4. ToSet(t) \subseteq ToSet(s) \ {Head(s)}
  <2> SUFFICES ASSUME NEW i \in 1..(n - 1) PROVE t[i] \in ToSet(s) /\ t[i] # s[1]
    BY <1>1 DEF ToSet
  <2>1. i + 1 \in 1..n /\ 1 \in 1..n /\ i + 1 # 1
    BY <1>1
  <2> QED
    BY <1>1, <2>1 DEF IsInjective, ToSet
<1>5. ToSet(s) \ {Head(s)} \subseteq ToSet(t)
  <2> SUFFICES ASSUME NEW i \in 1..n, s[i] # s[1] PROVE s[i] \in ToSet(t)
    BY <1>1 DEF ToSet
  <2>1. i - 1 \in 1..(n - 1) /\ (i - 1) + 1 = i
    BY <1>1
  <2>2. t[i - 1] = s[i]
    BY <1>1, <2>1
  <2> QED
    BY <1>1, <2>1, <2>2 DEF ToSet
<1> QED
  BY <1>1, <1>2, <1>3, <1>4, <1>5 DEF n, t

LEMMA InjectiveMore ==
  ASSUME NEW T, NEW r \in Seq(T), NEW e \in T
  PROVE  IsInjective(Append(r, e)) <=> IsInjective(r) /\ e \notin ToSet(r)
<1>1. /\ Len(r) \in Nat /\ DOMAIN r = 1..Len(r) /\ DOMAIN Append(r, e) = 1..(Len(r) + 1)
      /\ Append(r, e)[Len(r) + 1] = e /\ \A i \in 1..Len(r) : Append(r, e)[i] = r[i]
  OBVIOUS
<1>2. \A i : i \in 1..(Len(r) + 1) <=> i \in 1..Len(r) \/ i = Len(r) + 1
  BY <1>1
<1>3. ~(Len(r) + 1 \in 1..Len(r))
  BY <1>1
<1> DEFINE t == Append(r, e)
<1> HIDE DEF t
<1>4. ASSUME IsInjective(t) PROVE IsInjective(r) /\ e \notin ToSet(r)
  <2>1. IsInjective(r)
    BY <1>1, <1>4 DEF IsInjective, t
  <2>2. ASSUME NEW i \in 1..Len(r), r[i] = e PROVE FALSE
    <3>1. i \in 1..(Len(r) + 1) /\ Len(r) + 1 \in 1..(Len(r) + 1) /\ i # Len(r) + 1
      BY <1>1
    <3> QED
      BY <1>1, <1>4, <2>2, <3>1 DEF IsInjective, t
  <2> QED
    BY <1>1, <2>1, <2>2 DEF ToSet
<1>5. ASSUME IsInjective(r), e \notin ToSet(r), NEW i \in DOMAIN t, NEW j \in DOMAIN t, t[i] = t[j] PROVE i = j
  <2>1. \A k \in 1..Len(r) : r[k] # e
    BY <1>1, <1>5 DEF ToSet
  <2>2. (i \in 1..Len(r) \/ i = Len(r) + 1) /\ (j \in 1..Len(r) \/ j = Len(r) + 1)
    BY <1>1, <1>2, <1>5 DEF t
  <2> QED
    BY <1>1, <1>5, <2>1, <2>2 DEF IsInjective, t
<1> QED
  BY <1>4, <1>5 DEF IsInjective, t

LEMMA QueueWithout ==
  ASSUME NEW T, NEW s \in Seq(T), NEW S, IsInjective(s)
  PROVE  IsInjective(Without(s, S)) /\ Len(Without(s, S)) <= Len(s)
<1> DEFINE Ok(q) == Len(Without(q, S)) <= Len(q) /\ (IsInjective(q) => IsInjective(Without(q, S)))
           P == {q \in Seq(T) : Ok(q)}
<1>1. <<>> \in P
  <2>1. <<>> \in Seq(T)
    OBVIOUS
  <2> QED
    BY <2>1, WithoutNothing
<1>2. ASSUME NEW q \in Seq(T), q \in P, NEW e \in T PROVE Append(q, e) \in P
  <2>0. Append(q, e) \in Seq(T) /\ Len(Append(q, e)) = Len(q) + 1 /\ Len(q) \in Nat
    OBVIOUS
  <2>1. Without(Append(q, e), S) = IF e \in S THEN Without(q, S) ELSE Append(Without(q, S), e)
    BY WithoutMore
  <2>2. Without(q, S) \in Seq(T) /\ ToSet(Without(q, S)) = ToSet(q) \ S
    BY WithoutFacts
  <2>3. Ok(q)
    BY <1>2
  <2>5. IsInjective(Append(q, e)) <=> IsInjective(q) /\ e \notin ToSet(q)
    BY InjectiveMore
  <2>6. IsInjective(Append(Without(q, S), e)) <=> IsInjective(Without(q, S)) /\ e \notin ToSet(Without(q, S))
    BY <2>2, InjectiveMore
  <2>7. CASE e \in S
    <3>1. Len(Without(q, S)) \in Nat
      BY <2>2
    <3> QED
      BY <2>0, <2>1, <2>3, <2>5, <2>7, <3>1
  <2>8. CASE e \notin S
    <3>1. Len(Without(q, S)) \in Nat /\ Len(Append(Without(q, S), e)) = Len(Without(q, S)) + 1
      BY <2>2
    <3>2. Len(Append(Without(q, S), e)) <= Len(Append(q, e))
      BY <2>0, <2>3, <3>1
    <3>3. IsInjective(Append(q, e)) => IsInjective(Append(Without(q, S), e))
      BY <2>2, <2>3, <2>5, <2>6
    <3> QED
      BY <2>0, <2>1, <2>8, <3>2, <3>3
  <2> QED
    BY <2>7, <2>8
<1> HIDE DEF P
<1>3. s \in P
  BY <1>1, <1>2, Growing
<1> QED
  BY <1>3 DEF P

LEMMA Counted ==
  ASSUME TypeOK
  PROVE  /\ faults < MaxFaults /\ faults' = faults + 1 => faults' \in 0..MaxFaults
         /\ faults' = faults => faults' \in 0..MaxFaults
         /\ damage < MaxDamage /\ damage' = damage + 1 => damage' \in 0..MaxDamage /\ damage' # 0
         /\ MaxFaults \in Nat /\ MaxDamage \in Nat
<1>1. MaxFaults \in Nat /\ MaxDamage \in Nat /\ faults \in 0..MaxFaults /\ damage \in 0..MaxDamage
  BY StoreAssumption DEF TypeOK, MaxFaults, MaxDamage
<1> HIDE DEF MaxFaults, MaxDamage
<1> QED
  BY <1>1

LEMMA AtHead ==
  ASSUME Inv, NEW w, Holds(w)
  PROVE  /\ up /\ w \in ToSet(lock) /\ w = Head(lock) /\ lock # <<>>
         /\ Tail(lock) \in Seq(Writers) /\ IsInjective(Tail(lock)) /\ ToSet(Tail(lock)) = ToSet(lock) \ {w}
         /\ Len(Tail(lock)) <= Len(lock) /\ Len(Tail(lock)) = Len(lock) - 1
<1>1. lock \in Seq(Writers) /\ IsInjective(lock)
  BY DEF Inv, TypeOK
<1>2. up /\ lock # <<>> /\ Head(lock) = w
  BY DEF Holds
<1> QED
  BY <1>1, <1>2, QueueTail

LEMMA FailsKeeps ==
  ASSUME Inv, NEW w, Fails(w), scope' = scope
  PROVE  Inv'
<1>1. /\ up /\ w \in ToSet(lock) /\ Tail(lock) \in Seq(Writers) /\ IsInjective(Tail(lock))
      /\ ToSet(Tail(lock)) = ToSet(lock) \ {w} /\ Len(Tail(lock)) <= Len(lock)
  BY AtHead DEF Fails
<1>2. PICK cut \in Cuts : Put(line[w], cut)
  BY DEF Fails
<1>3. Landed(line[w]) /\ ends' \in BOOLEAN
  BY <1>1, <1>2, PutIs, PendingFits DEF Inv
<1>4. faults' \in 0..MaxFaults
  BY Counted DEF Fails, Inv
<1>5. heals' = TRUE /\ Leaves(w, Tail(lock))
  BY DEF Fails, Rearmed
<1> QED
  BY <1>1, <1>3, <1>4, <1>5, Leaving

LEMMA LeftAlone ==
  ASSUME Inv, up, file' = file, ends' = ends, heals' = heals
  PROVE  ends' \/ heals'
<1>1. ends \in BOOLEAN /\ heals \in BOOLEAN /\ (ends \/ heals)
  BY DEF Inv, TypeOK, Queued
<1> QED
  BY <1>1

LEMMA RefusesKeeps ==
  ASSUME Inv, NEW w, Refuses(w), scope' = scope
  PROVE  Inv'
<1>1. /\ up /\ w \in ToSet(lock) /\ Tail(lock) \in Seq(Writers) /\ IsInjective(Tail(lock))
      /\ ToSet(Tail(lock)) = ToSet(lock) \ {w} /\ Len(Tail(lock)) <= Len(lock)
  BY AtHead DEF Refuses
<1>2. heals' \in BOOLEAN /\ ends' \in BOOLEAN /\ (ends' \/ heals') /\ Landed(line[w])
  <2>1. file' = file /\ ends' = ends /\ heals' = heals
    BY DEF Refuses, disk
  <2>2. heals' \in BOOLEAN /\ ends' \in BOOLEAN
    <3>1. heals \in BOOLEAN /\ ends \in BOOLEAN
      BY DEF Inv, TypeOK
    <3> QED
      BY <2>1, <3>1
  <2>3. ends' \/ heals'
    BY Zenon, <1>1, <2>1, LeftAlone
  <2>4. Landed(line[w])
    BY <2>1 DEF Landed
  <2> QED
    BY <2>2, <2>3, <2>4
<1>3. faults' \in 0..MaxFaults
  BY Counted DEF Refuses, Inv
<1>4. Leaves(w, Tail(lock))
  BY DEF Refuses
<1> QED
  BY <1>1, <1>2, <1>3, <1>4, Leaving

LEMMA GivesUpKeeps ==
  ASSUME Inv, NEW w, GivesUp(w), scope' = scope
  PROVE  Inv'
<1>1. up /\ w \in ToSet(lock)
  BY DEF GivesUp
<1>2. lock \in Seq(Writers) /\ IsInjective(lock)
  BY DEF Inv, TypeOK
<1> DEFINE q == Without(lock, {w})
<1>3. q \in Seq(Writers) /\ ToSet(q) = ToSet(lock) \ {w} /\ IsInjective(q) /\ Len(q) <= Len(lock)
  BY <1>2, WithoutFacts, QueueWithout
<1>4. heals' \in BOOLEAN /\ ends' \in BOOLEAN /\ (ends' \/ heals') /\ Landed(line[w])
  <2>1. file' = file /\ ends' = ends /\ heals' = heals
    BY DEF GivesUp, disk
  <2>2. heals' \in BOOLEAN /\ ends' \in BOOLEAN
    <3>1. heals \in BOOLEAN /\ ends \in BOOLEAN
      BY DEF Inv, TypeOK
    <3> QED
      BY <2>1, <3>1
  <2>3. ends' \/ heals'
    BY Zenon, <1>1, <2>1, LeftAlone
  <2>4. Landed(line[w])
    BY <2>1 DEF Landed
  <2> QED
    BY <2>2, <2>3, <2>4
<1>5. faults' \in 0..MaxFaults
  BY Counted DEF GivesUp, Inv
<1>6. Leaves(w, q)
  BY DEF GivesUp
<1> HIDE DEF q
<1> QED
  BY <1>1, <1>3, <1>4, <1>5, <1>6, Leaving

LEMMA CrashKeeps ==
  ASSUME Inv, Crash, scope' = scope
  PROVE  Inv'
<1>1. TypeOK /\ Queued /\ Room /\ Fresh /\ Hanging /\ Undamaged
  BY DEF Inv
<1>2. /\ up /\ up' = FALSE /\ faults' = faults + 1 /\ faults < MaxFaults
      /\ lock' = <<>> /\ job' = [w \in Writers |-> NoJob] /\ line' = [w \in Writers |-> NoEntry]
      /\ entries' = entries /\ leaf' = leaf /\ heals' = heals
      /\ UNCHANGED <<built, origin, away, damage>>
  BY DEF Crash, memory
<1>3. /\ file' \in Seq(Line) /\ ends' \in BOOLEAN
      /\ \A e \in ToSet(All') : e.id <= built
      /\ Hanging' /\ Undamaged'
  <2>1. CASE lock = <<>>
    <3>1. file' = file /\ ends' = ends
      BY <2>1 DEF Crash, disk
    <3>2. file' \in Seq(Line) /\ ends' \in BOOLEAN
      BY <1>1, <3>1, Typed DEF TypeOK
    <3>3. All' = All
      BY <3>1 DEF All
    <3> QED
      BY <1>1, <1>2, <3>1, <3>2, <3>3 DEF Hanging, Undamaged, Fresh
  <2>2. CASE lock # <<>>
    <3>1. PICK cut \in Cuts : Put(line[Head(lock)], cut)
      BY <2>2 DEF Crash
    <3>2. Head(lock) \in ToSet(lock)
      BY <1>1, <2>2, QueueTail DEF TypeOK
    <3>3. Landed(line[Head(lock)]) /\ ends' \in BOOLEAN
      BY <1>1, <1>2, <3>1, <3>2, PutIs, PendingFits
    <3>4. /\ file' \in Seq(Line) /\ ToSet(All') \subseteq ToSet(All) \cup {line[Head(lock)]}
          /\ Hanging' /\ Undamaged'
      BY <1>2, <3>2, <3>3, Landing
    <3>5. line[Head(lock)].id <= built
      BY <1>1, <3>2 DEF Fresh
    <3> QED
      BY <1>1, <3>3, <3>4, <3>5 DEF Fresh
  <2> QED
    BY <2>1, <2>2
<1>4. ToSet(lock') = {}
  BY <1>2 DEF ToSet
<1>5. lock' \in Seq(Writers) /\ IsInjective(lock') /\ Len(lock') = 0
  BY <1>2 DEF IsInjective
<1>6. \A v \in Writers : job'[v] = NoJob
  BY <1>2
<1>7. faults' \in 0..MaxFaults
  BY <1>1, <1>2, Counted
<1>8. TypeOK'
  <2>1. /\ scope \in Scopes /\ entries \in Seq(Entry) /\ leaf \in Ids \cup {Root} /\ heals \in BOOLEAN
        /\ built \in 0..MaxEntries /\ origin \in [Ids -> Ids] /\ away \subseteq Ids
        /\ damage \in 0..MaxDamage
    BY <1>1 DEF TypeOK
  <2>2. MaxFaults' = MaxFaults /\ MaxDamage' = MaxDamage
    BY DEF MaxFaults, MaxDamage
  <2>3. job' \in [Writers -> Job] /\ line' \in [Writers -> Entry \cup {NoEntry}]
    BY <1>2, NoJobTyped
  <2>4. \A v \in Writers : v \in ToSet(lock') <=> job'[v].todo # <<>>
    BY <1>4, <1>6, NoJobTyped
  <2> QED
    BY <1>2, <1>3, <1>5, <1>7, <2>1, <2>2, <2>3, <2>4 DEF TypeOK, Line, Job
<1>9. Queued'
  <2>1. 0 <= MaxEntries
    BY <1>1, Bounds
  <2> QED
    BY <1>2, <1>4, <1>5, <1>6, <2>1, NoJobTyped DEF Queued
<1>10. Room'
  BY <1>1, <1>2, <1>6, NoJobTyped, RoomLess
<1>11. Fresh' /\ Pending'
  BY <1>2, <1>3, <1>4 DEF Fresh, Pending
<1> QED
  BY <1>3, <1>8, <1>9, <1>10, <1>11 DEF Inv

LEMMA ReopenKeeps ==
  ASSUME Inv, Reopen, scope' = scope
  PROVE  Inv'
<1>1. TypeOK /\ Queued /\ Room /\ Fresh /\ Hanging /\ Undamaged
  BY DEF Inv
<1>2. /\ ~up /\ up' = TRUE /\ entries' = LoadedEntries(file) /\ leaf' = LoadedLeaf(file) /\ heals' = ~ends
      /\ file' = file /\ ends' = ends /\ lock' = lock /\ job' = job /\ line' = line
      /\ built' = built /\ origin' = origin /\ away' = away /\ faults' = faults /\ damage' = damage
  BY DEF Reopen, HealsAtOpen, disk, bounds
<1>3. lock = <<>> /\ ToSet(lock) = {}
  BY <1>1, <1>2 DEF Queued, ToSet
<1>4. /\ entries' \in Seq(Entry) /\ ToSet(entries') \subseteq ToSet(All)
      /\ leaf' \in Ids \cup {Root}
      /\ Closed(entries') /\ leaf' \in Known(entries') \cup {Root}
      /\ Hung(Readable(file)) => entries' = Readable(file) /\ leaf' = LastTarget(Readable(file))
  BY <1>1, <1>2, Typed, Loaded DEF Hanging, All
<1>5. All' = All
  BY <1>2 DEF All
<1>6. TypeOK'
  <2>1. heals' \in BOOLEAN
    BY <1>2
  <2>2. MaxFaults' = MaxFaults /\ MaxDamage' = MaxDamage
    BY DEF MaxFaults, MaxDamage
  <2> QED
    BY <1>1, <1>2, <1>4, <2>1, <2>2 DEF TypeOK
<1>7. Queued'
  <2>1. Awaits' = Awaits
    BY DEF Awaits
  <2> QED
    BY <1>1, <1>2, <1>3, <2>1 DEF Queued
<1>8. Room'
  BY <1>1, <1>2, RoomLess
<1>9. Fresh' /\ Pending'
  BY <1>1, <1>2, <1>3, <1>5 DEF Fresh, Pending
<1>10. Hanging'
  BY <1>1, <1>4, <1>5 DEF Hanging
<1>11. Undamaged'
  <2> SUFFICES ASSUME damage = 0
               PROVE  /\ ToSet(entries') \subseteq ToSet(Readable(file'))
                      /\ Hung(Readable(file'))
                      /\ IF Readable(file') = <<>> THEN leaf' = Root
                         ELSE Last(Readable(file')) \in ToSet(entries') => leaf' = LastTarget(Readable(file'))
    BY <1>2 DEF Undamaged
  <2>1. Hung(Readable(file)) /\ file' = file
    BY <1>1, <1>2 DEF Undamaged
  <2> QED
    BY <1>4, <2>1 DEF LastTarget
<1> QED
  BY <1>6, <1>7, <1>8, <1>9, <1>10, <1>11 DEF Inv

LEMMA DamageKeeps ==
  ASSUME Inv, Damage, scope' = scope
  PROVE  Inv' /\ All' = All /\ damage' # 0
<1>1. TypeOK /\ Queued /\ Room /\ Fresh /\ Hanging /\ Pending
  BY DEF Inv
<1>2. /\ ends' = ends /\ up' = up /\ entries' = entries /\ leaf' = leaf /\ heals' = heals
      /\ lock' = lock /\ job' = job /\ line' = line
      /\ built' = built /\ origin' = origin /\ away' = away /\ faults' = faults
      /\ damage < MaxDamage /\ damage' = damage + 1
  BY DEF Damage, memory
<1>3. damage' \in 0..MaxDamage /\ damage' # 0
  BY <1>1, <1>2, Counted
<1>4. PICK i \in DOMAIN file : file' = [file EXCEPT ![i].whole = FALSE]
  BY DEF Damage
<1>5. file' \in Seq(Line) /\ EntriesOf(file') = EntriesOf(file)
  <2>0. file \in Seq(Line)
    BY <1>1, Typed
  <2>1. file[i] \in Line /\ i \in 1..Len(file) /\ DOMAIN file = 1..Len(file)
    BY <2>0
  <2>2. file' = [file EXCEPT ![i] = [file[i] EXCEPT !.whole = FALSE]]
    BY <1>4
  <2>3. [file[i] EXCEPT !.whole = FALSE] \in Line /\ [file[i] EXCEPT !.whole = FALSE].entry = file[i].entry
    BY <2>1 DEF Line
  <2>4. file' \in Seq(Line)
    BY <2>0, <2>1, <2>2, <2>3, ExceptSeq
  <2>5. DOMAIN file' = DOMAIN file /\ \A j \in DOMAIN file : file'[j].entry = file[j].entry
    BY <2>0, <2>1, <2>2, <2>3
  <2> QED
    BY <2>4, <2>5 DEF EntriesOf
<1>6. All' = All
  BY <1>5 DEF All
<1>7. TypeOK'
  <2>2. MaxFaults' = MaxFaults /\ MaxDamage' = MaxDamage
    BY DEF MaxFaults, MaxDamage
  <2> QED
    BY <1>1, <1>2, <1>3, <1>5, <2>2 DEF TypeOK, Line
<1>8. Queued'
  <2>1. Awaits' = Awaits
    BY DEF Awaits
  <2> QED
    BY <1>1, <1>2, <2>1 DEF Queued
<1>9. Room'
  BY <1>1, <1>2, RoomLess
<1>10. Fresh' /\ Pending' /\ Hanging'
  BY <1>1, <1>2, <1>6 DEF Fresh, Pending, Hanging
<1>11. Undamaged'
  BY <1>3 DEF Undamaged
<1> QED
  BY <1>3, <1>6, <1>7, <1>8, <1>9, <1>10, <1>11 DEF Inv

LEMMA Initially == Init => Inv
<1> SUFFICES ASSUME Init PROVE Inv
  OBVIOUS
<1>1. /\ scope \in Scopes
      /\ file = <<>> /\ ends = TRUE /\ up = TRUE
      /\ entries = <<>> /\ leaf = Root /\ heals = FALSE
      /\ lock = <<>> /\ job = [w \in Writers |-> NoJob] /\ line = [w \in Writers |-> NoEntry]
      /\ built = 0 /\ origin = [i \in Ids |-> i] /\ away = {}
      /\ faults = 0 /\ damage = 0
  BY DEF Init
<1>2. \A v \in Writers : job[v] = NoJob
  BY <1>1
<1>3. \A S : <<>> \in Seq(S) /\ ToSet(<<>>) = {} /\ IsInjective(<<>>) /\ Len(<<>>) = 0
  BY DEF ToSet, IsInjective
<1>4. MaxEntries \in Nat /\ MaxFaults \in Nat /\ MaxDamage \in Nat /\ scope.entries \in 0..MaxEntries
  BY <1>1, StoreAssumption DEF MaxFaults, MaxDamage
<1>5. TypeOK
  <2>1. job \in [Writers -> Job] /\ line \in [Writers -> Entry \cup {NoEntry}]
    BY <1>1, NoJobTyped
  <2>2. \A v \in Writers : v \in ToSet(lock) <=> job[v].todo # <<>>
    BY <1>1, <1>2, <1>3, NoJobTyped
  <2>3. 0 \in 0..MaxFaults /\ 0 \in 0..MaxDamage /\ 0 \in 0..MaxEntries
    BY <1>4
  <2>4. origin \in [Ids -> Ids]
    BY <1>1
  <2> QED
    BY <1>1, <1>3, <2>1, <2>2, <2>3, <2>4 DEF TypeOK, Job
<1>6. All = <<>> /\ Known(entries) = {} /\ Readable(file) = <<>>
  BY <1>1, ReadableNothing DEF All, EntriesOf, Known
<1>7. Queued
  BY <1>1, <1>2, <1>3, <1>4, NoJobTyped DEF Queued
<1>8. Room
  <2>1. Later = {}
    <3>1. \A v \in Writers : Len(job[v].todo) = 0
      BY <1>2, NoJobTyped
    <3>2. ASSUME NEW p \in Writers \X (2..MaxEntries), p[2] <= Len(job[p[1]].todo) PROVE FALSE
      <4>1. p[1] \in Writers /\ p[2] \in 2..MaxEntries
        OBVIOUS
      <4>2. ~(p[2] <= 0)
        BY <1>4, <4>1
      <4> QED
        BY <3>1, <3>2, <4>1, <4>2
    <3> QED
      BY <3>2 DEF Later
  <2>2. Cardinality(Later) = 0
    BY <2>1, FS_EmptySet
  <2> QED
    BY <1>1, <1>4, <2>2 DEF Room, Owed
<1>9. Fresh /\ Pending
  BY <1>1, <1>3, <1>6 DEF Fresh, Pending
<1>10. Hanging
  BY <1>1, <1>3, <1>6, HungMore DEF Hanging, Hung, Apart, Rising, Closed
<1>11. Undamaged
  BY <1>1, <1>3, <1>6 DEF Undamaged, Hung
<1> QED
  BY <1>5, <1>7, <1>8, <1>9, <1>10, <1>11 DEF Inv

-----------------------------------------------------------------------------
\* The next entry of a call is built.

LEMMA Asking ==
  ASSUME TypeOK, Queued, Fresh, Pending, NEW w \in Writers, NEW q \in Seq(Writers), w \notin ToSet(q), IsInjective(q),
         ToSet(q) \subseteq ToSet(lock), NEW c \in Call, NEW l, Ask(w, c, l, q), built + 1 \in Ids,
         Known(entries') \subseteq Ids, Known(entries) \subseteq Known(entries'),
         \A i \in Known(entries') : i <= built,
         l \in Known(entries') \cup {Root}, c.to \in Known(entries') \cup {Root},
         \A e \in ToSet(All') : e.id \in Ids /\ e.id <= built, \A v \in ToSet(q) : line[v].id \notin Known(All'),
         Known(All') = {e.id : e \in ToSet(All')},
         \A v \in Writers : v # w => job'[v] = job[v],
         \A i \in DOMAIN job'[w].todo : job'[w].todo[i].to \in Known(entries') \cup {Root}
  PROVE  /\ lock' \in Seq(Writers) /\ IsInjective(lock') /\ ToSet(lock') = ToSet(q) \cup {w}
         /\ Len(lock') = Len(q) + 1
         /\ line' \in [Writers -> Entry \cup {NoEntry}] /\ \A v \in ToSet(lock') : line'[v] \in Entry
         /\ built' \in 0..MaxEntries /\ origin' \in [Ids -> Ids]
         /\ Fresh' /\ Pending'
         /\ line'[w] = [id |-> built + 1, parent |-> ParentOf(c, l, entries),
                        target |-> IF c.moves THEN c.to ELSE built + 1]
         /\ \A v \in Writers : v # w => line'[v] = line[v]
<1> DEFINE e == [id |-> built + 1, parent |-> ParentOf(c, l, entries), target |-> IF c.moves THEN c.to ELSE built + 1]
           o == IF c.of = Root THEN built + 1 ELSE origin[c.of]
<1>1. built' = built + 1 /\ line' = [line EXCEPT ![w] = e] /\ origin' = [origin EXCEPT ![built + 1] = o]
      /\ lock' = Append(q, w)
  BY DEF Ask
<1>2. lock' \in Seq(Writers) /\ IsInjective(lock') /\ ToSet(lock') = ToSet(q) \cup {w} /\ Len(lock') = Len(q) + 1
  BY <1>1, InjectiveMore, Members
<1>3. built \in 0..MaxEntries /\ built \in Nat /\ MaxEntries \in Nat /\ line \in [Writers -> Entry \cup {NoEntry}]
      /\ origin \in [Ids -> Ids]
  BY Bounds DEF TypeOK
<1>4. ParentOf(c, l, entries) \in Known(entries') \cup {Root}
  BY DEF ParentOf
<1>5. ParentOf(c, l, entries) \in Ids \cup {Root} /\ ParentOf(c, l, entries) < built + 1
  <2>1. Root < built + 1
    BY <1>3 DEF Root
  <2>2. \A i \in Known(entries') : i \in Ids /\ i < built + 1
    <3>1. \A i \in Ids : i \in Nat
      BY DEF Ids
    <3> QED
      BY <1>3, <3>1
  <2> QED
    BY <1>4, <2>1, <2>2
<1>6. e \in Entry /\ e.id = built + 1 /\ e.parent = ParentOf(c, l, entries)
      /\ e.target \in Known(entries') \cup {Root, e.id}
  <2>1. (IF c.moves THEN c.to ELSE built + 1) \in Known(entries') \cup {Root, built + 1}
    OBVIOUS
  <2>2. Known(entries') \cup {Root, built + 1} \subseteq Ids \cup {Root}
    OBVIOUS
  <2> QED
    BY <1>5, <2>1, <2>2 DEF Entry
<1> HIDE DEF e
<1>7. o \in Ids
  BY <1>3 DEF Call
<1> HIDE DEF o
<1>8. built' \in 0..MaxEntries /\ origin' \in [Ids -> Ids]
  <2>1. built' \in 0..MaxEntries
    BY <1>1, <1>3 DEF Ids
  <2>2. origin' \in [Ids -> Ids]
    BY <1>1, <1>3, <1>7
  <2> QED
    BY <2>1, <2>2
<1>9. line' \in [Writers -> Entry \cup {NoEntry}] /\ line'[w] = e /\ \A v \in Writers : v # w => line'[v] = line[v]
  BY <1>1, <1>3, <1>6
<1>10. \A v \in ToSet(q) : v \in Writers /\ v # w /\ v \in ToSet(lock) /\ line'[v] = line[v] /\ job'[v] = job[v]
  <2>1. ToSet(q) \subseteq Writers
    BY DEF ToSet
  <2> QED
    BY <1>9, <2>1
<1>11. \A v \in ToSet(lock') : line'[v] \in Entry
  BY <1>2, <1>6, <1>9, <1>10 DEF Queued
<1>12. Fresh'
  <2>1. \A i : i <= built /\ i \in Ids => i <= built + 1 /\ i # built + 1
    BY <1>3 DEF Ids
  <2>2. \A v \in ToSet(q) : line[v].id \in Ids /\ line[v].id <= built
    BY <1>10 DEF Fresh, Queued, Entry
  <2>3. \A d \in ToSet(All') : d.id <= built + 1 /\ d.id # built + 1
    BY <2>1
  <2>4. \A v \in ToSet(lock') : line'[v].id <= built' /\ line'[v].id \notin Known(All')
    BY <1>1, <1>2, <1>3, <1>6, <1>9, <1>10, <2>1, <2>2, <2>3
  <2>5. \A u, v \in ToSet(lock') : line'[u].id = line'[v].id => u = v
    BY <1>2, <1>6, <1>9, <1>10, <2>1, <2>2 DEF Fresh
  <2> QED
    BY <1>1, <2>3, <2>4, <2>5 DEF Fresh
<1>13. Pending'
  <2> SUFFICES ASSUME NEW v \in ToSet(lock')
               PROVE  /\ line'[v].parent \in Known(entries') \cup {Root} /\ line'[v].parent < line'[v].id
                      /\ line'[v].target \in Known(entries') \cup {Root, line'[v].id}
                      /\ \A i \in DOMAIN job'[v].todo : job'[v].todo[i].to \in Known(entries') \cup {Root}
    BY DEF Pending
  <2>1. CASE v = w
    BY <1>4, <1>5, <1>6, <1>9, <2>1
  <2>2. CASE v # w
    <3>1. v \in ToSet(lock) /\ line'[v] = line[v] /\ job'[v] = job[v]
      BY <1>2, <1>10, <2>2
    <3> QED
      BY <3>1 DEF Pending
  <2> QED
    BY <2>1, <2>2
<1> QED
  BY <1>2, <1>8, <1>9, <1>11, <1>12, <1>13 DEF e

\* A call begins.
LEMMA BeginKeeps ==
  ASSUME Inv, NEW w \in Writers, NEW calls \in Seq(Call), NEW takes \in SUBSET Ids, NEW want \in Seq(Ids),
         calls # <<>>, Begin(w, calls, takes, want), scope' = scope, away' \in SUBSET Ids,
         \A i \in DOMAIN calls : calls[i].to \in Known(entries) \cup {Root}
  PROVE  Inv'
<1>1. TypeOK /\ Queued /\ Room /\ Fresh /\ Hanging /\ Pending /\ Undamaged
  BY DEF Inv
<1>2. /\ up /\ job[w].todo = <<>> /\ (Awaits \/ lock = <<>>) /\ Owed + Len(calls) <= scope.entries
      /\ job' = [job EXCEPT ![w] = [todo |-> calls, takes |-> takes, want |-> want]]
      /\ Ask(w, Head(calls), leaf, lock)
      /\ file' = file /\ ends' = ends /\ up' = up /\ entries' = entries /\ leaf' = leaf /\ heals' = heals
      /\ faults' = faults /\ damage' = damage
  BY DEF Begin, disk, memory, bounds
<1>3. built' = built + 1
  BY <1>2 DEF Ask
<1>4. job \in [Writers -> Job] /\ lock \in Seq(Writers) /\ IsInjective(lock) /\ w \notin ToSet(lock)
  BY <1>1, <1>2 DEF TypeOK, Job
<1>5. /\ job' \in [Writers -> Job] /\ job'[w] = [todo |-> calls, takes |-> takes, want |-> want]
      /\ \A v \in Writers : v # w => job'[v] = job[v]
  <2>1. [todo |-> calls, takes |-> takes, want |-> want] \in Job
    BY DEF Job
  <2> QED
    BY <1>2, <1>4, <2>1
<1>6. job'[w].todo = calls
  BY <1>5
<1>7. Room' /\ Len(calls) <= MaxEntries /\ built + 1 \in Ids
  BY <1>1, <1>2, <1>3, <1>5, <1>6, RoomMore
<1>8. Head(calls) \in Call /\ Head(calls).to \in Known(entries) \cup {Root}
  <2>1. 1 \in DOMAIN calls /\ Head(calls) = calls[1]
    OBVIOUS
  <2> QED
    BY <2>1
<1>9. All' = All
  BY <1>2 DEF All
<1>10. /\ Known(entries) \subseteq Ids /\ \A i \in Known(entries) : i <= built
       /\ \A e \in ToSet(All) : e.id \in Ids /\ e.id <= built
       /\ \A v \in ToSet(lock) : line[v].id \notin Known(All)
       /\ Known(All) = {e.id : e \in ToSet(All)}
  <2>1. ToSet(entries) \subseteq ToSet(All) /\ \A e \in ToSet(All) : e.id <= built
    BY <1>1 DEF Hanging, Fresh
  <2>2. /\ Known(entries) = {e.id : e \in ToSet(entries)} /\ Known(All) = {e.id : e \in ToSet(All)}
        /\ Known(All) \subseteq Ids
    BY <1>1, Typed
  <2> QED
    BY <1>1, <2>1, <2>2 DEF Fresh
<1>11. /\ lock' \in Seq(Writers) /\ IsInjective(lock') /\ ToSet(lock') = ToSet(lock) \cup {w}
       /\ Len(lock') = Len(lock) + 1
       /\ line' \in [Writers -> Entry \cup {NoEntry}] /\ \A v \in ToSet(lock') : line'[v] \in Entry
       /\ built' \in 0..MaxEntries /\ origin' \in [Ids -> Ids]
       /\ Fresh' /\ Pending'
  <2>1. leaf \in Known(entries) \cup {Root}
    BY <1>1 DEF Hanging
  <2>2. \A i \in DOMAIN job'[w].todo : job'[w].todo[i].to \in Known(entries) \cup {Root}
    BY <1>6
  <2> QED
    BY <1>1, <1>2, <1>4, <1>5, <1>7, <1>8, <1>9, <1>10, <2>1, <2>2, Asking
<1>12. TypeOK'
  <2>1. \A v \in Writers : v \in ToSet(lock') <=> job'[v].todo # <<>>
    <3>1. \A v \in Writers : v \in ToSet(lock) <=> job[v].todo # <<>>
      BY <1>1 DEF TypeOK
    <3> QED
      BY <1>5, <1>6, <1>11, <3>1
  <2>2. MaxFaults' = MaxFaults /\ MaxDamage' = MaxDamage
    BY DEF MaxFaults, MaxDamage
  <2>3. /\ scope \in Scopes /\ file \in Seq([whole : BOOLEAN, entry : Entry]) /\ ends \in BOOLEAN
        /\ up \in BOOLEAN /\ entries \in Seq(Entry) /\ leaf \in Ids \cup {Root} /\ heals \in BOOLEAN
        /\ faults \in 0..MaxFaults /\ damage \in 0..MaxDamage
    BY <1>1 DEF TypeOK
  <2> QED
    BY <1>2, <1>5, <1>11, <2>1, <2>2, <2>3 DEF TypeOK, Job
<1>13. Queued'
  <2>1. ~Awaits' => Len(lock') <= 1
    <3>1. Awaits' = Awaits
      BY DEF Awaits
    <3>2. lock = <<>> => Len(lock) = 0
      OBVIOUS
    <3> QED
      BY <1>2, <1>11, <3>1, <3>2
  <2>2. \A v \in Writers : Len(job'[v].todo) <= MaxEntries
    BY <1>1, <1>5, <1>6, <1>7 DEF Queued
  <2> QED
    BY <1>1, <1>2, <1>11, <2>1, <2>2 DEF Queued
<1>14. Hanging' /\ Undamaged'
  BY <1>1, <1>2, <1>9 DEF Hanging, Undamaged
<1> QED
  BY <1>7, <1>11, <1>12, <1>13, <1>14 DEF Inv

LEMMA CallsTyped ==
  /\ New \in Call /\ New.to = Root /\ New.of = Root /\ ~New.moves /\ ~New.pinned
  /\ \A t \in Ids \cup {Root} : /\ MoveTo(t) \in Call /\ MoveTo(t).to = t /\ MoveTo(t).moves
                                /\ ~MoveTo(t).pinned /\ MoveTo(t).of = Root
                                /\ [New EXCEPT !.pinned = TRUE, !.to = t] \in Call
                                /\ [New EXCEPT !.pinned = TRUE, !.to = t].to = t
                                /\ [New EXCEPT !.pinned = TRUE, !.to = t].of = Root
                                /\ ~[New EXCEPT !.pinned = TRUE, !.to = t].moves
  /\ \A i \in Ids : /\ [New EXCEPT !.of = i] \in Call /\ [New EXCEPT !.of = i].to = Root
                    /\ [New EXCEPT !.of = i].of = i
                    /\ ~[New EXCEPT !.of = i].moves /\ ~[New EXCEPT !.of = i].pinned
BY DEF New, MoveTo, Call

LEMMA AppendEntryKeeps ==
  ASSUME Inv, NEW w \in Writers, AppendEntry(w), scope' = scope
  PROVE  Inv'
<1> DEFINE calls == <<New>>
<1>1. calls \in Seq(Call) /\ calls # <<>> /\ \A i \in DOMAIN calls : calls[i] = New
  <2>1. \A c \in Call : <<c>> \in Seq(Call) /\ <<c>> # <<>> /\ \A i \in DOMAIN <<c>> : <<c>>[i] = c
    OBVIOUS
  <2> QED
    BY <2>1, CallsTyped
<1>2. \A i \in DOMAIN calls : calls[i].to \in Known(entries) \cup {Root}
  BY <1>1, CallsTyped
<1>3. Begin(w, calls, {}, <<>>) /\ away' \in SUBSET Ids
  BY DEF AppendEntry, Inv, TypeOK
<1>4. {} \in SUBSET Ids /\ <<>> \in Seq(Ids)
  OBVIOUS
<1> HIDE DEF calls
<1> QED
  BY <1>1, <1>2, <1>3, <1>4, BeginKeeps

LEMMA MoveLeafKeeps ==
  ASSUME Inv, NEW w \in Writers, MoveLeaf(w), scope' = scope
  PROVE  Inv'
<1>1. PICK t \in Known(entries) \cup {Root}, summary \in BOOLEAN :
        /\ Begin(w, IF summary THEN <<MoveTo(t), [New EXCEPT !.pinned = TRUE, !.to = t]>> ELSE <<MoveTo(t)>>,
                 {}, <<>>)
        /\ away' = away \ ToSet(Contents(Path(entries, t)))
  BY DEF MoveLeaf
<1> DEFINE calls == IF summary THEN <<MoveTo(t), [New EXCEPT !.pinned = TRUE, !.to = t]>> ELSE <<MoveTo(t)>>
<1>2. t \in Ids \cup {Root}
  BY Typed, KnownIds DEF Inv
<1>3. calls \in Seq(Call) /\ calls # <<>> /\ \A i \in DOMAIN calls : calls[i].to = t
  <2>1. /\ MoveTo(t) \in Call /\ MoveTo(t).to = t
        /\ [New EXCEPT !.pinned = TRUE, !.to = t] \in Call
        /\ [New EXCEPT !.pinned = TRUE, !.to = t].to = t
    BY <1>2, CallsTyped
  <2>2. \A c, d \in Call : c.to = t /\ d.to = t =>
          /\ <<c, d>> \in Seq(Call) /\ <<c, d>> # <<>> /\ \A i \in DOMAIN <<c, d>> : <<c, d>>[i].to = t
          /\ <<c>> \in Seq(Call) /\ <<c>> # <<>> /\ \A i \in DOMAIN <<c>> : <<c>>[i].to = t
    OBVIOUS
  <2> QED
    BY <2>1, <2>2
<1>4. Begin(w, calls, {}, <<>>)
  BY <1>1
<1> HIDE DEF calls
<1>5. \A i \in DOMAIN calls : calls[i].to \in Known(entries) \cup {Root}
  BY <1>3
<1>6. away' \in SUBSET Ids
  BY <1>1 DEF Inv, TypeOK
<1>7. {} \in SUBSET Ids /\ <<>> \in Seq(Ids)
  OBVIOUS
<1> QED
  BY <1>3, <1>4, <1>5, <1>6, <1>7, BeginKeeps

-----------------------------------------------------------------------------
\* The path to an entry, from the first one on.

\* The function a path is read from: at each of K the path of its parent and itself.
Climbs(g, n, K, par) == g = [i \in 0..n |-> IF i \in K THEN Append(g[par[i]], i) ELSE <<>>]

LEMMA ClimbIs ==
  ASSUME NEW n \in Nat, NEW K \in SUBSET (1..n), NEW par, \A i \in K : par[i] \in 0..(i - 1)
  PROVE  \E g : Climbs(g, n, K, par) /\ g \in [0..n -> Seq(K)]
<1> DEFINE Ok(g, k) == /\ g \in [0..k -> Seq(K)]
                       /\ \A i \in 0..k : g[i] = IF i \in K THEN Append(g[par[i]], i) ELSE <<>>
           P == {k \in 0..n : \E g : Ok(g, k)}
<1>1. 0 \in P
  <2>1. Ok([i \in 0..0 |-> <<>>], 0)
    <3>1. \A i \in 0..0 : i \notin K
      OBVIOUS
    <3> QED
      BY <3>1
  <2>2. 0 \in 0..n /\ \E g : Ok(g, 0)
    <3> HIDE DEF Ok
    <3> QED
      BY <2>1
  <2> QED
    BY <2>2
<1>2. ASSUME NEW k \in 1..n, k - 1 \in P PROVE k \in P
  <2>1. PICK g : Ok(g, k - 1)
    BY <1>2
  <2> DEFINE next == IF k \in K THEN Append(g[par[k]], k) ELSE <<>>
             h == [i \in 0..k |-> IF i = k THEN next ELSE g[i]]
  <2>2. next \in Seq(K)
    <3>1. ASSUME k \in K PROVE g[par[k]] \in Seq(K)
      <4>1. par[k] \in 0..(k - 1)
        BY <3>1
      <4> QED
        BY <2>1, <4>1
    <3> QED
      BY <3>1
  <2>3. \A i \in 0..k : i # k => i \in 0..(k - 1)
    OBVIOUS
  <2>4. h \in [0..k -> Seq(K)]
    <3> HIDE DEF next
    <3> QED
      BY <2>1, <2>2, <2>3
  <2>5. ASSUME NEW i \in 0..k PROVE h[i] = IF i \in K THEN Append(h[par[i]], i) ELSE <<>>
    <3>1. i \in K => par[i] \in 0..k /\ par[i] # k
      <4>1. i \in K => par[i] \in 0..(i - 1)
        OBVIOUS
      <4> QED
        BY <4>1
    <3>2. i \in K => h[par[i]] = g[par[i]]
      <4> HIDE DEF next
      <4> QED
        BY <3>1
    <3>3. CASE i = k
      BY <3>2, <3>3
    <3>4. CASE i # k
      <4>1. i \in 0..(k - 1) /\ h[i] = g[i]
        BY <2>3, <3>4
      <4> QED
        BY <2>1, <3>2, <4>1
    <3> QED
      BY <3>3, <3>4
  <2>6. Ok(h, k)
    BY <2>4, <2>5
  <2>7. \E f : Ok(f, k)
    <3> HIDE DEF Ok, h
    <3> QED
      BY <2>6
  <2>8. k \in 0..n
    OBVIOUS
  <2> HIDE DEF Ok
  <2> QED
    BY <2>7, <2>8
<1>3. n \in P
  <2> HIDE DEF P
  <2>1. 0..n \subseteq P
    BY <1>1, <1>2, Upwards
  <2> QED
    BY <2>1
<1>4. PICK g : Ok(g, n)
  BY <1>3
<1>5. Climbs(g, n, K, par)
  BY <1>4 DEF Climbs
<1> QED
  BY <1>4, <1>5

At(es, i) == es[CHOOSE k \in DOMAIN es : es[k].id = i]

LEMMA AtIs ==
  ASSUME NEW es \in Seq(Entry), Apart(es), NEW e \in ToSet(es)
  PROVE  At(es, e.id) = e
<1>1. PICK j \in DOMAIN es : es[j] = e
  BY DEF ToSet
<1> DEFINE k == CHOOSE i \in DOMAIN es : es[i].id = e.id
<1>2. k \in DOMAIN es /\ es[k].id = e.id
  BY <1>1
<1>3. es[k] \in ToSet(es)
  BY <1>2 DEF ToSet
<1> QED
  BY <1>2, <1>3 DEF Apart, At

LEMMA PathIs ==
  ASSUME NEW es \in Seq(Entry), Apart(es), Rising(es)
  PROVE  /\ \A l \in Ids \cup {Root} : Path(es, l) \in Seq(Known(es))
         /\ \A l \in Ids \cup {Root} : l \notin Known(es) => Path(es, l) = <<>>
         /\ Path(es, Root) = <<>>
         /\ \A e \in ToSet(es) : Path(es, e.id) = Append(Path(es, e.parent), e.id)
<1> DEFINE n == MaxEntries
           K == Known(es)
           par == [i \in K |-> At(es, i).parent]
<1>1. n \in Nat /\ Ids = 1..n /\ Ids \cup {Root} = 0..n /\ Root \notin Ids
  BY StoreAssumption DEF Ids, Root
<1>2. K = {e.id : e \in ToSet(es)} /\ K \subseteq Ids
  BY KnownIds
<1>3. \A e \in ToSet(es) : e \in Entry /\ e.id \in K /\ par[e.id] = e.parent /\ e.parent < e.id
  <2>1. \A e \in ToSet(es) : e \in Entry
    BY DEF ToSet
  <2> QED
    BY <1>2, <2>1, AtIs DEF Rising
<1>4. \A i \in K : par[i] \in 0..(i - 1)
  <2> SUFFICES ASSUME NEW e \in ToSet(es) PROVE par[e.id] \in 0..(e.id - 1)
    BY <1>2
  <2>1. e.id \in 1..n /\ e.parent \in 0..n /\ e.parent < e.id
    BY <1>1, <1>3 DEF Entry
  <2>2. e.parent \in 0..(e.id - 1)
    BY <1>1, <2>1
  <2> QED
    BY <1>3, <2>2
<1>5. PICK g : Climbs(g, n, K, par) /\ g \in [0..n -> Seq(K)]
  <2>1. K \in SUBSET (1..n)
    BY <1>1, <1>2
  <2> HIDE DEF K, par, n
  <2> QED
    BY <1>1, <1>4, <2>1, ClimbIs
<1> DEFINE h == CHOOSE f : f = [i \in 0..MaxEntries |-> IF i \in Known(es)
                                                        THEN Append(f[At(es, i).parent], i) ELSE <<>>]
<1>6. \A l : Path(es, l) = h[l]
  BY DEF Path, At
<1>7. g = [i \in 0..MaxEntries |-> IF i \in Known(es) THEN Append(g[At(es, i).parent], i) ELSE <<>>]
  BY <1>5 DEF Climbs
<1>8. h = [i \in 0..MaxEntries |-> IF i \in Known(es) THEN Append(h[At(es, i).parent], i) ELSE <<>>]
  BY <1>7
<1> HIDE DEF h
<1>9. \A i \in 0..n : h[i] = IF i \in K THEN Append(h[par[i]], i) ELSE <<>>
  BY <1>8
<1>10. \A i \in 0..n : g[i] = IF i \in K THEN Append(g[par[i]], i) ELSE <<>>
  BY <1>7
<1> HIDE DEF K, par, n
<1>11. 0..n \subseteq {i \in 0..n : h[i] = g[i]}
  <2> DEFINE P == {i \in 0..n : h[i] = g[i]}
  <2>1. ASSUME NEW i \in 0..n, \A j \in 0..n : j < i => j \in P PROVE i \in P
    <3>1. CASE i \in K
      <4>1. par[i] \in 0..n /\ par[i] < i
        BY <1>1, <1>4, <3>1
      <4>2. h[par[i]] = g[par[i]]
        BY <2>1, <4>1
      <4> QED
        BY <1>9, <1>10, <3>1, <4>2
    <3>2. CASE i \notin K
      BY <1>9, <1>10, <3>2
    <3> QED
      BY <3>1, <3>2
  <2> HIDE DEF P
  <2>2. 0..n \subseteq P
    BY <1>1, <2>1, FromBelow
  <2> QED
    BY <2>2 DEF P
<1>12. \A i \in 0..n : h[i] \in Seq(K) /\ (i \notin K => h[i] = <<>>)
  BY <1>5, <1>9, <1>11
<1>13. \A e \in ToSet(es) : h[e.id] = Append(h[e.parent], e.id)
  <2> SUFFICES ASSUME NEW e \in ToSet(es) PROVE h[e.id] = Append(h[e.parent], e.id)
    OBVIOUS
  <2>1. e.id \in K /\ e.id \in 0..n /\ par[e.id] = e.parent
    BY <1>1, <1>2, <1>3
  <2> QED
    BY <1>9, <2>1
<1>14. h[0] = <<>>
  <2>1. 0 \notin K /\ 0 \in 0..n
    BY <1>1, <1>2
  <2> QED
    BY <1>12, <2>1
<1>15. \A l \in Ids \cup {Root} : h[l] \in Seq(K) /\ (l \notin K => h[l] = <<>>)
  BY <1>1, <1>12
<1>16. \A e \in ToSet(es) : Path(es, e.id) = Append(Path(es, e.parent), e.id)
  BY <1>6, <1>13
<1>17. Path(es, Root) = <<>>
  BY <1>6, <1>14 DEF Root
<1>18. \A l \in Ids \cup {Root} : Path(es, l) \in Seq(K) /\ (l \notin K => Path(es, l) = <<>>)
  BY <1>6, <1>15
<1> QED
  BY <1>16, <1>17, <1>18 DEF K

LEMMA EntriesHang ==
  ASSUME TypeOK, Hanging
  PROVE  /\ entries \in Seq(Entry) /\ Apart(entries) /\ Rising(entries) /\ Known(entries) \subseteq Ids
         /\ Known(entries) \subseteq Known(All)
         /\ \A l \in Ids \cup {Root} : Path(entries, l) \in Seq(Known(entries))
<1>1. entries \in Seq(Entry) /\ Known(entries) \subseteq Ids
  BY Typed, KnownIds
<1>2. ToSet(entries) \subseteq ToSet(All) /\ Apart(All) /\ Rising(All)
  BY DEF Hanging
<1>3. Apart(entries) /\ Rising(entries)
  BY <1>2 DEF Apart, Rising
<1>4. Known(entries) \subseteq Known(All)
  BY <1>2, Typed
<1> QED
  BY <1>1, <1>3, <1>4, PathIs

LEMMA ContentsTyped ==
  ASSUME TypeOK, NEW p \in Seq(Ids)
  PROVE  /\ Contents(p) \in Seq(Ids) /\ Len(Contents(p)) = Len(p)
         /\ \A i \in 1..Len(p) : Contents(p)[i] = origin[p[i]]
<1>1. origin \in [Ids -> Ids] /\ Len(p) \in Nat /\ DOMAIN p = 1..Len(p)
  BY DEF TypeOK
<1>2. \A i \in 1..Len(p) : origin[p[i]] \in Ids
  BY <1>1
<1>3. Contents(p) = [i \in 1..Len(p) |-> origin[p[i]]]
  BY <1>1 DEF Contents
<1> QED
  BY <1>1, <1>2, <1>3

LEMMA SeqIs ==
  ASSUME NEW T, NEW n \in Nat, NEW f, f \in [1..n -> T]
  PROVE  f \in Seq(T) /\ Len(f) = n
OBVIOUS

\* What withdraw_tail() asks for.
Withdraws(w, n, gone, t, back, calls, takes, want) ==
  LET path == Path(entries, leaf) IN
  /\ n \in 0..Len(path) /\ t \in Known(entries) \cup {Root} /\ t = IF n = 0 THEN Root ELSE path[n]
  /\ gone # {} /\ gone \subseteq ToSet(SubSeq(path, n + 1, Len(path)))
  /\ back \in Seq(Known(entries)) /\ back = Without(SubSeq(path, n + 1, Len(path)), gone)
  /\ calls \in Seq(Call) /\ calls # <<>> /\ Len(calls) = Len(back) + 1 /\ Head(calls) = MoveTo(t)
  /\ \A i \in 1..Len(back) : calls[i + 1] = [New EXCEPT !.of = back[i]]
  /\ \A i \in DOMAIN calls : calls[i].to \in Known(entries) \cup {Root}
  /\ takes \in SUBSET Ids /\ takes = {origin[i] : i \in gone}
  /\ want \in Seq(Ids) /\ want = Contents(Without(path, gone))
  /\ Begin(w, calls, takes, want) /\ away' = away

LEMMA WithdrawIs ==
  ASSUME Inv, NEW w \in Writers, WithdrawTail(w)
  PROVE  \E n, gone, t, back, calls, takes, want : Withdraws(w, n, gone, t, back, calls, takes, want)
<1> DEFINE path == Path(entries, leaf)
           K == Known(entries)
<1>1. TypeOK /\ Hanging
  BY DEF Inv
<1>2. path \in Seq(K) /\ K \subseteq Ids
  <2>1. leaf \in Ids \cup {Root}
    BY <1>1 DEF TypeOK
  <2> QED
    BY <1>1, <2>1, EntriesHang
<1> DEFINE Asked(n, gone) ==
             LET t == IF n = 0 THEN Root ELSE path[n]
                 back == Survivors(SubSeq(path, n + 1, Len(path)), gone)
             IN /\ gone # {}
                /\ Begin(w, <<MoveTo(t)>> \o [i \in DOMAIN back |-> [New EXCEPT !.of = back[i]]],
                         {origin[i] : i \in gone}, Contents(Without(path, gone)))
                /\ UNCHANGED away
<1>3. PICK n \in 0..Len(path) : \E gone \in SUBSET ToSet(SubSeq(path, n + 1, Len(path))) : Asked(n, gone)
  BY DEF WithdrawTail
<1>18. PICK gone \in SUBSET ToSet(SubSeq(path, n + 1, Len(path))) : Asked(n, gone)
  BY <1>3
<1> DEFINE t == IF n = 0 THEN Root ELSE path[n]
           tail == SubSeq(path, n + 1, Len(path))
           back == Without(tail, gone)
           rest == [i \in DOMAIN back |-> [New EXCEPT !.of = back[i]]]
           calls == <<MoveTo(t)>> \o rest
           takes == {origin[i] : i \in gone}
           want == Contents(Without(path, gone))
<1>4. gone # {} /\ Begin(w, calls, takes, want) /\ away' = away
  BY <1>18 DEF Survivors
<1> HIDE DEF path, K, Asked
<1>5. Len(path) \in Nat /\ n \in 0..Len(path)
  BY <1>2
<1>6. t \in K \cup {Root} /\ tail \in Seq(K)
  <2>1. n # 0 => path[n] \in K
    BY <1>2, <1>5
  <2>2. \A i \in (n + 1)..Len(path) : path[i] \in K
    BY <1>2, <1>5
  <2>3. tail \in Seq(K)
    BY <1>2, <1>5, <2>2, SubSeqProperties
  <2> QED
    BY <2>1, <2>3
<1> HIDE DEF t, tail
<1>7. back \in Seq(K)
  BY <1>6, WithoutFacts
<1>8. gone \subseteq K
  BY <1>6 DEF ToSet, tail
<1> HIDE DEF back
<1>9. takes \in SUBSET Ids
  <2>1. origin \in [Ids -> Ids]
    BY <1>1 DEF TypeOK
  <2> QED
    BY <1>2, <1>8, <2>1
<1>10. want \in Seq(Ids)
  <2>1. Without(path, gone) \in Seq(K)
    BY <1>2, WithoutFacts
  <2>2. Without(path, gone) \in Seq(Ids)
    <3>1. \A p \in Seq(K) : p \in Seq(Ids)
      BY <1>2
    <3> QED
      BY <2>1, <3>1
  <2> QED
    BY <1>1, <2>2, ContentsTyped
<1> HIDE DEF takes, want
<1>11. MoveTo(t) \in Call /\ MoveTo(t).to = t
  BY <1>2, <1>6, CallsTyped
<1>12. rest \in Seq(Call) /\ Len(rest) = Len(back) /\ Len(back) \in Nat
       /\ \A i \in 1..Len(back) : rest[i] = [New EXCEPT !.of = back[i]] /\ rest[i].to = Root
  <2>1. DOMAIN back = 1..Len(back) /\ Len(back) \in Nat /\ \A i \in 1..Len(back) : back[i] \in Ids
    BY <1>2, <1>7
  <2>2. \A i \in 1..Len(back) : [New EXCEPT !.of = back[i]] \in Call /\ [New EXCEPT !.of = back[i]].to = Root
    BY <2>1, CallsTyped
  <2>3. rest = [i \in 1..Len(back) |-> [New EXCEPT !.of = back[i]]]
    BY <2>1
  <2> HIDE DEF rest
  <2>4. \A i \in 1..Len(back) : rest[i] = [New EXCEPT !.of = back[i]]
    BY <2>3
  <2>5. rest \in [1..Len(back) -> Call]
    BY <2>2, <2>3
  <2>6. rest \in Seq(Call) /\ Len(rest) = Len(back)
    BY <2>1, <2>5, SeqIs
  <2> QED
    BY <2>1, <2>2, <2>4, <2>6
<1> HIDE DEF rest
<1>13. /\ calls \in Seq(Call) /\ Len(calls) = Len(back) + 1 /\ Head(calls) = MoveTo(t)
       /\ \A i \in 1..Len(back) : calls[i + 1] = rest[i]
  <2>1. \A c \in Call, r \in Seq(Call) :
          /\ <<c>> \o r \in Seq(Call) /\ Len(<<c>> \o r) = Len(r) + 1 /\ (<<c>> \o r)[1] = c
          /\ \A i \in 1..Len(r) : (<<c>> \o r)[i + 1] = r[i]
    OBVIOUS
  <2>2. \A s \in Seq(Call) : Head(s) = s[1]
    OBVIOUS
  <2> QED
    BY <1>11, <1>12, <2>1, <2>2
<1> HIDE DEF calls
<1>14. \A i \in DOMAIN calls : calls[i].to \in K \cup {Root}
  <2> SUFFICES ASSUME NEW i \in 1..(Len(back) + 1) PROVE calls[i].to \in K \cup {Root}
    BY <1>13
  <2>1. CASE i = 1
    <3>1. calls[1] = MoveTo(t)
      BY <1>13
    <3> QED
      BY <1>6, <1>11, <2>1, <3>1
  <2>2. CASE i # 1
    <3>1. i - 1 \in 1..Len(back) /\ (i - 1) + 1 = i
      BY <1>12, <2>2
    <3>2. calls[i] = rest[i - 1]
      BY <1>13, <3>1
    <3> QED
      BY <1>12, <3>1, <3>2
  <2> QED
    BY <2>1, <2>2
<1>15. calls # <<>>
  <2>1. Len(<<>>) = 0
    OBVIOUS
  <2> QED
    BY <1>12, <1>13, <2>1
<1>16. gone \subseteq Ids
  BY <1>2, <1>8
<1>17. \A i \in 1..Len(back) : calls[i + 1] = [New EXCEPT !.of = back[i]]
  BY <1>12, <1>13
<1>19. gone \subseteq ToSet(tail)
  BY <1>18 DEF tail
<1>20. Withdraws(w, n, gone, t, back, calls, takes, want)
  BY <1>4, <1>5, <1>6, <1>7, <1>9, <1>10, <1>13, <1>14, <1>15, <1>17, <1>19
       DEF Withdraws, t, back, tail, takes, want, path, K
<1> QED
  BY <1>20

LEMMA WithdrawTailKeeps ==
  ASSUME Inv, NEW w \in Writers, WithdrawTail(w), scope' = scope
  PROVE  Inv'
<1>0. PICK n, gone, t, back, calls, takes, want : Withdraws(w, n, gone, t, back, calls, takes, want)
  BY WithdrawIs
<1>1. /\ calls \in Seq(Call) /\ takes \in SUBSET Ids /\ want \in Seq(Ids)
      /\ calls # <<>> /\ \A i \in DOMAIN calls : calls[i].to \in Known(entries) \cup {Root}
      /\ Begin(w, calls, takes, want) /\ away' = away
  BY <1>0 DEF Withdraws
<1>2. away' \in SUBSET Ids
  BY <1>1 DEF Inv, TypeOK
<1> QED
  BY <1>1, <1>2, BeginKeeps

-----------------------------------------------------------------------------
\* A write that returns.
LEMMA Written ==
  ASSUME Inv, NEW w, Holds(w), Put(line[w], "line"), entries' = Append(entries, line[w]), leaf' = line[w].target,
         damage' = damage
  PROVE  /\ w \in Writers /\ line[w] \in Entry
         /\ file' = Append(file, [whole |-> TRUE, entry |-> line[w]]) /\ file' \in Seq(Line) /\ ends' = TRUE
         /\ entries' \in Seq(Entry) /\ leaf' \in Ids \cup {Root}
         /\ ToSet(entries') = ToSet(entries) \cup {line[w]} /\ Known(entries') = Known(entries) \cup {line[w].id}
         /\ ToSet(All') = ToSet(All) \cup {line[w]} /\ Known(All') = Known(All) \cup {line[w].id}
         /\ All' = Append(All, line[w]) /\ Readable(file') = Append(Readable(file), line[w])
         /\ Hanging' /\ Undamaged'
<1> DEFINE e == line[w]
           l == [whole |-> TRUE, entry |-> e]
<1>1. TypeOK /\ Queued /\ Hanging /\ Pending /\ Undamaged
  BY DEF Inv
<1>2. up /\ w \in ToSet(lock)
  BY AtHead
<1>3. /\ w \in Writers /\ e \in Entry /\ Fits(e, All)
      /\ ToSet(entries) \subseteq ToSet(All) /\ e \notin ToSet(All)
  BY <1>2, PendingFits
<1>4. e.parent \in Known(entries) \cup {Root} /\ e.target \in Known(entries) \cup {Root, e.id}
  BY <1>1, <1>2 DEF Pending
<1>5. file \in Seq(Line) /\ entries \in Seq(Entry) /\ Readable(file) \in Seq(Entry) /\ All \in Seq(Entry)
  BY <1>1, Typed
<1>6. file' = Append(file, l) /\ ends' = TRUE
  <2>1. "line" \in Cuts
    BY DEF Cuts
  <2> QED
    BY <1>1, <1>2, <1>3, <2>1, PutIs
<1>7. l \in Line /\ l.whole = TRUE /\ l.entry = e
  BY <1>3 DEF Line
<1> HIDE DEF l
<1>8. file' \in Seq(Line)
  BY <1>5, <1>6, <1>7
<1>9. /\ ToSet(All') = ToSet(All) \cup {e} /\ Known(All') = Known(All) \cup {e.id}
      /\ Hung(All') /\ Apart(All') /\ Rising(All')
  BY <1>1, <1>3, <1>5, <1>6, <1>7, FileGrows DEF All, Hanging
<1>10. All' = Append(All, e) /\ Readable(file') = Append(Readable(file), e)
  BY <1>5, <1>6, <1>7, ReadableMore, EntriesMore DEF All
<1> HIDE DEF e
<1>11. /\ entries' \in Seq(Entry) /\ ToSet(entries') = ToSet(entries) \cup {e}
       /\ Known(entries') = Known(entries) \cup {e.id}
  <2>1. entries' = Append(entries, e)
    BY DEF e
  <2> QED
    BY <1>3, <1>5, <2>1, Members, KnownMore
<1>12. leaf' = e.target
  BY DEF e
<1>13. Hanging'
  <2>1. Closed(entries')
    BY <1>1, <1>4, <1>11 DEF Closed, Hanging
  <2>2. leaf' \in Known(entries') \cup {Root}
    BY <1>4, <1>11, <1>12
  <2> QED
    BY <1>3, <1>9, <1>11, <2>1, <2>2 DEF Hanging
<1>14. Undamaged'
  <2> SUFFICES ASSUME damage = 0
               PROVE  /\ ToSet(entries') \subseteq ToSet(Readable(file'))
                      /\ Hung(Readable(file'))
                      /\ Readable(file') # <<>> /\ leaf' = LastTarget(Readable(file'))
    BY DEF Undamaged
  <2> DEFINE r == Readable(file)
  <2>1. ToSet(entries) \subseteq ToSet(r) /\ Hung(r)
    BY <1>1 DEF Undamaged
  <2>2. Known(entries) \subseteq Known(r)
    BY <1>1, <2>1, Typed
  <2>3. Hung(Append(r, e))
    BY <1>3, <1>4, <1>5, <2>1, <2>2, HungMore
  <2>4. ToSet(Append(r, e)) = ToSet(r) \cup {e}
    BY <1>3, <1>5, Members
  <2>5. Append(r, e) # <<>> /\ LastTarget(Append(r, e)) = e.target
    <3>1. r \in Seq(Entry) /\ e \in Entry
      BY <1>3, <1>5
    <3> HIDE DEF r
    <3>2. Len(Append(r, e)) = Len(r) + 1 /\ Append(r, e)[Len(r) + 1] = e /\ Len(r) \in Nat
      BY ONLY <3>1
    <3> QED
      BY ONLY <3>2 DEF Last, LastTarget
  <2> HIDE DEF r
  <2> QED
    BY <1>10, <1>11, <1>12, <2>1, <2>3, <2>4, <2>5 DEF r
<1>15. leaf' \in Ids \cup {Root}
  BY <1>3, <1>12 DEF Entry
<1> QED
  BY <1>3, <1>6, <1>8, <1>9, <1>10, <1>11, <1>13, <1>14, <1>15 DEF e, l

LEMMA WritesKeeps ==
  ASSUME Inv, NEW w, Writes(w), scope' = scope
  PROVE  Inv'
<1> DEFINE e == line[w]
           q == Tail(lock)
           todo == job[w].todo
<1>1. TypeOK /\ Queued /\ Room /\ Fresh /\ Hanging /\ Pending
  BY DEF Inv
<1>2. /\ Holds(w) /\ Put(e, "line") /\ entries' = Append(entries, e) /\ leaf' = e.target /\ heals' = FALSE
      /\ away' = (IF Head(todo).moves THEN away \cup job[w].takes ELSE away)
      /\ IF Len(todo) = 1
         THEN /\ job' = [job EXCEPT ![w] = NoJob] /\ line' = [line EXCEPT ![w] = NoEntry]
              /\ lock' = q
              /\ built' = built /\ origin' = origin
         ELSE /\ job' = [job EXCEPT ![w].todo = Tail(@)]
              /\ Ask(w, todo[2], e.target, q)
      /\ up' = up /\ faults' = faults /\ damage' = damage
  BY DEF Writes, bounds
<1>3. /\ up /\ w \in ToSet(lock) /\ lock # <<>>
      /\ q \in Seq(Writers) /\ IsInjective(q) /\ ToSet(q) = ToSet(lock) \ {w} /\ Len(q) = Len(lock) - 1
  BY <1>2, AtHead
<1>4. /\ w \in Writers /\ e \in Entry /\ file' \in Seq(Line) /\ ends' = TRUE
      /\ entries' \in Seq(Entry) /\ leaf' \in Ids \cup {Root}
      /\ Known(entries') = Known(entries) \cup {e.id}
      /\ ToSet(All') = ToSet(All) \cup {e} /\ Known(All') = Known(All) \cup {e.id}
      /\ Hanging' /\ Undamaged'
  BY <1>2, Written
<1>5. /\ job \in [Writers -> Job] /\ line \in [Writers -> Entry \cup {NoEntry}]
      /\ todo \in Seq(Call) /\ todo # <<>> /\ Len(todo) \in 1..MaxEntries
  <2>1. job \in [Writers -> Job] /\ line \in [Writers -> Entry \cup {NoEntry}]
    BY <1>1 DEF TypeOK, Job
  <2>2. todo \in Seq(Call) /\ todo # <<>>
    BY <1>1, <1>3, <1>4, <2>1 DEF TypeOK, Job
  <2>3. Len(todo) <= MaxEntries /\ Len(todo) \in Nat /\ Len(todo) >= 1 /\ MaxEntries \in Nat
    BY <1>1, <1>4, <2>2, Bounds DEF Queued
  <2> QED
    BY <2>1, <2>2, <2>3
<1> HIDE DEF q, e
<1>6. away' \in SUBSET Ids
  <2>1. away \in SUBSET Ids /\ job[w].takes \in SUBSET Ids
    BY <1>1, <1>4, <1>5 DEF TypeOK, Job
  <2> QED
    BY <1>2, <2>1
<1>7. \A v \in ToSet(lock) : v \in Writers
  BY PendingFits
<1>8. e.id \in Ids /\ e.id <= built /\ \A v \in ToSet(q) : line[v].id # e.id
  BY <1>1, <1>3, <1>4, <1>7 DEF Fresh, Entry, e
<1>9. ASSUME Len(todo) = 1 PROVE Inv'
  <2>1. /\ job' = [job EXCEPT ![w] = NoJob] /\ line' = [line EXCEPT ![w] = NoEntry]
        /\ lock' = q /\ built' = built /\ origin' = origin
    BY <1>2, <1>9
  <2>2. /\ job' \in [Writers -> Job] /\ line' \in [Writers -> Entry \cup {NoEntry}] /\ job'[w] = NoJob
        /\ \A v \in Writers : v # w => job'[v] = job[v] /\ line'[v] = line[v]
    BY <1>4, <1>5, <2>1, NoJobTyped
  <2>3. \A v \in ToSet(q) : v \in ToSet(lock) /\ v \in Writers /\ line'[v] = line[v] /\ job'[v] = job[v]
    BY <1>3, <1>7, <2>2
  <2>4. \A v \in Writers : v \in ToSet(lock') <=> job'[v].todo # <<>>
    <3>1. \A v \in Writers : v \in ToSet(lock) <=> job[v].todo # <<>>
      BY <1>1 DEF TypeOK
    <3> QED
      BY <1>3, <2>1, <2>2, <3>1, NoJobTyped
  <2>5. TypeOK'
    <3>1. MaxFaults' = MaxFaults /\ MaxDamage' = MaxDamage
      BY DEF MaxFaults, MaxDamage
    <3>2. /\ scope \in Scopes /\ up \in BOOLEAN /\ built \in 0..MaxEntries /\ origin \in [Ids -> Ids]
          /\ faults \in 0..MaxFaults /\ damage \in 0..MaxDamage
      BY <1>1 DEF TypeOK
    <3> QED
      BY <1>2, <1>3, <1>4, <1>6, <2>1, <2>2, <2>4, <3>1, <3>2 DEF TypeOK, Line, Job
  <2>6. Queued'
    <3>1. \A v \in ToSet(lock') : line'[v] \in Entry
      BY <1>1, <2>1, <2>3 DEF Queued
    <3>2. \A v \in Writers : Len(job'[v].todo) <= MaxEntries
      <4>1. 0 <= MaxEntries
        BY <1>1, Bounds
      <4> QED
        BY <1>1, <2>2, <4>1, NoJobTyped DEF Queued
    <3>3. ~Awaits' => Len(lock') <= 1
      <4>1. Awaits' = Awaits
        BY DEF Awaits
      <4>2. Len(lock) \in Nat
        BY <1>1 DEF TypeOK
      <4> QED
        BY <1>1, <1>3, <2>1, <4>1, <4>2 DEF Queued
    <3> QED
      BY <1>2, <1>3, <1>4, <3>1, <3>2, <3>3 DEF Queued
  <2>7. Room'
    BY <1>1, <2>1, <2>2, NoJobTyped, RoomLess
  <2>8. Fresh'
    <3>1. \A d \in ToSet(All') : d.id <= built
      BY <1>1, <1>4, <1>8 DEF Fresh
    <3>2. \A v \in ToSet(q) : line'[v].id <= built /\ line'[v].id \notin Known(All')
      BY <1>1, <1>4, <1>8, <2>3 DEF Fresh
    <3>3. \A u, v \in ToSet(q) : line'[u].id = line'[v].id => u = v
      BY <1>1, <2>3 DEF Fresh
    <3> QED
      BY <2>1, <3>1, <3>2, <3>3 DEF Fresh
  <2>9. Pending'
    BY <1>1, <1>4, <2>1, <2>3 DEF Pending
  <2> QED
    BY <1>4, <2>5, <2>6, <2>7, <2>8, <2>9 DEF Inv
<1>10. ASSUME Len(todo) # 1 PROVE Inv'
  <2> DEFINE c == todo[2]
  <2>0. Len(todo) \in 2..MaxEntries /\ Len(todo) \in Nat /\ Len(todo) >= 2
    <3>1. MaxEntries \in Nat
      BY <1>1, Bounds
    <3>2. \A n \in 1..MaxEntries : n # 1 => n \in 2..MaxEntries /\ n \in Nat /\ n >= 2
      BY <3>1
    <3> QED
      BY <1>5, <1>10, <3>2
  <2>1. job' = [job EXCEPT ![w].todo = Tail(@)] /\ Ask(w, c, e.target, q)
    BY <1>2, <1>10
  <2>2. built' = built + 1
    BY <2>1 DEF Ask
  <2>3. /\ Tail(todo) \in Seq(Call) /\ Len(Tail(todo)) = Len(todo) - 1
        /\ DOMAIN Tail(todo) = 1..(Len(todo) - 1) /\ \A i \in 1..(Len(todo) - 1) : Tail(todo)[i] = todo[i + 1]
        /\ DOMAIN todo = 1..Len(todo)
    BY <1>5, HeadTailProperties, LenProperties
  <2>4. Tail(todo) # <<>>
    <3>1. Len(<<>>) = 0
      OBVIOUS
    <3>2. \A n \in Nat : n >= 2 => n - 1 # 0
      OBVIOUS
    <3> QED
      BY <2>0, <2>3, <3>1, <3>2
  <2>5. /\ job' \in [Writers -> Job] /\ job'[w].todo = Tail(todo)
        /\ \A v \in Writers : v # w => job'[v] = job[v]
    <3>1. job' = [job EXCEPT ![w] = [job[w] EXCEPT !.todo = Tail(todo)]]
      BY <2>1
    <3>2. [job[w] EXCEPT !.todo = Tail(todo)] \in Job /\ [job[w] EXCEPT !.todo = Tail(todo)].todo = Tail(todo)
      BY <1>4, <1>5, <2>3 DEF Job
    <3> QED
      BY <1>4, <1>5, <3>1, <3>2
  <2>6. c \in Call /\ c.to \in Known(entries) \cup {Root}
        /\ \A i \in DOMAIN Tail(todo) : Tail(todo)[i].to \in Known(entries) \cup {Root}
    <3>1. \A i \in DOMAIN todo : todo[i].to \in Known(entries) \cup {Root}
      BY <1>1, <1>3 DEF Pending
    <3>2. 2 \in 1..Len(todo) /\ \A i \in 1..(Len(todo) - 1) : i + 1 \in 1..Len(todo)
      BY <2>0
    <3> QED
      BY <1>5, <2>3, <3>1, <3>2
  <2> HIDE DEF c, todo
  <2>7. Room' /\ built + 1 \in Ids
    <3>1. \A v \in Writers : job'[v].todo = IF v = w THEN Tail(job[w].todo) ELSE job[v].todo
      BY <2>5 DEF todo
    <3>2. Len(job[w].todo) \in 2..MaxEntries
      BY <2>0 DEF todo
    <3> QED
      BY <1>1, <1>4, <2>2, <3>1, <3>2, RoomNext
  <2>8. /\ Known(entries') \subseteq Ids /\ Known(entries) \subseteq Known(entries')
        /\ \A i \in Known(entries') : i <= built
        /\ \A d \in ToSet(All') : d.id \in Ids /\ d.id <= built
        /\ \A v \in ToSet(q) : line[v].id \notin Known(All')
        /\ Known(All') = {d.id : d \in ToSet(All')}
    <3>1. ToSet(entries) \subseteq ToSet(All) /\ \A d \in ToSet(All) : d.id <= built
      BY <1>1 DEF Hanging, Fresh
    <3>2. /\ Known(entries) = {d.id : d \in ToSet(entries)} /\ Known(All) = {d.id : d \in ToSet(All)}
          /\ Known(All) \subseteq Ids
      BY <1>1, Typed
    <3>3. \A v \in ToSet(q) : line[v].id \notin Known(All)
      BY <1>1, <1>3 DEF Fresh
    <3> QED
      BY <1>4, <1>8, <3>1, <3>2, <3>3
  <2>9. e.target \in Known(entries') \cup {Root}
    BY <1>1, <1>3, <1>4 DEF Pending, e
  <2>10. /\ lock' \in Seq(Writers) /\ IsInjective(lock') /\ ToSet(lock') = ToSet(q) \cup {w}
         /\ Len(lock') = Len(q) + 1
         /\ line' \in [Writers -> Entry \cup {NoEntry}] /\ \A v \in ToSet(lock') : line'[v] \in Entry
         /\ built' \in 0..MaxEntries /\ origin' \in [Ids -> Ids]
         /\ Fresh' /\ Pending'
    <3>1. w \notin ToSet(q) /\ ToSet(q) \subseteq ToSet(lock)
      BY <1>3
    <3>2. c.to \in Known(entries') \cup {Root}
      BY <2>6, <2>8
    <3>3. \A i \in DOMAIN job'[w].todo : job'[w].todo[i].to \in Known(entries') \cup {Root}
      BY <2>5, <2>6, <2>8
    <3> QED
      BY <1>1, <1>3, <1>4, <2>1, <2>5, <2>6, <2>7, <2>8, <2>9, <3>1, <3>2, <3>3, Asking
  <2>11. TypeOK'
    <3>1. \A v \in Writers : v \in ToSet(lock') <=> job'[v].todo # <<>>
      <4>1. \A v \in Writers : v \in ToSet(lock) <=> job[v].todo # <<>>
        BY <1>1 DEF TypeOK
      <4> QED
        BY <1>3, <2>4, <2>5, <2>10, <4>1
    <3>2. MaxFaults' = MaxFaults /\ MaxDamage' = MaxDamage
      BY DEF MaxFaults, MaxDamage
    <3>3. /\ scope \in Scopes /\ up \in BOOLEAN /\ faults \in 0..MaxFaults /\ damage \in 0..MaxDamage
      BY <1>1 DEF TypeOK
    <3> QED
      BY <1>2, <1>4, <1>6, <2>5, <2>10, <3>1, <3>2, <3>3 DEF TypeOK, Line, Job
  <2>12. Queued'
    <3>1. \A v \in Writers : Len(job'[v].todo) <= MaxEntries
      <4>1. Len(Tail(todo)) <= MaxEntries
        <5>1. MaxEntries \in Nat /\ Len(todo) \in Nat
          BY <1>1, <1>5, Bounds DEF todo
        <5> QED
          BY <2>0, <2>3, <5>1 DEF todo
      <4> QED
        BY <1>1, <2>5, <4>1 DEF Queued
    <3>2. ~Awaits' => Len(lock') <= 1
      <4>1. Awaits' = Awaits
        BY DEF Awaits
      <4>2. Len(lock) \in Nat
        BY <1>1 DEF TypeOK
      <4> QED
        BY <1>1, <1>3, <2>10, <4>1, <4>2 DEF Queued
    <3> QED
      BY <1>2, <1>3, <1>4, <2>10, <3>1, <3>2 DEF Queued
  <2> QED
    BY <1>4, <2>7, <2>10, <2>11, <2>12 DEF Inv
<1> QED
  BY <1>9, <1>10

-----------------------------------------------------------------------------
LEMMA StaysSame ==
  ASSUME Inv, UNCHANGED vars
  PROVE  Inv'
<1>1. /\ scope' = scope /\ file' = file /\ ends' = ends /\ up' = up /\ entries' = entries /\ leaf' = leaf
      /\ heals' = heals /\ lock' = lock /\ job' = job /\ line' = line /\ built' = built /\ origin' = origin
      /\ away' = away /\ faults' = faults /\ damage' = damage
  BY DEF vars, disk, memory, bounds
<1>2. All' = All /\ Owed' = Owed /\ Awaits' = Awaits /\ MaxFaults' = MaxFaults /\ MaxDamage' = MaxDamage
  BY <1>1 DEF All, Owed, Later, Awaits, MaxFaults, MaxDamage
<1>3. TypeOK' /\ Queued' /\ Room'
  BY <1>1, <1>2 DEF Inv, TypeOK, Queued, Room
<1>4. Fresh' /\ Hanging' /\ Pending' /\ Undamaged'
  BY <1>1, <1>2 DEF Inv, Fresh, Hanging, Pending, Undamaged
<1> QED
  BY <1>3, <1>4 DEF Inv

LEMMA Tasks ==
  ASSUME TypeOK, NEW w \in scope.tasks
  PROVE  w \in Writers
BY StoreAssumption DEF TypeOK

LEMMA InvPreserved ==
  ASSUME Inv, [Next]_vars
  PROVE  Inv'
<1>1. CASE UNCHANGED vars
  BY <1>1, StaysSame
<1>2. ASSUME Step, scope' = scope PROVE Inv'
  <2>1. CASE Crash
    BY <1>2, <2>1, CrashKeeps
  <2>2. CASE Reopen
    BY <1>2, <2>2, ReopenKeeps
  <2>3. CASE Damage
    BY <1>2, <2>3, DamageKeeps
  <2>4. ASSUME NEW w \in scope.tasks, \/ AppendEntry(w) \/ MoveLeaf(w) \/ WithdrawTail(w)
                                      \/ Writes(w) \/ Fails(w) \/ Refuses(w) \/ GivesUp(w)
        PROVE  Inv'
    <3>1. w \in Writers
      BY Tasks DEF Inv
    <3> QED
      BY <1>2, <2>4, <3>1, AppendEntryKeeps, MoveLeafKeeps, WithdrawTailKeeps, WritesKeeps, FailsKeeps, RefusesKeeps,
         GivesUpKeeps
  <2> QED
    BY <1>2, <2>1, <2>2, <2>3, <2>4 DEF Step
<1> QED
  BY <1>1, <1>2 DEF Next

LEMMA InvHolds == Spec => []Inv
<1>1. Init => Inv
  BY Initially
<1> QED
  BY <1>1, InvPreserved, PTL DEF Spec

\* Every variable of the storage keeps its type, and a task is at the lock as long as its call goes on.
THEOREM TypesHold == Spec => []TypeOK
<1>1. Inv => TypeOK
  BY DEF Inv
<1> QED
  BY <1>1, InvHolds, PTL

-----------------------------------------------------------------------------
\* The file implements the promised tree.

\* What hangs in the file, from what is in memory, hangs in the tree.
LEMMA HangsIn ==
  ASSUME Inv, damage = 0, NEW w \in ToSet(lock)
  PROVE  /\ Tree!Hangs(line[w]) /\ line[w] \in Tree!Entry
         /\ ToSet(entries) \subseteq ToSet(Readable(file)) /\ line[w] \notin ToSet(Readable(file))
         /\ w \in Writers /\ line[w] \in Entry
<1> DEFINE e == line[w]
           E == ToSet(entries)
           R == ToSet(Readable(file))
<1>1. TypeOK /\ Pending /\ Undamaged
  BY DEF Inv
<1>2. w \in Writers /\ e \in Entry /\ e.id \notin Known(All) /\ e \notin ToSet(All)
  BY PendingFits DEF Fits
<1>3. E \subseteq R /\ R \subseteq ToSet(All) /\ Known(All) = {d.id : d \in ToSet(All)}
      /\ Known(entries) = {d.id : d \in E}
  BY <1>1, Typed DEF Undamaged
<1>4. e.parent \in Known(entries) \cup {Root} /\ e.target \in Known(entries) \cup {Root, e.id}
  BY <1>1 DEF Pending
<1>5. Tree!Root = Root /\ Root \notin Ids
  BY DEF Tree!Root, Root, Ids
<1>6. e \in Tree!Entry
  BY <1>2, <1>5 DEF Entry, Tree!Entry
<1> HIDE DEF e, E, R
<1>7. Tree!Hangs(e)
  <2>1. e.id \notin Tree!Named(E \cup (R \ E))
    BY <1>2, <1>3 DEF Tree!Named
  <2>2. Tree!Named(E) = Known(entries)
    BY <1>3 DEF Tree!Named
  <2> QED
    BY <1>4, <1>5, <2>1, <2>2 DEF Tree!Hangs, E, R
<1> QED
  BY <1>2, <1>3, <1>6, <1>7 DEF e, E, R

LEMMA LandedReads ==
  ASSUME TypeOK, NEW e \in Entry, Landed(e)
  PROVE  ToSet(Readable(file')) = ToSet(Readable(file)) \/ ToSet(Readable(file')) = ToSet(Readable(file)) \cup {e}
<1>1. file \in Seq(Line) /\ Readable(file) \in Seq(Entry)
  BY Typed
<1>2. CASE file' = file
  BY <1>2
<1>3. ASSUME NEW b \in BOOLEAN, file' = Append(file, [whole |-> b, entry |-> e])
      PROVE  \/ ToSet(Readable(file')) = ToSet(Readable(file))
             \/ ToSet(Readable(file')) = ToSet(Readable(file)) \cup {e}
  <2> DEFINE l == [whole |-> b, entry |-> e]
  <2>1. l \in Line /\ l.whole = b /\ l.entry = e
    BY DEF Line
  <2> HIDE DEF l
  <2>2. Readable(file') = IF b THEN Append(Readable(file), e) ELSE Readable(file)
    BY <1>1, <1>3, <2>1, ReadableMore DEF l
  <2> QED
    BY <1>1, <2>2, Members
<1> QED
  BY <1>2, <1>3 DEF Landed

\* An append that raises, or a crash in one, leaves its entry in doubt at most.
LEMMA InDoubt ==
  ASSUME Inv, damage = 0, up, NEW w \in ToSet(lock), NEW cut \in Cuts, Put(line[w], cut),
         entries' = entries, leaf' = leaf
  PROVE  LET doubt == ToSet(Readable(file)) \ ToSet(entries)
         IN (ToSet(Readable(file)) \ ToSet(entries))' \in {doubt, doubt \cup {line[w]}}
<1>1. line[w] \in Entry /\ line[w] \notin ToSet(Readable(file)) /\ ToSet(entries) \subseteq ToSet(Readable(file))
  BY HangsIn
<1>2. Landed(line[w])
  BY <1>1, PutIs DEF Inv
<1>3. \/ ToSet(Readable(file')) = ToSet(Readable(file))
      \/ ToSet(Readable(file')) = ToSet(Readable(file)) \cup {line[w]}
  BY <1>1, <1>2, LandedReads DEF Inv
<1> QED
  BY <1>1, <1>3

LEMMA TreeStays ==
  ASSUME file' = file, entries' = entries, leaf' = leaf, up' = up
  PROVE  UNCHANGED Tree!vars
<1>1. ToSet(entries') = ToSet(entries) /\ Readable(file') = Readable(file)
  OBVIOUS
<1>2. (ToSet(Readable(file)) \ ToSet(entries))' = ToSet(Readable(file)) \ ToSet(entries)
  BY <1>1
<1> QED
  BY <1>1, <1>2 DEF Tree!vars

LEMMA WritesAdds ==
  ASSUME Inv, NEW w, Writes(w), damage = 0
  PROVE  Tree!Next
<1> DEFINE e == line[w]
<1>1. /\ Holds(w) /\ Put(e, "line") /\ entries' = Append(entries, e) /\ leaf' = e.target
      /\ up' = up /\ damage' = damage
  BY DEF Writes, bounds
<1>2. up /\ w \in ToSet(lock)
  BY <1>1, AtHead
<1>3. /\ Tree!Hangs(e) /\ e \in Tree!Entry
      /\ ToSet(entries) \subseteq ToSet(Readable(file)) /\ e \notin ToSet(Readable(file))
  BY <1>2, HangsIn
<1>4. ToSet(entries') = ToSet(entries) \cup {e} /\ Readable(file') = Append(Readable(file), e) /\ e \in Entry
  BY <1>1, Written
<1>5. ToSet(Readable(file')) = ToSet(Readable(file)) \cup {e}
  BY <1>4, Typed, Members DEF Inv
<1> HIDE DEF e
<1>6. (ToSet(Readable(file)) \ ToSet(entries))' = ToSet(Readable(file)) \ ToSet(entries)
  BY <1>3, <1>4, <1>5
<1>7. Tree!Add(e)
  BY <1>1, <1>2, <1>3, <1>4, <1>6 DEF Tree!Add
<1> QED
  BY <1>3, <1>7 DEF Tree!Next

LEMMA FailsDoubts ==
  ASSUME Inv, NEW w, Fails(w), damage = 0
  PROVE  Tree!Next \/ UNCHANGED Tree!vars
<1>1. up /\ w \in ToSet(lock)
  BY AtHead DEF Fails
<1>2. PICK cut \in Cuts : Put(line[w], cut)
  BY DEF Fails
<1>3. entries' = entries /\ leaf' = leaf /\ up' = up
  BY DEF Fails, Leaves
<1>4. (ToSet(Readable(file)) \ ToSet(entries))'
        \in {ToSet(Readable(file)) \ ToSet(entries), (ToSet(Readable(file)) \ ToSet(entries)) \cup {line[w]}}
  BY <1>1, <1>2, <1>3, InDoubt
<1>5. Tree!Hangs(line[w]) /\ line[w] \in Tree!Entry
  BY <1>1, HangsIn
<1>6. CASE (ToSet(Readable(file)) \ ToSet(entries))' = ToSet(Readable(file)) \ ToSet(entries)
  BY <1>3, <1>6 DEF Tree!vars
<1>7. CASE (ToSet(Readable(file)) \ ToSet(entries))' = (ToSet(Readable(file)) \ ToSet(entries)) \cup {line[w]}
  <2>1. Tree!Fail(line[w])
    BY <1>1, <1>3, <1>5, <1>7 DEF Tree!Fail
  <2> QED
    BY <1>5, <2>1 DEF Tree!Next
<1> QED
  BY <1>4, <1>6, <1>7

LEMMA CrashDies ==
  ASSUME Inv, Crash, damage = 0
  PROVE  Tree!Next
<1>1. up /\ up' = FALSE /\ entries' = entries /\ leaf' = leaf
  BY DEF Crash, memory
<1> DEFINE D == ToSet(Readable(file)) \ ToSet(entries)
<1>2. D' = D \/ \E e \in Tree!Entry : Tree!Hangs(e) /\ D' = D \cup {e}
  <2>1. CASE lock = <<>>
    <3>1. file' = file
      BY <2>1 DEF Crash, disk
    <3> QED
      BY <1>1, <3>1
  <2>2. CASE lock # <<>>
    <3>1. PICK cut \in Cuts : Put(line[Head(lock)], cut)
      BY <2>2 DEF Crash
    <3>2. Head(lock) \in ToSet(lock)
      BY <2>2, QueueTail DEF Inv, TypeOK
    <3>3. D' \in {D, D \cup {line[Head(lock)]}}
      BY <1>1, <3>1, <3>2, InDoubt
    <3>4. Tree!Hangs(line[Head(lock)]) /\ line[Head(lock)] \in Tree!Entry
      BY <3>2, HangsIn
    <3> HIDE DEF D
    <3> QED
      BY <3>3, <3>4
  <2> QED
    BY <2>1, <2>2
<1>3. Tree!Die
  BY <1>1, <1>2 DEF Tree!Die
<1> QED
  BY <1>3 DEF Tree!Next

LEMMA ReopenFinds ==
  ASSUME Inv, Reopen, damage = 0
  PROVE  Tree!Next
<1>1. /\ ~up /\ up' = TRUE /\ entries' = LoadedEntries(file) /\ leaf' = LoadedLeaf(file) /\ file' = file
  BY DEF Reopen, disk
<1> DEFINE R == ToSet(Readable(file))
           E == ToSet(entries)
           D == R \ E
<1>2. /\ E \subseteq R /\ Hung(Readable(file))
      /\ IF Readable(file) = <<>> THEN leaf = Root
         ELSE Last(Readable(file)) \in E => leaf = LastTarget(Readable(file))
  BY DEF Inv, Undamaged
<1>3. file \in Seq(Line) /\ Readable(file) \in Seq(Entry)
  BY Typed DEF Inv
<1>4. entries' = Readable(file) /\ leaf' = LastTarget(Readable(file))
  BY <1>1, <1>2, <1>3, Loaded
<1>5. ToSet(entries') = E \cup D /\ D' = {}
  BY <1>1, <1>2, <1>4
<1>6. leaf' \in {leaf} \cup {e.target : e \in D}
  <2>1. CASE Readable(file) = <<>>
    BY <1>2, <1>4, <2>1 DEF LastTarget
  <2>2. CASE Readable(file) # <<>>
    <3>1. Last(Readable(file)) \in R
      <4>1. \A s \in Seq(Entry) : s # <<>> => Len(s) \in DOMAIN s
        OBVIOUS
      <4> QED
        BY <1>3, <2>2, <4>1 DEF Last, ToSet
    <3>2. LastTarget(Readable(file)) = Last(Readable(file)).target
      BY <2>2 DEF LastTarget
    <3> QED
      BY <1>2, <1>4, <2>2, <3>1, <3>2
  <2> QED
    BY <2>1, <2>2
<1>7. Tree!Open
  <2>1. D \in SUBSET D /\ ToSet(entries') = Tree!Found(D)
    BY <1>5 DEF Tree!Found
  <2> QED
    BY <1>1, <1>5, <1>6, <2>1 DEF Tree!Open
<1> QED
  BY <1>7 DEF Tree!Next

LEMMA TreeSteps ==
  ASSUME Inv, [Next]_vars, damage' = 0
  PROVE  Tree!Next \/ UNCHANGED Tree!vars
<1>0. damage \in Nat /\ damage < MaxDamage /\ damage' = damage + 1 => damage' # 0
  BY Counted DEF Inv
<1>1. CASE UNCHANGED vars
  <2>1. file' = file /\ entries' = entries /\ leaf' = leaf /\ up' = up
    BY <1>1 DEF vars, disk, memory
  <2> QED
    BY <2>1, TreeStays
<1>2. ASSUME NEW w, NEW calls, NEW takes, NEW want, Begin(w, calls, takes, want) PROVE UNCHANGED Tree!vars
  <2>1. file' = file /\ entries' = entries /\ leaf' = leaf /\ up' = up
    BY <1>2 DEF Begin, disk, memory
  <2> QED
    BY <2>1, TreeStays
<1>3. ASSUME NEW w \in scope.tasks, AppendEntry(w) \/ MoveLeaf(w) \/ WithdrawTail(w) PROVE UNCHANGED Tree!vars
  <2>0. w \in Writers
    BY Tasks DEF Inv
  <2>1. CASE AppendEntry(w)
    BY <1>2, <2>1 DEF AppendEntry
  <2>2. CASE MoveLeaf(w)
    BY <1>2, <2>2 DEF MoveLeaf
  <2>3. CASE WithdrawTail(w)
    <3>1. PICK n, gone, t, back, calls, takes, want : Withdraws(w, n, gone, t, back, calls, takes, want)
      BY <2>0, <2>3, WithdrawIs
    <3>2. Begin(w, calls, takes, want)
      BY <3>1 DEF Withdraws
    <3> QED
      BY <1>2, <3>2
  <2> QED
    BY <1>3, <2>1, <2>2, <2>3
<1>4. ASSUME NEW w, Refuses(w) \/ GivesUp(w) PROVE UNCHANGED Tree!vars
  <2>1. file' = file /\ entries' = entries /\ leaf' = leaf /\ up' = up
    BY <1>4 DEF Refuses, GivesUp, Leaves, disk
  <2> QED
    BY <2>1, TreeStays
<1>5. ASSUME NEW w, Writes(w) \/ Fails(w) \/ Crash \/ Reopen PROVE Tree!Next \/ UNCHANGED Tree!vars
  <2>1. damage = 0
    BY <1>5 DEF Writes, Fails, Leaves, Crash, Reopen, bounds
  <2> QED
    BY <1>5, <2>1, WritesAdds, FailsDoubts, CrashDies, ReopenFinds
<1>6. ASSUME Damage PROVE FALSE
  <2>1. damage' # 0
    BY <1>6, Counted DEF Damage, Inv
  <2> QED
    BY <2>1
<1> QED
  BY <1>1, <1>3, <1>4, <1>5, <1>6 DEF Next, Step

\* Appends that fail part-way, processes that die in one and the loads that follow keep what a session
\* promises, as long as no line of the file is damaged from outside.
THEOREM StoreImplementsTree == Spec => ImplementsTree
<1>1. Init => Tree!Init
  <2> SUFFICES ASSUME Init PROVE Tree!Init
    OBVIOUS
  <2>1. entries = <<>> /\ file = <<>> /\ leaf = Root /\ up = TRUE
    BY DEF Init
  <2>2. ToSet(entries) = {} /\ Readable(file) = <<>>
    BY <2>1, ReadableNothing DEF ToSet
  <2>3. ToSet(Readable(file)) \ ToSet(entries) = {}
    BY <2>2, <2>1
  <2>4. Tree!Root = Root
    BY DEF Tree!Root, Root
  <2> QED
    BY <2>1, <2>2, <2>3, <2>4 DEF Tree!Init
<1>2. Inv /\ [Next]_vars => [damage' = 0 => Tree!Next]_(Tree!vars)
  BY TreeSteps
<1> QED
  BY <1>1, <1>2, InvHolds, PTL DEF Spec, ImplementsTree

-----------------------------------------------------------------------------
\* What a path carries.

LEMMA CarryTyped ==
  ASSUME NEW o \in [Ids -> Ids], NEW p \in Seq(Ids)
  PROVE  /\ Carry(o, p) \in Seq(Ids) /\ Len(Carry(o, p)) = Len(p)
         /\ \A i \in 1..Len(p) : Carry(o, p)[i] = o[p[i]]
         /\ ToSet(Carry(o, p)) = {o[x] : x \in ToSet(p)}
         /\ ToSet(p) \subseteq Ids
<1>1. Len(p) \in Nat /\ DOMAIN p = 1..Len(p) /\ \A i \in 1..Len(p) : p[i] \in Ids
  OBVIOUS
<1>2. Carry(o, p) = [i \in 1..Len(p) |-> o[p[i]]]
  BY <1>1 DEF Carry
<1>3. Carry(o, p) \in [1..Len(p) -> Ids] /\ \A i \in 1..Len(p) : Carry(o, p)[i] = o[p[i]]
  BY <1>1, <1>2
<1>4. Carry(o, p) \in Seq(Ids) /\ Len(Carry(o, p)) = Len(p)
  BY <1>1, <1>3, SeqIs
<1>5. DOMAIN Carry(o, p) = 1..Len(p)
  BY <1>2
<1>6. ToSet(Carry(o, p)) = {o[x] : x \in ToSet(p)}
  BY <1>1, <1>3, <1>5 DEF ToSet
<1> QED
  BY <1>1, <1>3, <1>4, <1>6 DEF ToSet

LEMMA CarryMore ==
  ASSUME NEW o \in [Ids -> Ids], NEW p \in Seq(Ids), NEW x \in Ids
  PROVE  Carry(o, Append(p, x)) = Append(Carry(o, p), o[x])
<1>1. /\ Len(p) \in Nat /\ DOMAIN Append(p, x) = 1..(Len(p) + 1) /\ Append(p, x)[Len(p) + 1] = x
      /\ Append(p, x) \in Seq(Ids) /\ Len(Append(p, x)) = Len(p) + 1
      /\ \A i \in 1..Len(p) : Append(p, x)[i] = p[i]
  OBVIOUS
<1>2. /\ Carry(o, p) \in Seq(Ids) /\ Len(Carry(o, p)) = Len(p)
      /\ \A i \in 1..Len(p) : Carry(o, p)[i] = o[p[i]]
  BY CarryTyped
<1>3. /\ Carry(o, Append(p, x)) \in Seq(Ids) /\ Len(Carry(o, Append(p, x))) = Len(p) + 1
      /\ \A i \in 1..(Len(p) + 1) : Carry(o, Append(p, x))[i] = o[Append(p, x)[i]]
  <2> DEFINE t == Append(p, x)
  <2>1. t \in Seq(Ids) /\ Len(t) = Len(p) + 1
    BY <1>1
  <2> HIDE DEF t
  <2>2. /\ Carry(o, t) \in Seq(Ids) /\ Len(Carry(o, t)) = Len(p) + 1
        /\ \A i \in 1..(Len(p) + 1) : Carry(o, t)[i] = o[t[i]]
    BY <2>1, CarryTyped
  <2> QED
    BY <2>2 DEF t
<1>4. o[x] \in Ids
  OBVIOUS
<1> DEFINE r == Carry(o, Append(p, x))
           s == Append(Carry(o, p), o[x])
<1>5. /\ s \in Seq(Ids) /\ Len(s) = Len(p) + 1 /\ s[Len(p) + 1] = o[x]
      /\ \A i \in 1..Len(p) : s[i] = Carry(o, p)[i]
  BY <1>2, <1>4
<1>6. \A i \in 1..(Len(p) + 1) : r[i] = s[i]
  <2> SUFFICES ASSUME NEW i \in 1..(Len(p) + 1) PROVE r[i] = s[i]
    OBVIOUS
  <2>1. i = Len(p) + 1 \/ i \in 1..Len(p)
    BY <1>1
  <2> HIDE DEF s
  <2> QED
    BY <1>1, <1>2, <1>3, <1>5, <2>1
<1> HIDE DEF r, s
<1>7. r \in Seq(Ids) /\ Len(r) = Len(p) + 1
  BY <1>3 DEF r
<1>8. r = s
  BY <1>5, <1>6, <1>7, SeqEqual
<1> QED
  BY <1>8 DEF r, s

LEMMA JoinMore ==
  ASSUME NEW T, NEW p \in Seq(T), NEW q \in Seq(T), NEW x \in T
  PROVE  p \o Append(q, x) = Append(p \o q, x)
<1>1. Append(q, x) = q \o <<x>> /\ Append(p \o q, x) = (p \o q) \o <<x>> /\ <<x>> \in Seq(T) /\ p \o q \in Seq(T)
  BY AppendIsConcat
<1>2. (p \o q) \o <<x>> = p \o (q \o <<x>>)
  BY <1>1, ConcatAssociative
<1> QED
  BY <1>1, <1>2

LEMMA CarryNothing == \A o : Carry(o, <<>>) = <<>>
BY DEF Carry

LEMMA CarrySame ==
  ASSUME NEW o, NEW u, NEW p, \A x \in ToSet(p) : o[x] = u[x]
  PROVE  Carry(o, p) = Carry(u, p)
<1>1. \A i \in DOMAIN p : p[i] \in ToSet(p)
  BY DEF ToSet
<1> QED
  BY <1>1 DEF Carry

\* Two sequences, element by element from the end of the first one on.
LEMMA CarryJoin ==
  ASSUME NEW o \in [Ids -> Ids], NEW p \in Seq(Ids), NEW q \in Seq(Ids)
  PROVE  Carry(o, p \o q) = Carry(o, p) \o Carry(o, q)
<1> DEFINE Ok(r) == Carry(o, p \o r) = Carry(o, p) \o Carry(o, r)
           P == {r \in Seq(Ids) : Ok(r)}
<1>0. Carry(o, p) \in Seq(Ids)
  BY CarryTyped
<1>1. <<>> \in P
  <2>1. p \o <<>> = p /\ Carry(o, p) \o <<>> = Carry(o, p) /\ <<>> \in Seq(Ids)
    BY <1>0, ConcatEmptySeq
  <2> QED
    BY <2>1, CarryNothing
<1>2. ASSUME NEW r \in Seq(Ids), r \in P, NEW x \in Ids PROVE Append(r, x) \in P
  <2>1. Append(r, x) \in Seq(Ids) /\ p \o r \in Seq(Ids)
    OBVIOUS
  <2>2. p \o Append(r, x) = Append(p \o r, x)
    BY JoinMore
  <2>3. Carry(o, Append(p \o r, x)) = Append(Carry(o, p \o r), o[x])
    BY <2>1, CarryMore
  <2>4. Carry(o, Append(r, x)) = Append(Carry(o, r), o[x]) /\ Carry(o, r) \in Seq(Ids) /\ o[x] \in Ids
    BY CarryMore, CarryTyped
  <2>5. Carry(o, p) \o Append(Carry(o, r), o[x]) = Append(Carry(o, p) \o Carry(o, r), o[x])
    BY <1>0, <2>4, JoinMore
  <2>6. Ok(r)
    BY <1>2
  <2>7. Ok(Append(r, x))
    BY <2>2, <2>3, <2>4, <2>5, <2>6
  <2> QED
    BY <2>1, <2>7
<1> HIDE DEF P
<1>3. q \in P
  BY <1>1, <1>2, Growing
<1> QED
  BY <1>3 DEF P

LEMMA WithoutJoin ==
  ASSUME NEW T, NEW p \in Seq(T), NEW q \in Seq(T), NEW S
  PROVE  Without(p \o q, S) = Without(p, S) \o Without(q, S)
<1> DEFINE Ok(r) == Without(p \o r, S) = Without(p, S) \o Without(r, S)
           P == {r \in Seq(T) : Ok(r)}
<1>0. Without(p, S) \in Seq(T)
  BY WithoutFacts
<1>1. <<>> \in P
  <2>1. p \o <<>> = p /\ Without(p, S) \o <<>> = Without(p, S) /\ <<>> \in Seq(T)
    BY <1>0, ConcatEmptySeq
  <2> QED
    BY <2>1, WithoutNothing
<1>2. ASSUME NEW r \in Seq(T), r \in P, NEW x \in T PROVE Append(r, x) \in P
  <2>1. Append(r, x) \in Seq(T) /\ p \o r \in Seq(T)
    OBVIOUS
  <2>2. p \o Append(r, x) = Append(p \o r, x)
    BY JoinMore
  <2>3. Without(Append(p \o r, x), S) = IF x \in S THEN Without(p \o r, S) ELSE Append(Without(p \o r, S), x)
    BY <2>1, WithoutMore
  <2>4. Without(Append(r, x), S) = IF x \in S THEN Without(r, S) ELSE Append(Without(r, S), x)
    BY WithoutMore
  <2>5. Without(p, S) \o Append(Without(r, S), x) = Append(Without(p, S) \o Without(r, S), x)
    <3>1. Without(r, S) \in Seq(T)
      BY WithoutFacts
    <3> QED
      BY <1>0, <3>1, JoinMore
  <2>6. Ok(r)
    BY <1>2
  <2>7. Ok(Append(r, x))
    BY <2>2, <2>3, <2>4, <2>5, <2>6
  <2> QED
    BY <2>1, <2>7
<1> HIDE DEF P
<1>3. q \in P
  BY <1>1, <1>2, Growing
<1> QED
  BY <1>3 DEF P

\* Nothing is in both halves of a sequence without repetition.
LEMMA JoinInjective ==
  ASSUME NEW T, NEW p \in Seq(T), NEW q \in Seq(T), IsInjective(p \o q)
  PROVE  ToSet(p) \cap ToSet(q) = {}
<1>1. /\ p \o q \in Seq(T) /\ Len(p \o q) = Len(p) + Len(q)
      /\ \A i \in 1..Len(p) + Len(q) : (p \o q)[i] = IF i <= Len(p) THEN p[i] ELSE q[i - Len(p)]
  BY ConcatProperties
<1>2. /\ DOMAIN p = 1..Len(p) /\ DOMAIN q = 1..Len(q) /\ DOMAIN (p \o q) = 1..Len(p \o q)
      /\ Len(p) \in Nat /\ Len(q) \in Nat
  BY <1>1, LenProperties
<1> SUFFICES ASSUME NEW i \in 1..Len(p), NEW j \in 1..Len(q), p[i] = q[j] PROVE FALSE
  BY <1>2 DEF ToSet
<1>3. /\ i \in 1..Len(p) + Len(q) /\ i <= Len(p) /\ j + Len(p) \in 1..Len(p) + Len(q)
      /\ ~(j + Len(p) <= Len(p)) /\ (j + Len(p)) - Len(p) = j /\ i # j + Len(p)
  BY <1>2
<1>4. (p \o q)[i] = p[i] /\ (p \o q)[j + Len(p)] = q[j]
  BY <1>1, <1>3
<1> QED
  BY <1>1, <1>2, <1>3, <1>4 DEF IsInjective

LEMMA CarryInjective ==
  ASSUME NEW o \in [Ids -> Ids], NEW p \in Seq(Ids), IsInjective(Carry(o, p))
  PROVE  IsInjective(p) /\ \A x, y \in ToSet(p) : o[x] = o[y] => x = y
<1>1. /\ \A i \in 1..Len(p) : Carry(o, p)[i] = o[p[i]]
      /\ DOMAIN Carry(o, p) = 1..Len(p) /\ DOMAIN p = 1..Len(p)
  BY CarryTyped, LenProperties
<1>2. \A i, j \in 1..Len(p) : o[p[i]] = o[p[j]] => i = j
  BY <1>1 DEF IsInjective
<1> QED
  BY <1>1, <1>2 DEF IsInjective, ToSet

\* Fewer of them are without repetition as well, and share nothing with what was left out.
LEMMA CarryWithout ==
  ASSUME NEW o \in [Ids -> Ids], NEW p \in Seq(Ids), NEW S \in SUBSET ToSet(p), IsInjective(Carry(o, p))
  PROVE  /\ Without(p, S) \in Seq(Ids) /\ IsInjective(Carry(o, Without(p, S)))
         /\ {o[x] : x \in S} \cap ToSet(Carry(o, Without(p, S))) = {}
         /\ ToSet(Carry(o, Without(p, S))) \subseteq ToSet(Carry(o, p))
<1>1. /\ IsInjective(p) /\ \A x, y \in ToSet(p) : o[x] = o[y] => x = y
  BY CarryInjective
<1>2. Without(p, S) \in Seq(Ids) /\ ToSet(Without(p, S)) = ToSet(p) \ S /\ IsInjective(Without(p, S))
  BY <1>1, WithoutFacts, QueueWithout
<1> DEFINE r == Without(p, S)
<1> HIDE DEF r
<1>3. /\ \A i \in 1..Len(r) : Carry(o, r)[i] = o[r[i]]
      /\ ToSet(Carry(o, r)) = {o[x] : x \in ToSet(r)}
      /\ DOMAIN Carry(o, r) = 1..Len(r) /\ DOMAIN r = 1..Len(r)
  BY <1>2, CarryTyped, LenProperties DEF r
<1>4. ToSet(Carry(o, p)) = {o[x] : x \in ToSet(p)}
  BY CarryTyped
<1>5. \A i \in 1..Len(r) : r[i] \in ToSet(p)
  BY <1>2, <1>3 DEF ToSet, r
<1>6. IsInjective(Carry(o, r))
  BY <1>1, <1>2, <1>3, <1>5 DEF IsInjective, r
<1> QED
  BY <1>1, <1>2, <1>3, <1>4, <1>6 DEF r

-----------------------------------------------------------------------------
\* Paths stay as lists of entries grow.
LEMMA PathStable ==
  ASSUME NEW es \in Seq(Entry), NEW fs \in Seq(Entry), ToSet(es) \subseteq ToSet(fs), Apart(fs), Rising(fs), Closed(es),
         NEW l \in Known(es) \cup {Root}
  PROVE  Path(es, l) = Path(fs, l)
<1> DEFINE n == MaxEntries
           P == {i \in 0..n : i \in Known(es) \cup {Root} => Path(es, i) = Path(fs, i)}
<1>0. n \in Nat /\ Ids = 1..n /\ Ids \cup {Root} = 0..n /\ Root = 0
  BY StoreAssumption DEF Ids, Root
<1>1. Apart(es) /\ Rising(es)
  BY DEF Apart, Rising
<1>2. /\ Known(es) \subseteq Ids /\ ToSet(es) \subseteq Entry /\ Known(es) = {e.id : e \in ToSet(es)}
  BY KnownIds
<1>3. /\ Path(es, Root) = <<>> /\ Path(fs, Root) = <<>>
      /\ \A e \in ToSet(es) : /\ Path(es, e.id) = Append(Path(es, e.parent), e.id)
                              /\ Path(fs, e.id) = Append(Path(fs, e.parent), e.id)
  BY <1>1, PathIs
<1> HIDE DEF n
<1>4. ASSUME NEW i \in 0..n, \A j \in 0..n : j < i => j \in P PROVE i \in P
  <2> SUFFICES ASSUME i \in Known(es) \cup {Root} PROVE Path(es, i) = Path(fs, i)
    OBVIOUS
  <2>1. CASE i = Root
    BY <1>3, <2>1
  <2>2. CASE i # Root
    <3>1. PICK e \in ToSet(es) : i = e.id
      BY <1>2, <2>2
    <3>2. e.parent \in 0..n /\ e.parent < i /\ e.parent \in Known(es) \cup {Root}
      BY <1>0, <1>1, <1>2, <3>1 DEF Rising, Closed, Entry
    <3>3. Path(es, e.parent) = Path(fs, e.parent)
      BY <1>4, <3>2
    <3> QED
      BY <1>3, <3>1, <3>3
  <2> QED
    BY <2>1, <2>2
<1> HIDE DEF P
<1>5. 0..n \subseteq P
  BY <1>0, <1>4, FromBelow
<1>6. l \in 0..n
  BY <1>0, <1>2
<1> QED
  BY <1>5, <1>6 DEF P

\* The path to an entry of a path is its beginning.
LEMMA PathPrefix ==
  ASSUME NEW es \in Seq(Entry), Apart(es), Rising(es), NEW l \in Ids \cup {Root}, NEW k \in 1..Len(Path(es, l))
  PROVE  Path(es, Path(es, l)[k]) = SubSeq(Path(es, l), 1, k)
<1> DEFINE n == MaxEntries
           Ok(p) == \A j \in 1..Len(p) : Path(es, p[j]) = SubSeq(p, 1, j)
           P == {i \in 0..n : Ok(Path(es, i))}
<1>0. n \in Nat /\ Ids = 1..n /\ Ids \cup {Root} = 0..n /\ Root = 0
  BY StoreAssumption DEF Ids, Root
<1>1. /\ Known(es) \subseteq Ids /\ ToSet(es) \subseteq Entry /\ Known(es) = {e.id : e \in ToSet(es)}
  BY KnownIds
<1>2. /\ \A i \in Ids \cup {Root} : Path(es, i) \in Seq(Known(es))
      /\ \A i \in Ids \cup {Root} : i \notin Known(es) => Path(es, i) = <<>>
      /\ \A e \in ToSet(es) : Path(es, e.id) = Append(Path(es, e.parent), e.id)
  BY PathIs
<1> HIDE DEF n
<1>3. ASSUME NEW i \in 0..n, \A j \in 0..n : j < i => j \in P PROVE i \in P
  <2>1. CASE i \notin Known(es)
    <3>1. Path(es, i) = <<>>
      BY <1>0, <1>2, <2>1
    <3>2. Ok(<<>>)
      OBVIOUS
    <3> QED
      BY <3>1, <3>2
  <2>2. CASE i \in Known(es)
    <3>1. PICK e \in ToSet(es) : i = e.id
      BY <1>1, <2>2
    <3>2. e.parent \in 0..n /\ e.parent < i /\ e.id \in Known(es)
      BY <1>0, <1>1, <3>1 DEF Rising, Entry
    <3> DEFINE p == Path(es, e.parent)
               q == Path(es, i)
    <3>3. Ok(p)
      BY <1>3, <3>2
    <3>4. q = Append(p, i) /\ p \in Seq(Known(es))
      BY <1>0, <1>2, <3>1, <3>2
    <3>5. /\ Len(p) \in Nat /\ q \in Seq(Known(es)) /\ Len(q) = Len(p) + 1 /\ q[Len(p) + 1] = i
          /\ \A j \in 1..Len(p) : q[j] = p[j]
      <4> HIDE DEF p, q
      <4> QED
        BY <3>1, <3>2, <3>4
    <3>6. ASSUME NEW j \in 1..Len(q) PROVE Path(es, q[j]) = SubSeq(q, 1, j)
      <4>1. CASE j = Len(p) + 1
        <5>1. SubSeq(q, 1, Len(q)) = q
          <6> HIDE DEF p, q
          <6> QED
            BY <3>5
        <5> QED
          BY <3>5, <4>1, <5>1
      <4>2. CASE j # Len(p) + 1
        <5>1. j \in 1..Len(p) /\ q[j] = p[j]
          <6> HIDE DEF p, q
          <6> QED
            BY <3>5, <4>2
        <5>2. Path(es, p[j]) = SubSeq(p, 1, j)
          BY <3>3, <5>1
        <5> HIDE DEF p, q
        <5>3. SubSeq(q, 1, j) = SubSeq(p, 1, j)
          <6> DEFINE s == SubSeq(q, 1, j)
                     t == SubSeq(p, 1, j)
          <6>1. /\ \A m \in 1..j : q[m] \in Known(es) /\ p[m] \in Known(es) /\ q[m] = p[m]
                /\ 1 \in Int /\ j \in Int /\ j >= 1
            BY <3>4, <3>5, <5>1
          <6>2. /\ s \in Seq(Known(es)) /\ t \in Seq(Known(es))
                /\ Len(s) = (IF 1 <= j THEN j - 1 + 1 ELSE 0) /\ Len(t) = (IF 1 <= j THEN j - 1 + 1 ELSE 0)
                /\ \A m \in 1..(j - 1 + 1) : s[m] = q[1 + m - 1] /\ t[m] = p[1 + m - 1]
            BY <6>1, SubSeqProperties
          <6> HIDE DEF s, t
          <6>3. Len(s) = j /\ Len(t) = j /\ \A m \in 1..j : s[m] = q[m] /\ t[m] = p[m]
            <7>1. j - 1 + 1 = j /\ 1 <= j
              BY <6>1
            <7>2. \A m \in 1..j : 1 + m - 1 = m
              BY <6>1
            <7> QED
              BY <6>2, <7>1, <7>2
          <6>4. s = t
            BY <6>1, <6>2, <6>3, SeqEqual
          <6> QED
            BY <6>4 DEF s, t
        <5> QED
          BY <5>1, <5>2, <5>3
      <4> QED
        BY <4>1, <4>2
    <3> QED
      BY <3>6
  <2> QED
    BY <2>1, <2>2
<1> HIDE DEF P
<1>4. 0..n \subseteq P
  BY <1>0, <1>3, FromBelow
<1>5. Ok(Path(es, l))
  BY <1>0, <1>4 DEF P
<1> QED
  BY <1>5

-----------------------------------------------------------------------------
\* The contents along the paths, from step to step.
After(l) == Carry(origin', Path(All', l))

LEMMA Trails ==
  ASSUME TypeOK, Fresh, Hanging
  PROVE  /\ All \in Seq(Entry) /\ Closed(All) /\ Known(All) \subseteq 1..built /\ Known(entries) \subseteq Known(All)
         /\ built \in Nat /\ 1..built \subseteq Ids
         /\ \A l \in Ids \cup {Root} : /\ Path(All, l) \in Seq(Ids) /\ ToSet(Path(All, l)) \subseteq 1..built
                                       /\ Trail(l) \in Seq(Ids)
                                       /\ ToSet(Trail(l)) = {origin[i] : i \in ToSet(Path(All, l))}
         /\ \A l \in Known(entries) \cup {Root} : Path(entries, l) = Path(All, l)
<1>1. /\ All \in Seq(Entry) /\ Known(All) = {e.id : e \in ToSet(All)} /\ Known(All) \subseteq Ids
      /\ entries \in Seq(Entry) /\ ToSet(entries) \subseteq ToSet(All) /\ ToSet(All) \subseteq Entry
  BY Typed DEF Hanging
<1>2. Apart(All) /\ Rising(All) /\ Closed(entries) /\ Closed(All)
  BY <1>1, HungCloses DEF Hanging
<1>3. built \in Nat /\ built <= MaxEntries /\ MaxEntries \in Nat /\ origin \in [Ids -> Ids]
  BY Bounds DEF TypeOK
<1>4. Known(All) \subseteq 1..built /\ 1..built \subseteq Ids
  BY <1>1, <1>3 DEF Fresh, Ids
<1>5. \A l \in Ids \cup {Root} : Path(All, l) \in Seq(Known(All))
  BY <1>1, <1>2, PathIs
<1>6. \A p \in Seq(Known(All)) : p \in Seq(Ids) /\ ToSet(p) \subseteq Known(All)
  <2>1. \A p \in Seq(Known(All)) : p \in Seq(Ids)
    BY <1>1
  <2> QED
    BY <2>1 DEF ToSet
<1>7. ASSUME NEW l \in Ids \cup {Root}
      PROVE  /\ Path(All, l) \in Seq(Ids) /\ ToSet(Path(All, l)) \subseteq 1..built
             /\ Trail(l) \in Seq(Ids) /\ ToSet(Trail(l)) = {origin[i] : i \in ToSet(Path(All, l))}
  <2>1. Path(All, l) \in Seq(Ids) /\ ToSet(Path(All, l)) \subseteq 1..built
    BY <1>4, <1>5, <1>6
  <2> QED
    BY <1>3, <2>1, CarryTyped DEF Trail
<1>8. \A l \in Known(entries) \cup {Root} : Path(entries, l) = Path(All, l)
  BY <1>1, <1>2, PathStable
<1>9. Known(entries) \subseteq Known(All)
  BY <1>1, Typed
<1> QED
  BY <1>1, <1>2, <1>3, <1>4, <1>7, <1>8, <1>9

\* Nothing that was built changes its content.
Settled == \A i \in 1..built : origin'[i] = origin[i]

LEMMA TrailStays ==
  ASSUME Inv, Settled, All' = All, NEW l \in Ids \cup {Root}
  PROVE  After(l) = Trail(l)
<1>1. ToSet(Path(All, l)) \subseteq 1..built
  BY Trails DEF Inv
<1>2. \A i \in ToSet(Path(All, l)) : origin'[i] = origin[i]
  BY <1>1 DEF Settled
<1>3. Carry(origin', Path(All, l)) = Carry(origin, Path(All, l))
  BY <1>2, CarrySame
<1> QED
  BY <1>3 DEF After, Trail

LEMMA TrailGrows ==
  ASSUME Inv, Inv', Settled, NEW w \in ToSet(lock), All' = Append(All, line[w])
  PROVE  /\ \A l \in Known(All) \cup {Root} : After(l) = Trail(l)
         /\ After(line[w].id) = Append(Trail(line[w].parent), origin[line[w].id])
         /\ Known(All') = Known(All) \cup {line[w].id}
<1> DEFINE e == line[w]
<1>1. /\ All \in Seq(Entry) /\ Closed(All) /\ Known(All) \subseteq 1..built /\ built \in Nat /\ 1..built \subseteq Ids
      /\ \A l \in Ids \cup {Root} : Path(All, l) \in Seq(Ids) /\ ToSet(Path(All, l)) \subseteq 1..built
  BY Trails DEF Inv
<1>2. All' \in Seq(Entry) /\ Apart(All') /\ Rising(All')
  <2>1. TypeOK' /\ Hanging'
    BY DEF Inv
  <2>2. All' \in Seq(Entry)
    BY <1>1, PendingFits
  <2> QED
    BY <2>1, <2>2 DEF Hanging
<1>3. e \in Entry /\ e.id <= built /\ e.parent \in Known(All) \cup {Root}
  BY PendingFits DEF Inv, Fresh, Fits
<1>4. ToSet(All') = ToSet(All) \cup {e} /\ Known(All') = Known(All) \cup {e.id}
  BY <1>1, <1>3, Members, KnownMore
<1>5. ASSUME NEW l \in Known(All) \cup {Root} PROVE After(l) = Trail(l) /\ Path(All', l) = Path(All, l)
  <2>1. Path(All', l) = Path(All, l)
    <3>1. Path(All, l) = Path(All', l)
      BY <1>1, <1>2, <1>4, PathStable
    <3> QED
      BY <3>1
  <2>2. l \in Ids \cup {Root}
    BY <1>1
  <2>3. \A i \in ToSet(Path(All, l)) : origin'[i] = origin[i]
    BY <1>1, <2>2 DEF Settled
  <2>4. Carry(origin', Path(All, l)) = Carry(origin, Path(All, l))
    BY <2>3, CarrySame
  <2> QED
    BY <2>1, <2>4 DEF After, Trail
<1>6. After(e.id) = Append(Trail(e.parent), origin[e.id])
  <2>1. Path(All', e.id) = Append(Path(All', e.parent), e.id)
    BY <1>2, <1>4, PathIs
  <2>2. Path(All', e.parent) = Path(All, e.parent) /\ After(e.parent) = Trail(e.parent)
    BY <1>3, <1>5
  <2>3. Path(All, e.parent) \in Seq(Ids) /\ e.id \in Ids
    BY <1>3, <1>1 DEF Entry
  <2>4. origin' \in [Ids -> Ids]
    BY DEF Inv, TypeOK
  <2>5. Carry(origin', Append(Path(All, e.parent), e.id)) = Append(Carry(origin', Path(All, e.parent)), origin'[e.id])
    BY <2>3, <2>4, CarryMore
  <2>6. origin'[e.id] = origin[e.id]
    <3>1. e.id \in 1..built
      BY <1>1, <1>3, <2>3 DEF Ids
    <3> QED
      BY <3>1 DEF Settled
  <2> HIDE DEF e
  <2> QED
    BY <2>1, <2>2, <2>5, <2>6 DEF After
<1> QED
  BY <1>4, <1>5, <1>6

\* A line that landed: what it adds, and nothing else.
LEMMA TrailLands ==
  ASSUME Inv, Inv', Settled, NEW w \in ToSet(lock), Landed(line[w])
  PROVE  /\ \A l \in Known(All) \cup {Root} : After(l) = Trail(l)
         /\ \/ All' = All
            \/ /\ All' = Append(All, line[w]) /\ Known(All') = Known(All) \cup {line[w].id}
               /\ After(line[w].id) = Append(Trail(line[w].parent), origin[line[w].id])
<1>1. file \in Seq(Line) /\ All \in Seq(Entry) /\ line[w] \in Entry /\ Known(All) \subseteq Ids
  BY Typed, PendingFits DEF Inv
<1>2. All' = All \/ All' = Append(All, line[w])
  <2>1. CASE file' = file
    BY <2>1 DEF All
  <2>2. ASSUME NEW b \in BOOLEAN, file' = Append(file, [whole |-> b, entry |-> line[w]])
        PROVE All' = Append(All, line[w])
    <3> DEFINE l == [whole |-> b, entry |-> line[w]]
    <3>1. l \in Line /\ l.entry = line[w]
      BY <1>1 DEF Line
    <3> HIDE DEF l
    <3> QED
      BY <1>1, <2>2, <3>1, EntriesMore DEF All, l
  <2> QED
    BY <2>1, <2>2 DEF Landed
<1>3. CASE All' = All
  BY <1>1, <1>3, TrailStays
<1>4. CASE All' = Append(All, line[w])
  BY <1>4, TrailGrows
<1> QED
  BY <1>2, <1>3, <1>4

LEMMA OnceStays ==
  ASSUME Inv, Once, Settled, All' = All
  PROVE  Once'
<1>1. \A l \in Known(All) \cup {Root} : After(l) = Trail(l)
  <2>1. Known(All) \subseteq Ids
    BY Typed DEF Inv
  <2> QED
    BY <2>1, TrailStays
<1>2. \A l \in Known(All') \cup {Root} : IsInjective(After(l))
  BY <1>1 DEF Once
<1> QED
  BY <1>2 DEF Once, Trail, After

LEMMA OnceLands ==
  ASSUME Inv, Inv', Once, Going, Settled, NEW w \in ToSet(lock), Landed(line[w])
  PROVE  Once'
<1>1. CASE All' = All
  BY <1>1, OnceStays
<1>2. CASE All' = Append(All, line[w]) /\ All' # All
  <2>1. /\ \A l \in Known(All) \cup {Root} : After(l) = Trail(l)
        /\ Known(All') = Known(All) \cup {line[w].id}
        /\ After(line[w].id) = Append(Trail(line[w].parent), origin[line[w].id])
    BY <1>2, TrailLands
  <2>2. line[w].parent = leaf /\ origin[line[w].id] \notin ToSet(Trail(leaf))
    BY DEF Going
  <2>3. leaf \in Known(All) \cup {Root} /\ leaf \in Ids \cup {Root}
    BY Trails DEF Inv, Hanging, TypeOK
  <2>4. Trail(leaf) \in Seq(Ids) /\ IsInjective(Trail(leaf))
    BY <2>3, Trails DEF Inv, Once
  <2>5. origin[line[w].id] \in Ids
    <3>1. line[w].id \in Ids
      BY PendingFits DEF Entry
    <3> QED
      BY <3>1 DEF Inv, TypeOK
  <2>6. IsInjective(After(line[w].id))
    BY <2>1, <2>2, <2>4, <2>5, InjectiveMore
  <2>7. \A l \in Known(All') \cup {Root} : IsInjective(After(l))
    BY <2>1, <2>6 DEF Once
  <2> QED
    BY <2>7 DEF Once, Trail, After
<1> QED
  BY <1>1, <1>2, TrailLands

-----------------------------------------------------------------------------
\* Where the FileSystem does not suspend, one task at a time.
LEMMA OneAtATime ==
  ASSUME TypeOK, Queued, ~Awaits, NEW w \in ToSet(lock)
  PROVE  ToSet(lock) = {w} /\ Head(lock) = w /\ lock # <<>> /\ w \in Writers
<1>1. lock \in Seq(Writers) /\ Len(lock) <= 1 /\ Len(lock) \in Nat
  BY DEF TypeOK, Queued
<1>2. DOMAIN lock = 1..Len(lock)
  BY <1>1
<1>3. PICK i \in DOMAIN lock : lock[i] = w
  BY DEF ToSet
<1>4. i = 1 /\ DOMAIN lock = {1} /\ Len(lock) = 1
  BY <1>1, <1>2, <1>3
<1>5. lock # <<>> /\ Head(lock) = lock[1]
  <2>1. Len(<<>>) = 0
    OBVIOUS
  <2>2. lock # <<>>
    BY <1>4, <2>1
  <2>3. \A q \in Seq(Writers) : q # <<>> => Head(q) = q[1]
    OBVIOUS
  <2> QED
    BY <1>1, <2>2, <2>3
<1> QED
  BY <1>1, <1>3, <1>4, <1>5 DEF ToSet

LEMMA LastTargetKnown ==
  ASSUME Inv, damage = 0
  PROVE  LastTarget(Readable(file)) \in Known(All) \cup {Root}
<1>1. /\ Readable(file) \in Seq(Entry) /\ ToSet(Readable(file)) \subseteq ToSet(All)
      /\ Known(All) = {e.id : e \in ToSet(All)} /\ Known(Readable(file)) = {e.id : e \in ToSet(Readable(file))}
  BY Typed DEF Inv
<1>2. Hung(Readable(file))
  BY DEF Inv, Undamaged
<1>3. LastTarget(Readable(file)) \in Known(Readable(file)) \cup {Root}
  BY <1>1, <1>2, HungCloses
<1> QED
  BY <1>1, <1>3

LEMMA KnownTyped ==
  ASSUME Inv
  PROVE  /\ Known(All) \subseteq Ids /\ Known(entries) \subseteq Known(All) /\ leaf \in Known(All) \cup {Root}
         /\ Known(All) \subseteq 1..built /\ built \in Nat /\ 1..built \subseteq Ids
         /\ origin \in [Ids -> Ids]
<1>1. leaf \in Known(entries) \cup {Root} /\ origin \in [Ids -> Ids]
  BY DEF Inv, Hanging, TypeOK
<1> QED
  BY <1>1, Trails, Typed DEF Inv

LEMMA TrailOld ==
  ASSUME Inv, Aged, NEW l \in Ids \cup {Root}
  PROVE  ToSet(Trail(l)) \subseteq 1..built
<1>1. /\ ToSet(Trail(l)) = {origin[i] : i \in ToSet(Path(All, l))} /\ ToSet(Path(All, l)) \subseteq 1..built
      /\ built \in Nat
  BY Trails DEF Inv
<1>2. ASSUME NEW i \in 1..built PROVE origin[i] \in 1..built
  <2>1. origin[i] \in 1..i
    BY DEF Aged
  <2> QED
    BY <1>1, <2>1
<1> QED
  BY <1>1, <1>2

\* Calls over, nothing built, no line added.
LEMMA StillSolo ==
  ASSUME Inv, Inv', ~Awaits, Solo, origin' = origin, built' = built, away' = away, All' = All, ToSet(lock') = {},
         \A v \in Writers : job'[v].takes \subseteq job[v].takes,
         damage' = 0 => damage = 0 /\ file' = file /\ leaf' \in {leaf, LastTarget(Readable(file))}
  PROVE  Solo'
<1>1. Aged /\ Once /\ Going /\ KeptOff
  BY DEF Solo
<1>2. Settled
  BY DEF Settled
<1>3. Aged'
  BY <1>1 DEF Aged
<1>4. Once'
  BY <1>1, <1>2, OnceStays
<1>5. Going'
  BY DEF Going
<1>6. KeptOff'
  <2> SUFFICES ASSUME damage' = 0 PROVE away' \cap ToSet(After(leaf')) = {}
                                        /\ away' \cap ToSet(After(LastTarget(Readable(file')))) = {}
    BY DEF KeptOff, Off, Trail, After
  <2>1. Off(leaf) /\ Off(LastTarget(Readable(file)))
    BY <1>1 DEF KeptOff
  <2>2. leaf \in Ids \cup {Root} /\ LastTarget(Readable(file)) \in Ids \cup {Root}
    BY KnownTyped, LastTargetKnown
  <2>3. After(leaf) = Trail(leaf) /\ After(LastTarget(Readable(file))) = Trail(LastTarget(Readable(file)))
    BY <1>2, <2>2, TrailStays
  <2> QED
    BY <2>1, <2>3 DEF Off
<1> QED
  BY <1>3, <1>4, <1>5, <1>6 DEF Solo

\* What the calls of a withdrawal bring back.
LEMMA OfsTail ==
  ASSUME NEW q \in Seq(Call), q # <<>>, \A i \in DOMAIN q : i > 1 => q[i].of \in Ids
  PROVE  /\ Ofs(Tail(q)) \in Seq(Ids)
         /\ Len(q) = 1 => Ofs(Tail(q)) = <<>>
         /\ Len(q) # 1 => q[2].of \in Ids /\ q[2].of \in ToSet(Ofs(Tail(q)))
         /\ Head(q).of \in Ids => Ofs(q) = <<Head(q).of>> \o Ofs(Tail(q))
         /\ \A x \in ToSet(Ofs(Tail(q))) : \E i \in DOMAIN q : i > 1 /\ x = q[i].of
<1> DEFINE n == Len(q)
           t == Tail(q)
           r == Ofs(t)
<1>1. /\ n \in Nat /\ n >= 1 /\ DOMAIN q = 1..n /\ Head(q) = q[1]
      /\ t \in Seq(Call) /\ Len(t) = n - 1 /\ DOMAIN t = 1..(n - 1)
      /\ \A i \in 1..(n - 1) : t[i] = q[i + 1]
  BY HeadTailProperties, LenProperties
<1> HIDE DEF n, t
<1>2. r = [i \in 1..(n - 1) |-> t[i].of]
  BY <1>1 DEF Ofs
<1> HIDE DEF r
<1>3. \A i \in 1..(n - 1) : r[i] = q[i + 1].of /\ q[i + 1].of \in Ids
  <2> SUFFICES ASSUME NEW i \in 1..(n - 1) PROVE r[i] = q[i + 1].of /\ q[i + 1].of \in Ids
    OBVIOUS
  <2>1. i + 1 \in DOMAIN q /\ i + 1 > 1
    BY <1>1
  <2> QED
    BY <1>1, <1>2, <2>1
<1>4. r \in [1..(n - 1) -> Ids] /\ n - 1 \in Nat
  BY <1>1, <1>2, <1>3
<1>5. r \in Seq(Ids) /\ Len(r) = n - 1 /\ DOMAIN r = 1..(n - 1)
  BY <1>4, SeqIs
<1>6. n = 1 => r = <<>>
  BY <1>5
<1>7. n # 1 => q[2].of \in Ids /\ q[2].of \in ToSet(r)
  <2> SUFFICES ASSUME n # 1 PROVE q[2].of \in Ids /\ q[2].of \in ToSet(r)
    OBVIOUS
  <2>1. 1 \in 1..(n - 1) /\ 1 + 1 = 2
    BY <1>1
  <2> QED
    BY <1>3, <1>5, <2>1 DEF ToSet
<1>8. ASSUME Head(q).of \in Ids PROVE Ofs(q) = <<Head(q).of>> \o r
  <2> DEFINE s == Ofs(q)
             x == Head(q).of
  <2>1. s = [i \in 1..n |-> q[i].of]
    BY <1>1 DEF Ofs
  <2>2. \A i \in 1..n : q[i].of \in Ids
    BY <1>1, <1>8
  <2> HIDE DEF s
  <2>3. s \in [1..n -> Ids] /\ \A i \in 1..n : s[i] = q[i].of
    BY <2>1, <2>2
  <2>4. s \in Seq(Ids) /\ Len(s) = n
    BY <1>1, <2>3, SeqIs
  <2>5. x = q[1].of /\ x \in Ids
    BY <1>1, <1>8
  <2> HIDE DEF x
  <2>6. /\ <<x>> \o r \in Seq(Ids) /\ Len(<<x>> \o r) = n /\ (<<x>> \o r)[1] = x
        /\ \A i \in 1..n : i # 1 => (<<x>> \o r)[i] = r[i - 1]
    BY <1>1, <1>5, <2>5
  <2>7. \A i \in 1..n : s[i] = (<<x>> \o r)[i]
    <3> SUFFICES ASSUME NEW i \in 1..n PROVE s[i] = (<<x>> \o r)[i]
      OBVIOUS
    <3>1. CASE i = 1
      BY <1>1, <2>3, <2>5, <2>6, <3>1
    <3>2. CASE i # 1
      <4>1. i - 1 \in 1..(n - 1) /\ (i - 1) + 1 = i
        BY <1>1, <3>2
      <4>2. r[i - 1] = q[i].of
        BY <1>3, <4>1
      <4> QED
        BY <2>3, <2>6, <3>2, <4>2
    <3> QED
      BY <3>1, <3>2
  <2>8. s = <<x>> \o r
    BY <2>4, <2>6, <2>7, SeqEqual
  <2> QED
    BY <2>8 DEF s, x
<1>9. ASSUME NEW x \in ToSet(r) PROVE \E i \in DOMAIN q : i > 1 /\ x = q[i].of
  <2>1. PICK i \in 1..(n - 1) : x = r[i]
    BY <1>5 DEF ToSet
  <2>2. i + 1 \in DOMAIN q /\ i + 1 > 1 /\ x = q[i + 1].of
    BY <1>1, <1>3, <2>1
  <2> QED
    BY <2>2
<1> QED
  BY <1>5, <1>6, <1>7, <1>8, <1>9 DEF n, t, r

\* Once the entry at the lock is written, the path and what is still to come make up what was wanted.
LEMMA Wanted ==
  ASSUME Inv, Inv', Settled, Going, NEW w \in ToSet(lock), job[w].takes # {}, All' = Append(All, line[w])
  PROVE  /\ job[w].want = After(line[w].target) \o Carry(origin, Ofs(Tail(job[w].todo)))
         /\ After(line[w].target) \in Seq(Ids) /\ Ofs(Tail(job[w].todo)) \in Seq(Ids)
<1> DEFINE todo == job[w].todo
           rest == Ofs(Tail(todo))
           x == origin[line[w].id]
<1>1. /\ \A l \in Known(All) \cup {Root} : After(l) = Trail(l)
      /\ After(line[w].id) = Append(Trail(line[w].parent), x)
  BY TrailGrows
<1>2. /\ Known(All) \subseteq Ids /\ Known(entries) \subseteq Known(All) /\ leaf \in Known(All) \cup {Root}
      /\ origin \in [Ids -> Ids]
  BY KnownTyped
<1>3. line[w].parent = leaf /\ Withdrawing(w)
  BY DEF Going
<1>4. /\ todo \in Seq(Call) /\ todo # <<>> /\ DOMAIN todo = 1..Len(todo) /\ Head(todo) = todo[1] /\ 1 \in DOMAIN todo
      /\ \A i \in DOMAIN todo : todo[i].to \in Known(entries) \cup {Root}
      /\ line[w].id \in Ids
  <2>1. w \in Writers /\ line[w] \in Entry
    BY PendingFits
  <2>2. todo \in Seq(Call) /\ todo # <<>>
    BY <2>1 DEF Inv, TypeOK
  <2> HIDE DEF todo
  <2>3. DOMAIN todo = 1..Len(todo) /\ Head(todo) = todo[1] /\ 1 \in DOMAIN todo
    BY <2>2
  <2>4. \A i \in DOMAIN todo : todo[i].to \in Known(entries) \cup {Root}
    BY DEF Inv, Pending, todo
  <2> QED
    BY <2>1, <2>2, <2>3, <2>4 DEF Entry
<1>5. \A i \in DOMAIN todo : ~todo[i].moves => todo[i].of \in Ids
  BY <1>2, <1>3 DEF Withdrawing
<1>6. rest \in Seq(Ids) /\ (Head(todo).of \in Ids => Ofs(todo) = <<Head(todo).of>> \o rest)
  <2>1. \A i \in DOMAIN todo : i > 1 => todo[i].of \in Ids
    BY <1>3, <1>5 DEF Withdrawing
  <2> HIDE DEF todo
  <2> QED
    BY <1>4, <2>1, OfsTail
<1>7. \A l \in Known(All) \cup {Root} : Trail(l) \in Seq(Ids)
  BY <1>2, Trails DEF Inv
<1>8. CASE Head(todo).moves
  <2>1. line[w].target = Head(todo).to /\ job[w].want = Trail(Head(todo).to) \o Carry(origin, rest)
    BY <1>3, <1>8 DEF Withdrawing
  <2>2. Head(todo).to \in Known(All) \cup {Root}
    BY <1>2, <1>4
  <2> HIDE DEF todo, rest
  <2> QED
    BY <1>1, <1>6, <1>7, <2>1, <2>2 DEF todo, rest
<1>9. CASE ~Head(todo).moves
  <2>1. /\ line[w].target = line[w].id /\ x = origin[Head(todo).of]
        /\ job[w].want = Trail(leaf) \o Carry(origin, Ofs(todo))
    BY <1>3, <1>9 DEF Withdrawing
  <2>2. Head(todo).of \in Ids
    BY <1>4, <1>5, <1>9
  <2> DEFINE y == Head(todo).of
             A == Trail(leaf)
             B == Carry(origin, rest)
  <2>3. A \in Seq(Ids) /\ B \in Seq(Ids) /\ x \in Ids
    BY <1>2, <1>4, <1>6, <1>7, CarryTyped
  <2>4. Carry(origin, Ofs(todo)) = <<x>> \o B
    <3> HIDE DEF rest, todo, y
    <3>1. y \in Ids /\ x = origin[y] /\ Ofs(todo) = <<y>> \o rest
      BY <1>6, <2>1, <2>2 DEF y
    <3>2. <<y>> \in Seq(Ids) /\ <<>> \in Seq(Ids) /\ <<y>> = Append(<<>>, y) /\ <<x>> = Append(<<>>, x)
      BY <3>1
    <3>3. Carry(origin, <<y>>) = <<x>>
      <4>1. Carry(origin, Append(<<>>, y)) = Append(Carry(origin, <<>>), origin[y])
        BY <1>2, <3>1, <3>2, CarryMore
      <4> QED
        BY <3>1, <3>2, <4>1, CarryNothing
    <3>4. Carry(origin, <<y>> \o rest) = Carry(origin, <<y>>) \o Carry(origin, rest)
      BY <1>2, <1>6, <3>2, CarryJoin
    <3> QED
      BY <3>1, <3>3, <3>4
  <2>5. After(line[w].target) = Append(A, x)
    BY <1>1, <1>3, <2>1
  <2> HIDE DEF A, B, x, todo, rest
  <2>6. Append(A, x) \in Seq(Ids) /\ Append(A, x) = A \o <<x>> /\ <<x>> \in Seq(Ids)
    BY <2>3, AppendIsConcat
  <2>7. (A \o <<x>>) \o B = A \o (<<x>> \o B)
    BY <2>3, <2>6, ConcatAssociative
  <2>8. job[w].want = Append(A, x) \o B
    BY <2>1, <2>4, <2>6, <2>7 DEF A
  <2> QED
    BY <1>6, <2>5, <2>6, <2>8 DEF todo, rest, B
<1> QED
  BY <1>8, <1>9

\* Nothing that was withdrawn is on the path the entry at the lock will make.
LEMMA TargetOff ==
  ASSUME Inv, Inv', Settled, Going, KeptOff, damage = 0, NEW w \in ToSet(lock), All' = Append(All, line[w])
  PROVE  (away \cup (IF Head(job[w].todo).moves THEN job[w].takes ELSE {})) \cap ToSet(After(line[w].target)) = {}
<1> DEFINE h == Head(job[w].todo)
           x == origin[line[w].id]
<1>1. /\ \A l \in Known(All) \cup {Root} : After(l) = Trail(l)
      /\ After(line[w].id) = Append(Trail(line[w].parent), x)
  BY TrailGrows
<1>2. /\ Known(All) \subseteq Ids /\ Known(entries) \subseteq Known(All) /\ leaf \in Known(All) \cup {Root}
      /\ origin \in [Ids -> Ids]
  BY KnownTyped
<1>3. CASE job[w].takes = {}
  <2>1. Moving(w) /\ line[w].parent = leaf
    BY <1>3 DEF Going
  <2>2. Off(leaf) /\ (h.moves => Off(h.to)) /\ (~h.moves => x \notin away)
    BY <1>3 DEF KeptOff
  <2>3. CASE h.moves
    <3>1. line[w].target = h.to
      BY <2>1, <2>3 DEF Moving
    <3>2. h.to \in Known(All) \cup {Root}
      <4>1. w \in Writers
        BY PendingFits
      <4>2. job[w].todo \in Seq(Call) /\ job[w].todo # <<>>
        BY <4>1 DEF Inv, TypeOK
      <4>3. 1 \in DOMAIN job[w].todo /\ h = job[w].todo[1]
        BY <4>2
      <4>4. job[w].todo[1].to \in Known(entries) \cup {Root}
        BY <4>3 DEF Inv, Pending
      <4> QED
        BY <1>2, <4>3, <4>4
    <3>3. After(line[w].target) = Trail(h.to)
      BY <1>1, <3>1, <3>2
    <3> HIDE DEF h
    <3> QED
      BY <1>3, <2>2, <2>3, <3>3 DEF Off
  <2>4. CASE ~h.moves
    <3>1. line[w].target = line[w].id
      BY <2>1, <2>4 DEF Moving
    <3>2. Trail(leaf) \in Seq(Ids)
      BY <1>2, Trails DEF Inv
    <3>3. x \in Ids
      BY <1>2, PendingFits DEF Entry
    <3>4. ToSet(Append(Trail(leaf), x)) = ToSet(Trail(leaf)) \cup {x}
      BY <3>2, <3>3, Members
    <3>5. ToSet(After(line[w].target)) = ToSet(Trail(leaf)) \cup {x}
      BY <1>1, <2>1, <3>1, <3>4
    <3> HIDE DEF h, x
    <3> QED
      BY <1>3, <2>2, <2>4, <3>5 DEF Off
  <2> QED
    BY <2>3, <2>4
<1>4. CASE job[w].takes # {}
  <2>1. /\ job[w].want = After(line[w].target) \o Carry(origin, Ofs(Tail(job[w].todo)))
        /\ After(line[w].target) \in Seq(Ids) /\ Ofs(Tail(job[w].todo)) \in Seq(Ids)
    BY <1>4, Wanted
  <2>2. Carry(origin, Ofs(Tail(job[w].todo))) \in Seq(Ids)
    BY <1>2, <2>1, CarryTyped
  <2>3. ToSet(After(line[w].target)) \subseteq ToSet(job[w].want)
    <3>1. \A s, t \in Seq(Ids) : ToSet(s) \subseteq ToSet(s \o t)
      <4> SUFFICES ASSUME NEW s \in Seq(Ids), NEW t \in Seq(Ids) PROVE ToSet(s) \subseteq ToSet(s \o t)
        OBVIOUS
      <4>1. CASE Ids = {}
        <5>1. s = <<>>
          BY <4>1
        <5> QED
          BY <5>1 DEF ToSet
      <4>2. CASE Ids # {}
        <5>1. PICK i \in Ids : TRUE
          BY <4>2
        <5> QED
          BY Members
      <4> QED
        BY <4>1, <4>2
    <3> QED
      BY <2>1, <2>2, <3>1
  <2>4. away \cap ToSet(job[w].want) = {}
    BY <1>4 DEF KeptOff
  <2>5. job[w].takes \cap ToSet(job[w].want) = {}
    BY <1>4 DEF Going, Withdrawing
  <2> QED
    BY <2>3, <2>4, <2>5
<1> QED
  BY <1>3, <1>4

\* A call ends without its entry, though the line may have landed.
LEMMA LandSolo ==
  ASSUME Inv, Inv', ~Awaits, Solo, NEW w \in ToSet(lock), Landed(line[w]), origin' = origin, built' = built,
         away' = away,
         ToSet(lock') = {}, leaf' = leaf, damage' = damage,
         \A v \in Writers : job'[v].takes \subseteq job[v].takes
  PROVE  Solo'
<1>1. Aged /\ Once /\ Going /\ KeptOff
  BY DEF Solo
<1>2. Settled
  BY DEF Settled
<1>3. Aged'
  BY <1>1 DEF Aged
<1>4. Once'
  BY <1>1, <1>2, OnceLands
<1>5. Going'
  BY DEF Going
<1>6. KeptOff'
  <2> SUFFICES ASSUME damage = 0 PROVE away \cap ToSet(After(leaf)) = {}
                                       /\ away \cap ToSet(After(LastTarget(Readable(file')))) = {}
    BY DEF KeptOff, Off, Trail, After
  <2>1. Off(leaf) /\ Off(LastTarget(Readable(file)))
    BY <1>1 DEF KeptOff
  <2>2. leaf \in Known(All) \cup {Root} /\ LastTarget(Readable(file)) \in Known(All) \cup {Root}
    BY KnownTyped, LastTargetKnown
  <2>3. \A l \in Known(All) \cup {Root} : After(l) = Trail(l)
    BY <1>2, TrailLands
  <2>4. away \cap ToSet(After(leaf)) = {} /\ away \cap ToSet(After(LastTarget(Readable(file)))) = {}
    BY <2>1, <2>2, <2>3 DEF Off
  <2>5. CASE file' = file
    BY <2>4, <2>5
  <2>6. ASSUME NEW b \in BOOLEAN, file' = Append(file, [whole |-> b, entry |-> line[w]])
        PROVE  away \cap ToSet(After(LastTarget(Readable(file')))) = {}
    <3> DEFINE l == [whole |-> b, entry |-> line[w]]
    <3>1. file \in Seq(Line) /\ line[w] \in Entry /\ Readable(file) \in Seq(Entry)
      BY Typed, PendingFits DEF Inv
    <3>2. l \in Line /\ l.entry = line[w] /\ l.whole = b
      BY <3>1 DEF Line
    <3> HIDE DEF l
    <3>3. /\ All' = Append(All, line[w])
          /\ Readable(file') = IF b THEN Append(Readable(file), line[w]) ELSE Readable(file)
      BY <2>6, <3>1, <3>2, EntriesMore, ReadableMore DEF All, l
    <3>4. CASE b
      <4>1. Append(Readable(file), line[w]) # <<>> /\ Last(Append(Readable(file), line[w])) = line[w]
        BY <3>1 DEF Last
      <4>2. LastTarget(Readable(file')) = line[w].target
        BY <3>3, <3>4, <4>1 DEF LastTarget
      <4>3. (away \cup (IF Head(job[w].todo).moves THEN job[w].takes ELSE {})) \cap ToSet(After(line[w].target)) = {}
        BY <1>1, <1>2, <3>3, TargetOff
      <4> QED
        BY <4>2, <4>3
    <3>5. CASE ~b
      BY <2>4, <3>3, <3>5
    <3> QED
      BY <3>4, <3>5
  <2> QED
    BY <2>4, <2>5, <2>6 DEF Landed
<1> QED
  BY <1>3, <1>4, <1>5, <1>6 DEF Solo

LEMMA LeavesSolo ==
  ASSUME Inv, Inv', ~Awaits, Solo, NEW w, Fails(w) \/ Refuses(w) \/ GivesUp(w)
  PROVE  Solo'
<1>1. /\ up /\ w \in ToSet(lock)
      /\ \E q : ToSet(q) = ToSet(lock) \ {w} /\ Leaves(w, q)
      /\ Landed(line[w])
  <2>1. CASE Fails(w)
    <3>1. up /\ w \in ToSet(lock) /\ ToSet(Tail(lock)) = ToSet(lock) \ {w} /\ Leaves(w, Tail(lock))
      BY <2>1, AtHead DEF Fails
    <3>2. PICK cut \in Cuts : Put(line[w], cut)
      BY <2>1 DEF Fails
    <3>3. Landed(line[w])
      BY <3>1, <3>2, PutIs, PendingFits DEF Inv
    <3> QED
      BY <3>1, <3>3
  <2>2. CASE Refuses(w)
    <3>1. up /\ w \in ToSet(lock) /\ ToSet(Tail(lock)) = ToSet(lock) \ {w} /\ Leaves(w, Tail(lock))
      BY <2>2, AtHead DEF Refuses
    <3>2. Landed(line[w])
      BY <2>2 DEF Refuses, disk, Landed
    <3> QED
      BY <3>1, <3>2
  <2>3. CASE GivesUp(w)
    <3>1. up /\ w \in ToSet(lock) /\ Leaves(w, Without(lock, {w}))
      BY <2>3 DEF GivesUp
    <3>2. ToSet(Without(lock, {w})) = ToSet(lock) \ {w}
      BY WithoutFacts DEF Inv, TypeOK
    <3>3. Landed(line[w])
      BY <2>3 DEF GivesUp, disk, Landed
    <3> QED
      BY <3>1, <3>2, <3>3
  <2> QED
    BY <2>1, <2>2, <2>3
<1>2. PICK q : ToSet(q) = ToSet(lock) \ {w} /\ Leaves(w, q)
  BY <1>1
<1>3. /\ job' = [job EXCEPT ![w] = NoJob] /\ lock' = q
      /\ leaf' = leaf /\ built' = built /\ origin' = origin /\ away' = away /\ damage' = damage
  BY <1>2 DEF Leaves
<1>4. ToSet(lock') = {}
  <2>1. ToSet(lock) = {w}
    BY <1>1, OneAtATime DEF Inv
  <2> QED
    BY <1>2, <1>3, <2>1
<1>5. \A v \in Writers : job'[v].takes \subseteq job[v].takes
  <2>1. job \in [Writers -> Job] /\ NoJob.takes = {}
    BY DEF Inv, TypeOK, Job, NoJob
  <2> QED
    BY <1>3, <2>1
<1> QED
  BY <1>1, <1>3, <1>4, <1>5, LandSolo

LEMMA AwaySolo ==
  ASSUME Inv, Inv', ~Awaits, Solo, scope' = scope, Crash \/ Reopen \/ Damage
  PROVE  Solo'
<1>0. \A q : q = <<>> => ToSet(q) = {}
  BY DEF ToSet
<1>1. CASE Crash
  <2>1. /\ up /\ leaf' = leaf /\ built' = built /\ origin' = origin /\ away' = away /\ damage' = damage
        /\ lock' = <<>> /\ job' = [v \in Writers |-> NoJob]
    BY <1>1 DEF Crash, memory
  <2>2. ToSet(lock') = {} /\ \A v \in Writers : job'[v].takes \subseteq job[v].takes
    BY <1>0, <2>1 DEF NoJob
  <2>3. CASE lock = <<>>
    <3>1. file' = file /\ All' = All
      BY <1>1, <2>3 DEF Crash, disk, All
    <3> QED
      BY <2>1, <2>2, <3>1, StillSolo
  <2>4. CASE lock # <<>>
    <3>1. PICK cut \in Cuts : Put(line[Head(lock)], cut)
      BY <1>1, <2>4 DEF Crash
    <3>2. Head(lock) \in ToSet(lock)
      BY <2>4, QueueTail DEF Inv, TypeOK
    <3>3. Landed(line[Head(lock)])
      BY <2>1, <3>1, <3>2, PutIs, PendingFits DEF Inv
    <3> QED
      BY <2>1, <2>2, <3>2, <3>3, LandSolo
  <2> QED
    BY <2>3, <2>4
<1>2. CASE Reopen
  <2>1. /\ ~up /\ leaf' = LoadedLeaf(file) /\ file' = file /\ lock' = lock /\ job' = job
        /\ built' = built /\ origin' = origin /\ away' = away /\ damage' = damage
    BY <1>2 DEF Reopen, disk, bounds
  <2>2. ToSet(lock') = {}
    BY <1>0, <2>1 DEF Inv, Queued
  <2>3. All' = All
    BY <2>1 DEF All
  <2>4. damage = 0 => leaf' = LastTarget(Readable(file))
    <3>1. file \in Seq(Line)
      BY Typed DEF Inv
    <3> QED
      BY <2>1, <3>1, Loaded DEF Inv, Undamaged
  <2> QED
    BY <2>1, <2>2, <2>3, <2>4, StillSolo
<1>3. CASE Damage
  <2>1. /\ ~up /\ leaf' = leaf /\ lock' = lock /\ job' = job /\ built' = built /\ origin' = origin /\ away' = away
    BY <1>3 DEF Damage, memory
  <2>2. ToSet(lock') = {}
    BY <1>0, <2>1 DEF Inv, Queued
  <2>3. All' = All /\ damage' # 0
    BY <1>3, DamageKeeps
  <2> QED
    BY <2>1, <2>2, <2>3, StillSolo
<1> QED
  BY <1>1, <1>2, <1>3

-----------------------------------------------------------------------------
\* A write that returns, and the next entry of its call.
LEMMA WritesSolo ==
  ASSUME Inv, Inv', ~Awaits, Solo, NEW w, Writes(w)
  PROVE  Solo'
<1> DEFINE e == line[w]
           todo == job[w].todo
           moved == IF Head(todo).moves THEN job[w].takes ELSE {}
<1>1. Aged /\ Once /\ Going /\ KeptOff
  BY DEF Solo
<1>2. /\ Holds(w) /\ Put(e, "line") /\ entries' = Append(entries, e) /\ leaf' = e.target
      /\ away' = away \cup moved
      /\ IF Len(todo) = 1
         THEN /\ job' = [job EXCEPT ![w] = NoJob] /\ line' = [line EXCEPT ![w] = NoEntry]
              /\ lock' = Tail(lock)
              /\ built' = built /\ origin' = origin
         ELSE /\ job' = [job EXCEPT ![w].todo = Tail(@)]
              /\ Ask(w, todo[2], e.target, Tail(lock))
      /\ damage' = damage
  BY DEF Writes, bounds
<1>3. w \in ToSet(lock) /\ ToSet(Tail(lock)) = ToSet(lock) \ {w} /\ Tail(lock) \in Seq(Writers)
  BY <1>2, AtHead
<1>4. ToSet(lock) = {w} /\ w \in Writers /\ ToSet(Tail(lock)) = {}
  BY <1>3, OneAtATime DEF Inv
<1>5. /\ e \in Entry /\ file' = Append(file, [whole |-> TRUE, entry |-> e])
      /\ Known(entries') = Known(entries) \cup {e.id}
      /\ All' = Append(All, e) /\ Readable(file') = Append(Readable(file), e)
  BY <1>2, Written
<1>6. /\ job \in [Writers -> Job] /\ line \in [Writers -> Entry \cup {NoEntry}] /\ built \in Nat
      /\ todo \in Seq(Call) /\ todo # <<>> /\ DOMAIN todo = 1..Len(todo) /\ Head(todo) = todo[1]
      /\ built' \in 0..MaxEntries /\ MaxEntries \in Nat
      /\ Len(todo) \in Nat /\ Len(todo) >= 1
  <2>1. job \in [Writers -> Job] /\ line \in [Writers -> Entry \cup {NoEntry}]
        /\ built' \in 0..MaxEntries
    BY DEF Inv, TypeOK, Job
  <2>2. todo \in Seq(Call) /\ todo # <<>>
    BY <1>3, <1>4, <2>1 DEF Inv, TypeOK, Job
  <2>3. built \in Nat /\ MaxEntries \in Nat
    BY Bounds DEF Inv
  <2>4. \A q \in Seq(Call) : q # <<>> => DOMAIN q = 1..Len(q) /\ Head(q) = q[1] /\ Len(q) \in Nat /\ Len(q) >= 1
    OBVIOUS
  <2> HIDE DEF todo
  <2> QED
    BY <2>1, <2>2, <2>3, <2>4
<1>7. /\ Known(All) \subseteq Ids /\ Known(entries) \subseteq Known(All) /\ leaf \in Known(All) \cup {Root}
      /\ Known(All) \subseteq 1..built /\ 1..built \subseteq Ids
      /\ origin \in [Ids -> Ids]
  BY KnownTyped
<1> HIDE DEF e, todo, moved
<1>8. moved = (IF Head(todo).moves THEN job[w].takes ELSE {}) /\ moved \subseteq 1..built
  BY <1>1, <1>4 DEF moved, Aged
<1>9. ASSUME Len(todo) # 1
      PROVE  /\ built' = built + 1 /\ built + 1 \in Ids /\ ToSet(lock') = {w}
             /\ job'[w].todo = Tail(todo) /\ job'[w].takes = job[w].takes /\ job'[w].want = job[w].want
             /\ \A v \in Writers : job'[v].takes = job[v].takes
             /\ line'[w].id = built + 1 /\ line'[w].parent = ParentOf(todo[2], e.target, entries)
             /\ line'[w].target = IF todo[2].moves THEN todo[2].to ELSE built + 1
             /\ origin' = [origin EXCEPT ![built + 1] = IF todo[2].of = Root THEN built + 1 ELSE origin[todo[2].of]]
             /\ Tail(todo) \in Seq(Call) /\ Tail(todo) # <<>> /\ Head(Tail(todo)) = todo[2]
             /\ Len(Tail(todo)) = Len(todo) - 1 /\ \A i \in DOMAIN Tail(todo) : i + 1 \in DOMAIN todo /\ Tail(todo)[i] = todo[i + 1]
             /\ 2 \in DOMAIN todo
  <2>1. job' = [job EXCEPT ![w].todo = Tail(@)] /\ Ask(w, todo[2], e.target, Tail(lock))
    BY <1>2, <1>9
  <2>2. /\ built' = built + 1 /\ lock' = Append(Tail(lock), w)
        /\ line' = [line EXCEPT ![w] = [id |-> built + 1, parent |-> ParentOf(todo[2], e.target, entries),
                                        target |-> IF todo[2].moves THEN todo[2].to ELSE built + 1]]
        /\ origin' = [origin EXCEPT ![built + 1] = IF todo[2].of = Root THEN built + 1 ELSE origin[todo[2].of]]
    BY <2>1 DEF Ask
  <2>3. built + 1 \in Ids
    BY <1>6, <2>2 DEF Ids
  <2>4. ToSet(lock') = {w}
    <3>1. ToSet(Append(Tail(lock), w)) = ToSet(Tail(lock)) \cup {w}
      <4> DEFINE q == Tail(lock)
      <4>1. q \in Seq(Writers) /\ w \in Writers
        BY <1>3, <1>4
      <4> HIDE DEF q
      <4>2. ToSet(Append(q, w)) = ToSet(q) \cup {w}
        BY <4>1, Members
      <4> QED
        BY <4>2 DEF q
    <3> QED
      BY <1>4, <2>2, <3>1
  <2>5. /\ job'[w].todo = Tail(todo) /\ job'[w].takes = job[w].takes /\ job'[w].want = job[w].want
        /\ \A v \in Writers : job'[v].takes = job[v].takes
    <3>1. job' = [job EXCEPT ![w] = [job[w] EXCEPT !.todo = Tail(todo)]]
      BY <2>1 DEF todo
    <3>2. /\ [job[w] EXCEPT !.todo = Tail(todo)].todo = Tail(todo)
          /\ [job[w] EXCEPT !.todo = Tail(todo)].takes = job[w].takes
          /\ [job[w] EXCEPT !.todo = Tail(todo)].want = job[w].want
      BY <1>4, <1>6 DEF Job
    <3> QED
      BY <1>4, <1>6, <3>1, <3>2
  <2>6. /\ line'[w].id = built + 1 /\ line'[w].parent = ParentOf(todo[2], e.target, entries)
        /\ line'[w].target = IF todo[2].moves THEN todo[2].to ELSE built + 1
    BY <1>4, <1>6, <2>2
  <2>7. /\ Tail(todo) \in Seq(Call) /\ Len(Tail(todo)) = Len(todo) - 1 /\ DOMAIN Tail(todo) = 1..(Len(todo) - 1)
        /\ \A i \in 1..(Len(todo) - 1) : Tail(todo)[i] = todo[i + 1]
    BY <1>6, HeadTailProperties, LenProperties
  <2>8. Len(todo) >= 2 /\ 2 \in DOMAIN todo /\ 1 \in 1..(Len(todo) - 1)
        /\ \A i \in 1..(Len(todo) - 1) : i + 1 \in 1..Len(todo)
    BY <1>6, <1>9
  <2>9. Tail(todo) # <<>> /\ Head(Tail(todo)) = todo[2]
    <3> DEFINE t == Tail(todo)
    <3>1. t \in Seq(Call) /\ 1 \in DOMAIN t /\ t[1] = todo[2]
      BY <2>7, <2>8
    <3> HIDE DEF t
    <3>2. t # <<>> /\ Head(t) = t[1]
      BY <3>1
    <3> QED
      BY <3>1, <3>2 DEF t
  <2> QED
    BY <1>6, <2>2, <2>3, <2>4, <2>5, <2>6, <2>7, <2>8, <2>9
<1>10. Settled
  <2>1. CASE Len(todo) = 1
    BY <1>2, <2>1 DEF Settled
  <2>2. CASE Len(todo) # 1
    <3>1. \A i \in 1..built : i # built + 1
      BY <1>6
    <3> QED
      BY <1>7, <1>9, <2>2, <3>1 DEF Settled
  <2> QED
    BY <2>1, <2>2
<1>11. /\ \A l \in Known(All) \cup {Root} : After(l) = Trail(l)
       /\ After(e.id) = Append(Trail(e.parent), origin[e.id])
       /\ Known(All') = Known(All) \cup {e.id}
  BY <1>3, <1>5, <1>10, TrailGrows DEF e
\* What the next entry brings back was built before it.
<1>12. ASSUME Len(todo) # 1
       PROVE  /\ job[w].takes = {} => /\ todo[2] = [New EXCEPT !.pinned = TRUE, !.to = Head(todo).to] /\ Head(todo).moves
                                      /\ Len(todo) = 2 /\ todo[2].of = Root /\ ~todo[2].moves /\ todo[2].pinned
                                      /\ todo[2].to = Head(todo).to /\ e.target = Head(todo).to
              /\ job[w].takes # {} => /\ ~todo[2].moves /\ ~todo[2].pinned /\ todo[2].of \in Known(entries)
  <2>1. Len(todo) >= 2 /\ 2 \in DOMAIN todo /\ 1 \in DOMAIN todo
    BY <1>6, <1>9, <1>12
  <2>2. ASSUME job[w].takes = {}
        PROVE  /\ todo[2] = [New EXCEPT !.pinned = TRUE, !.to = Head(todo).to] /\ Head(todo).moves
               /\ Len(todo) = 2 /\ todo[2].of = Root /\ ~todo[2].moves /\ todo[2].pinned
               /\ todo[2].to = Head(todo).to /\ e.target = Head(todo).to
    <3>1. Moving(w)
      BY <1>1, <1>3, <2>2 DEF Going
    <3>2. Len(todo) <= 2
      BY <3>1 DEF Moving, todo
    <3>3. Len(todo) = 2
      BY <1>6, <2>1, <3>2
    <3>4. /\ todo[2] = [New EXCEPT !.pinned = TRUE, !.to = Head(todo).to] /\ Head(todo).moves
          /\ e.target = Head(todo).to
      BY <3>1, <3>3 DEF Moving, todo, e
    <3>5. todo[2].of = Root /\ ~todo[2].moves /\ todo[2].pinned /\ todo[2].to = Head(todo).to
      BY <3>4 DEF New
    <3> QED
      BY <3>3, <3>4, <3>5
  <2>3. ASSUME job[w].takes # {} PROVE ~todo[2].moves /\ ~todo[2].pinned /\ todo[2].of \in Known(entries)
    <3>1. Withdrawing(w)
      BY <1>1, <1>3, <2>3 DEF Going
    <3> QED
      BY <2>1, <3>1 DEF Withdrawing, todo
  <2> QED
    BY <2>2, <2>3
<1>13. ASSUME Len(todo) # 1, job[w].takes # {}
       PROVE  origin'[built + 1] = origin[todo[2].of] /\ todo[2].of \in 1..built /\ todo[2].of # Root
  <2>1. todo[2].of \in Known(entries)
    BY <1>12, <1>13
  <2>2. todo[2].of \in 1..built
    BY <1>7, <2>1
  <2>3. todo[2].of # Root
    BY <1>6, <2>2 DEF Root
  <2> QED
    BY <1>7, <1>9, <1>13, <2>2, <2>3
<1>14. ASSUME Len(todo) # 1, job[w].takes = {}
       PROVE  origin'[built + 1] = built + 1
  BY <1>7, <1>9, <1>12, <1>14
<1>15. Aged'
  <2>1. \A i \in 1..built' : origin'[i] \in 1..i
    <3>1. \A i \in 1..built : origin'[i] \in 1..i
      BY <1>1, <1>10 DEF Aged, Settled
    <3>2. CASE Len(todo) = 1
      BY <1>2, <3>1, <3>2
    <3>3. CASE Len(todo) # 1
      <4>1. built' = built + 1
        BY <1>9, <3>3
      <4>2. origin'[built + 1] \in 1..(built + 1)
        <5>1. CASE job[w].takes = {}
          BY <1>6, <1>14, <3>3, <5>1
        <5>2. CASE job[w].takes # {}
          <6> DEFINE f == todo[2].of
          <6>1. origin'[built + 1] = origin[f] /\ f \in 1..built
            BY <1>13, <3>3, <5>2
          <6> HIDE DEF f
          <6>2. origin[f] \in 1..f
            BY <1>1, <6>1 DEF Aged
          <6> QED
            BY <1>6, <6>1, <6>2
        <5> QED
          BY <5>1, <5>2
      <4>3. \A i \in 1..(built + 1) : i \in 1..built \/ i = built + 1
        BY <1>6
      <4> QED
        BY <3>1, <4>1, <4>2, <4>3
    <3> QED
      BY <3>2, <3>3
  <2>2. 1..built \subseteq 1..built'
    <3>1. built' = built \/ built' = built + 1
      BY <1>2, <1>9
    <3> QED
      BY <1>6, <3>1
  <2>3. away' \subseteq 1..built'
    BY <1>1, <1>2, <1>8, <2>2 DEF Aged
  <2>4. \A v \in Writers : job'[v].takes \subseteq 1..built'
    <3>1. CASE Len(todo) = 1
      <4>1. \A v \in Writers : job'[v].takes = job[v].takes \/ job'[v].takes = {}
        <5>1. NoJob.takes = {}
          BY DEF NoJob
        <5> QED
          BY <1>2, <1>4, <1>6, <3>1, <5>1
      <4> QED
        BY <1>1, <2>2, <4>1 DEF Aged
    <3>2. CASE Len(todo) # 1
      BY <1>1, <1>9, <2>2, <3>2 DEF Aged
    <3> QED
      BY <3>1, <3>2
  <2> QED
    BY <2>1, <2>3, <2>4 DEF Aged
<1>16. Once'
  <2>1. Landed(line[w])
    BY <1>5 DEF Landed, e
  <2> QED
    BY <1>1, <1>3, <1>10, <2>1, OnceLands
<1>17. ASSUME job[w].takes # {}
       PROVE  /\ job[w].want = After(e.target) \o Carry(origin, Ofs(Tail(todo)))
              /\ After(e.target) \in Seq(Ids) /\ Ofs(Tail(todo)) \in Seq(Ids)
  BY <1>1, <1>3, <1>5, <1>10, <1>17, Wanted DEF e, todo
<1>18. Going'
  <2>1. CASE Len(todo) = 1
    BY <1>2, <1>4, <2>1 DEF Going
  <2>2. CASE Len(todo) # 1
    <3> DEFINE n == built + 1
    <3>1. /\ ToSet(lock') = {w} /\ job'[w].todo = Tail(todo) /\ job'[w].takes = job[w].takes
          /\ job'[w].want = job[w].want
          /\ line'[w].id = n /\ line'[w].parent = ParentOf(todo[2], e.target, entries)
          /\ line'[w].target = (IF todo[2].moves THEN todo[2].to ELSE n)
          /\ Tail(todo) # <<>> /\ Head(Tail(todo)) = todo[2] /\ Len(Tail(todo)) = Len(todo) - 1
          /\ \A i \in DOMAIN Tail(todo) : i + 1 \in DOMAIN todo /\ Tail(todo)[i] = todo[i + 1]
          /\ Tail(todo) \in Seq(Call)
      BY <1>9, <2>2
    <3>2. line'[w].parent = leaf'
      BY <1>2, <1>12, <2>2, <3>1 DEF ParentOf
    <3>3. CASE job[w].takes = {}
      <4>1. /\ Len(todo) = 2 /\ ~todo[2].moves /\ e.target = Head(todo).to
        BY <1>12, <2>2, <3>3
      <4>2. e.target \in Known(All) \cup {Root}
        <5>1. todo[1].to \in Known(entries) \cup {Root}
          <6>1. 1 \in DOMAIN todo
            BY <1>6
          <6> QED
            BY <1>3, <6>1 DEF Inv, Pending, todo
        <5> QED
          BY <1>6, <1>7, <4>1, <5>1
      <4>3. After(leaf') = Trail(e.target)
        BY <1>2, <1>11, <4>2
      <4>4. ToSet(Trail(e.target)) \subseteq 1..built
        BY <1>1, <1>7, <4>2, TrailOld
      <4>5. origin'[n] \notin ToSet(After(leaf'))
        <5>1. origin'[n] = n
          BY <1>14, <2>2, <3>3
        <5>2. n \notin 1..built
          BY <1>6
        <5> QED
          BY <4>3, <4>4, <5>1, <5>2
      <4>6. Moving(w)'
        <5>1. Len(Tail(todo)) = 1
          BY <3>1, <4>1
        <5>2. Len(job'[w].todo) = 1 /\ ~Head(job'[w].todo).moves /\ line'[w].target = line'[w].id
          BY <3>1, <4>1, <5>1
        <5> QED
          BY <5>2 DEF Moving
      <4> QED
        BY <3>1, <3>2, <3>3, <4>5, <4>6 DEF Going, Trail, After
    <3>4. CASE job[w].takes # {}
      <4>1. Withdrawing(w)
        BY <1>1, <1>3, <3>4 DEF Going
      <4>2. /\ ~todo[2].moves /\ ~todo[2].pinned /\ todo[2].of \in Known(entries)
            /\ origin'[n] = origin[todo[2].of] /\ todo[2].of \in 1..built
        BY <1>12, <1>13, <2>2, <3>4
      <4>3. \A i \in DOMAIN todo : i > 1 => ~todo[i].moves /\ ~todo[i].pinned /\ todo[i].of \in Known(entries)
        BY <4>1 DEF Withdrawing, todo
      <4> DEFINE rest == Ofs(Tail(todo))
      <4>4. /\ \A x \in ToSet(rest) : \E i \in DOMAIN todo : i > 1 /\ x = todo[i].of
            /\ todo[2].of \in ToSet(rest)
        <5>1. \A i \in DOMAIN todo : i > 1 => todo[i].of \in Ids
          BY <1>7, <4>3
        <5> QED
          BY <1>6, <2>2, <5>1, OfsTail
      <4>5. job[w].want = After(e.target) \o Carry(origin, rest) /\ After(e.target) \in Seq(Ids) /\ rest \in Seq(Ids)
        BY <1>17, <3>4
      <4> HIDE DEF rest
      <4>6. Carry(origin, rest) \in Seq(Ids) /\ ToSet(Carry(origin, rest)) = {origin[x] : x \in ToSet(rest)}
        BY <1>7, <4>5, CarryTyped
      <4>7. origin'[n] \notin ToSet(After(leaf'))
        <5>1. IsInjective(job[w].want)
          BY <4>1 DEF Withdrawing
        <5>2. ToSet(After(e.target)) \cap ToSet(Carry(origin, rest)) = {}
          BY <4>5, <4>6, <5>1, JoinInjective
        <5>3. origin'[n] \in ToSet(Carry(origin, rest))
          BY <4>2, <4>4, <4>6
        <5> QED
          BY <1>2, <5>2, <5>3
      <4>8. Carry(origin', rest) = Carry(origin, rest)
        <5>1. \A x \in ToSet(rest) : x \in 1..built
          BY <1>7, <4>3, <4>4
        <5>2. \A x \in ToSet(rest) : origin'[x] = origin[x]
          BY <1>10, <5>1 DEF Settled
        <5> QED
          BY <5>2, CarrySame
      <4>9. Withdrawing(w)'
        <5>1. IsInjective(job'[w].want) /\ job'[w].takes \cap ToSet(job'[w].want) = {}
          BY <3>1, <4>1 DEF Withdrawing
        <5>2. \A i \in DOMAIN Tail(todo) : ~Tail(todo)[i].moves /\ ~Tail(todo)[i].pinned /\ Tail(todo)[i].of \in Known(entries')
          <6> SUFFICES ASSUME NEW i \in DOMAIN Tail(todo)
                       PROVE ~Tail(todo)[i].moves /\ ~Tail(todo)[i].pinned /\ Tail(todo)[i].of \in Known(entries')
            OBVIOUS
          <6>1. i + 1 \in DOMAIN todo /\ Tail(todo)[i] = todo[i + 1]
            BY <3>1
          <6>2. i + 1 > 1
            <7>1. i \in 1..Len(Tail(todo))
              BY <3>1, LenProperties
            <7> QED
              BY <7>1
          <6> QED
            BY <1>5, <4>3, <6>1, <6>2
        <5>3. line'[w].target = line'[w].id /\ origin'[line'[w].id] = origin'[Head(Tail(todo)).of]
          <6>1. origin'[todo[2].of] = origin[todo[2].of]
            BY <1>10, <4>2 DEF Settled
          <6> QED
            BY <3>1, <4>2, <6>1
        <5>4. job'[w].want = After(leaf') \o Carry(origin', rest)
          BY <1>2, <3>1, <4>5, <4>8
        <5>5. ~Head(Tail(todo)).moves
          BY <3>1, <4>2
        <5> QED
          BY <3>1, <5>1, <5>2, <5>3, <5>4, <5>5 DEF Withdrawing, Trail, After, rest
      <4> QED
        BY <3>1, <3>2, <3>4, <4>7, <4>9 DEF Going, Trail, After
    <3> QED
      BY <3>3, <3>4
  <2> QED
    BY <2>1, <2>2
<1>19. KeptOff'
  <2> SUFFICES ASSUME damage = 0
               PROVE  /\ away' \cap ToSet(After(leaf')) = {}
                      /\ LastTarget(Readable(file')) = leaf'
                      /\ \A v \in ToSet(lock') :
                           IF job'[v].takes = {} THEN ~Head(job'[v].todo).moves /\ origin'[line'[v].id] \notin away'
                           ELSE away' \cap ToSet(job'[v].want) = {}
    BY <1>2 DEF KeptOff, Off, Trail, After
  <2>1. away' \cap ToSet(After(leaf')) = {}
    <3>1. (away \cup (IF Head(job[w].todo).moves THEN job[w].takes ELSE {})) \cap ToSet(After(line[w].target)) = {}
      BY <1>1, <1>3, <1>5, <1>10, TargetOff DEF e
    <3> QED
      BY <1>2, <1>8, <3>1 DEF e, todo
  <2>2. LastTarget(Readable(file')) = leaf'
    <3>1. Readable(file) \in Seq(Entry)
      BY Typed DEF Inv
    <3>2. \A s \in Seq(Entry), d \in Entry : Append(s, d) # <<>> /\ Last(Append(s, d)) = d
      BY DEF Last
    <3> QED
      BY <1>2, <1>5, <3>1, <3>2 DEF LastTarget
  <2>3. CASE Len(todo) = 1
    BY <1>2, <1>4, <2>1, <2>2, <2>3
  <2>4. CASE Len(todo) # 1
    <3>1. /\ ToSet(lock') = {w} /\ job'[w].todo = Tail(todo) /\ job'[w].takes = job[w].takes
          /\ job'[w].want = job[w].want
          /\ line'[w].id = built + 1 /\ Head(Tail(todo)) = todo[2]
      BY <1>9, <2>4
    <3>2. CASE job[w].takes = {}
      <4>1. ~todo[2].moves /\ origin'[built + 1] = built + 1
        BY <1>12, <1>14, <2>4, <3>2
      <4>2. built + 1 \notin away'
        <5>1. away' \subseteq 1..built
          BY <1>1, <1>2, <1>8 DEF Aged
        <5>2. built + 1 \notin 1..built
          BY <1>6
        <5> QED
          BY <5>1, <5>2
      <4> QED
        BY <2>1, <2>2, <3>1, <3>2, <4>1, <4>2
    <3>3. CASE job[w].takes # {}
      <4>1. away \cap ToSet(job[w].want) = {}
        BY <1>1, <1>3, <3>3 DEF KeptOff
      <4>2. job[w].takes \cap ToSet(job[w].want) = {}
        BY <1>1, <1>3, <3>3 DEF Going, Withdrawing
      <4> QED
        BY <1>2, <1>8, <2>1, <2>2, <3>1, <3>3, <4>1, <4>2
    <3> QED
      BY <3>2, <3>3
  <2> QED
    BY <2>3, <2>4
<1> QED
  BY <1>15, <1>16, <1>18, <1>19 DEF Solo

-----------------------------------------------------------------------------
\* A call that begins, with nothing beside it.
LEMMA BeginSolo ==
  ASSUME Inv, Inv', ~Awaits, Solo, scope' = scope, NEW w \in Writers, NEW calls \in Seq(Call),
         NEW takes \in SUBSET (1..built),
         NEW want, calls # <<>>, Begin(w, calls, takes, want), away' \subseteq away,
         Head(calls).of = Root, ~Head(calls).pinned, Head(calls).to \in Known(entries) \cup {Root},
         takes = {} => /\ Len(calls) <= 2
                       /\ Len(calls) = 2 => /\ Head(calls).moves
                                            /\ calls[2] = [New EXCEPT !.pinned = TRUE, !.to = Head(calls).to]
                       /\ Head(calls).moves => away' \cap ToSet(Trail(Head(calls).to)) = {},
         takes # {} => /\ Head(calls).moves /\ IsInjective(want) /\ takes \cap ToSet(want) = {}
                       /\ \A i \in DOMAIN calls : i > 1 => /\ ~calls[i].moves /\ ~calls[i].pinned
                                                           /\ calls[i].of \in Known(entries)
                       /\ want = Trail(Head(calls).to) \o Carry(origin, Ofs(Tail(calls)))
                       /\ ToSet(want) \subseteq ToSet(Trail(leaf))
  PROVE  Solo'
<1> DEFINE c == Head(calls)
           n == built + 1
<1>1. Aged /\ Once /\ Going /\ KeptOff
  BY DEF Solo
<1>2. /\ job[w].todo = <<>> /\ lock = <<>>
      /\ job' = [job EXCEPT ![w] = [todo |-> calls, takes |-> takes, want |-> want]]
      /\ Ask(w, c, leaf, lock)
      /\ file' = file /\ entries' = entries /\ leaf' = leaf /\ damage' = damage
  BY DEF Begin, disk, memory, bounds
<1>3. /\ built' = n /\ lock' = Append(lock, w)
      /\ line' = [line EXCEPT ![w] = [id |-> n, parent |-> ParentOf(c, leaf, entries),
             target |-> IF c.moves THEN c.to ELSE n]]
      /\ origin' = [origin EXCEPT ![n] = IF c.of = Root THEN n ELSE origin[c.of]]
  BY <1>2 DEF Ask
<1>4. /\ Known(All) \subseteq Ids /\ Known(entries) \subseteq Known(All) /\ leaf \in Known(All) \cup {Root}
      /\ Known(All) \subseteq 1..built /\ built \in Nat /\ 1..built \subseteq Ids
      /\ origin \in [Ids -> Ids]
  BY KnownTyped
<1>5. n \in Ids /\ n \notin 1..built /\ 1..built \subseteq 1..n
  <2>1. built' \in 0..MaxEntries /\ MaxEntries \in Nat
    BY Bounds DEF Inv, TypeOK
  <2> QED
    BY <1>3, <1>4, <2>1 DEF Ids
<1>6. origin'[n] = n /\ \A i \in Ids : i # n => origin'[i] = origin[i]
  BY <1>3, <1>4, <1>5
<1>7. Settled
  BY <1>4, <1>5, <1>6 DEF Settled
<1>8. All' = All
  BY <1>2 DEF All
<1>9. ToSet(lock') = {w}
  <2>1. lock' = <<w>>
    BY <1>2, <1>3
  <2>2. \A i \in DOMAIN lock' : lock'[i] = w
    BY <2>1
  <2>3. 1 \in DOMAIN lock' /\ lock'[1] = w
    BY <2>1
  <2> QED
    BY <2>2, <2>3 DEF ToSet
<1>10. /\ job'[w].todo = calls /\ job'[w].takes = takes /\ job'[w].want = want
       /\ \A v \in Writers : v # w => job'[v] = job[v]
       /\ line'[w].id = n /\ line'[w].parent = leaf /\ line'[w].target = IF c.moves THEN c.to ELSE n
  <2>1. job \in [Writers -> Job] /\ line \in [Writers -> Entry \cup {NoEntry}]
    BY DEF Inv, TypeOK, Job
  <2>2. ParentOf(c, leaf, entries) = leaf
    BY DEF ParentOf
  <2> HIDE DEF c, n
  <2> QED
    BY <1>2, <1>3, <2>1, <2>2
<1>11. c.to \in Known(All) \cup {Root} /\ c.to \in Ids \cup {Root} /\ leaf \in Ids \cup {Root}
  BY <1>4
<1>12. /\ After(leaf) = Trail(leaf) /\ After(c.to) = Trail(c.to)
       /\ ToSet(Trail(leaf)) \subseteq 1..built
  BY <1>1, <1>7, <1>8, <1>11, TrailStays, TrailOld
<1>13. Aged'
  <2>1. \A i \in 1..n : origin'[i] \in 1..i
    <3> SUFFICES ASSUME NEW i \in 1..n PROVE origin'[i] \in 1..i
      OBVIOUS
    <3>1. CASE i = n
      BY <1>4, <1>6, <3>1
    <3>2. CASE i # n
      <4>1. i \in 1..built
        BY <1>4, <3>2
      <4> QED
        BY <1>1, <1>7, <4>1 DEF Aged, Settled
    <3> QED
      BY <3>1, <3>2
  <2>2. \A v \in Writers : job'[v].takes \subseteq 1..n
    BY <1>1, <1>5, <1>10 DEF Aged
  <2>3. away' \subseteq 1..n
    BY <1>1, <1>5 DEF Aged
  <2> HIDE DEF n
  <2> QED
    BY <1>3, <2>1, <2>2, <2>3 DEF Aged
<1>14. Once'
  BY <1>1, <1>7, <1>8, OnceStays
<1>15. takes # {} => want = After(c.to) \o Carry(origin', Ofs(Tail(calls)))
  <2> SUFFICES ASSUME takes # {} PROVE want = After(c.to) \o Carry(origin', Ofs(Tail(calls)))
    OBVIOUS
  <2> DEFINE rest == Ofs(Tail(calls))
  <2>1. \A x \in ToSet(rest) : \E i \in DOMAIN calls : i > 1 /\ x = calls[i].of
    <3>1. \A i \in DOMAIN calls : i > 1 => calls[i].of \in Ids
      BY <1>4
    <3> QED
      BY <3>1, OfsTail
  <2> HIDE DEF rest
  <2>2. \A x \in ToSet(rest) : origin'[x] = origin[x]
    BY <1>4, <1>7, <2>1 DEF Settled
  <2>3. Carry(origin, rest) = Carry(origin', rest)
    <3> DEFINE o == origin'
    <3>1. \A x \in ToSet(rest) : origin[x] = o[x]
      BY <2>2
    <3> HIDE DEF o
    <3>2. Carry(origin, rest) = Carry(o, rest)
      BY <3>1, CarrySame
    <3> QED
      BY <3>2 DEF o
  <2>4. want = Trail(c.to) \o Carry(origin, rest)
    BY DEF rest
  <2> QED
    BY <1>12, <2>3, <2>4 DEF rest
<1>16. Going'
  <2>1. line'[w].parent = leaf' /\ origin'[line'[w].id] \notin ToSet(After(leaf'))
    BY <1>2, <1>5, <1>6, <1>10, <1>12
  <2>2. CASE takes = {}
    <3>1. Moving(w)'
      BY <1>10, <2>2 DEF Moving
    <3> QED
      BY <1>9, <1>10, <2>1, <2>2, <3>1 DEF Going, Trail, After
  <2>3. CASE takes # {}
    <3>1. \A i \in DOMAIN calls : ~calls[i].moves => i > 1
      <4>1. \A i \in DOMAIN calls : i \in Nat /\ (i # 1 => i > 1)
        <5>1. DOMAIN calls = 1..Len(calls)
          BY LenProperties
        <5> QED
          BY <5>1
      <4>2. calls[1] = Head(calls)
        OBVIOUS
      <4> QED
        BY <2>3, <4>1, <4>2
    <3>2. Withdrawing(w)'
      BY <1>2, <1>10, <1>15, <2>3, <3>1 DEF Withdrawing, Trail, After
    <3> QED
      BY <1>9, <1>10, <2>1, <2>3, <3>2 DEF Going, Trail, After
  <2> QED
    BY <2>2, <2>3
<1>17. KeptOff'
  <2> SUFFICES ASSUME damage = 0
               PROVE  /\ away' \cap ToSet(After(leaf)) = {}
                      /\ away' \cap ToSet(After(LastTarget(Readable(file)))) = {}
                      /\ IF takes = {} THEN IF c.moves THEN away' \cap ToSet(After(c.to)) = {} ELSE n \notin away'
                         ELSE away' \cap ToSet(want) = {}
    BY <1>2, <1>6, <1>9, <1>10 DEF KeptOff, Off, Trail, After
  <2>1. Off(leaf) /\ Off(LastTarget(Readable(file)))
    BY <1>1 DEF KeptOff
  <2>2. LastTarget(Readable(file)) \in Ids \cup {Root}
    BY <1>4, LastTargetKnown
  <2>3. After(LastTarget(Readable(file))) = Trail(LastTarget(Readable(file)))
    BY <1>7, <1>8, <2>2, TrailStays
  <2>4. n \notin away'
    BY <1>1, <1>5 DEF Aged
  <2> QED
    BY <1>12, <2>1, <2>3, <2>4 DEF Off
<1> QED
  BY <1>13, <1>14, <1>16, <1>17 DEF Solo

LEMMA AppendEntrySolo ==
  ASSUME Inv, Inv', ~Awaits, Solo, scope' = scope, NEW w \in Writers, AppendEntry(w)
  PROVE  Solo'
<1> DEFINE calls == <<New>>
<1>1. New \in Call /\ New.to = Root /\ New.of = Root /\ ~New.moves /\ ~New.pinned
  BY CallsTyped
<1>2. Begin(w, calls, {}, <<>>) /\ away' \subseteq away
  BY DEF AppendEntry
<1>3. calls \in Seq(Call) /\ calls # <<>> /\ Head(calls) = New /\ Len(calls) = 1
  <2>1. \A x \in Call : <<x>> \in Seq(Call) /\ <<x>> # <<>> /\ Head(<<x>>) = x /\ Len(<<x>>) = 1
    OBVIOUS
  <2> QED
    BY <1>1, <2>1
<1> HIDE DEF calls
<1>4. /\ Len(calls) <= 2 /\ Len(calls) # 2 /\ ~Head(calls).moves
      /\ Head(calls).of = Root /\ ~Head(calls).pinned /\ Head(calls).to \in Known(entries) \cup {Root}
      /\ {} \in SUBSET (1..built)
  BY <1>1, <1>3
<1> QED
  BY <1>2, <1>3, <1>4, BeginSolo

LEMMA MoveLeafSolo ==
  ASSUME Inv, Inv', ~Awaits, Solo, scope' = scope, NEW w \in Writers, MoveLeaf(w)
  PROVE  Solo'
<1>1. PICK t \in Known(entries) \cup {Root}, summary \in BOOLEAN :
        /\ Begin(w, IF summary THEN <<MoveTo(t), [New EXCEPT !.pinned = TRUE, !.to = t]>> ELSE <<MoveTo(t)>>,
                 {}, <<>>)
        /\ away' = away \ ToSet(Contents(Path(entries, t)))
  BY DEF MoveLeaf
<1> DEFINE calls == IF summary THEN <<MoveTo(t), [New EXCEPT !.pinned = TRUE, !.to = t]>> ELSE <<MoveTo(t)>>
<1>2. t \in Ids \cup {Root}
  BY Typed, KnownIds DEF Inv
<1>3. /\ calls \in Seq(Call) /\ calls # <<>> /\ Head(calls) = MoveTo(t) /\ Len(calls) <= 2
      /\ Len(calls) = 2 => calls[2] = [New EXCEPT !.pinned = TRUE, !.to = t]
  <2>1. MoveTo(t) \in Call /\ [New EXCEPT !.pinned = TRUE, !.to = t] \in Call
    BY <1>2, CallsTyped
  <2>2. \A x, y \in Call :
          /\ <<x, y>> \in Seq(Call) /\ <<x, y>> # <<>> /\ Head(<<x, y>>) = x /\ Len(<<x, y>>) = 2 /\ <<x, y>>[2] = y
          /\ <<x>> \in Seq(Call) /\ <<x>> # <<>> /\ Head(<<x>>) = x /\ Len(<<x>>) = 1
    OBVIOUS
  <2> QED
    BY <2>1, <2>2
<1>4. Begin(w, calls, {}, <<>>)
  BY <1>1
<1> HIDE DEF calls
<1>5. /\ Head(calls).of = Root /\ ~Head(calls).pinned /\ Head(calls).to = t /\ Head(calls).moves
  BY <1>2, <1>3, CallsTyped
<1>6. away' \subseteq away /\ away' \cap ToSet(Trail(t)) = {}
  <2>1. Contents(Path(entries, t)) = Trail(t)
    <3>1. Path(entries, t) = Path(All, t)
      BY Trails DEF Inv
    <3> QED
      BY <3>1 DEF Contents, Carry, Trail
  <2> QED
    BY <1>1, <2>1
<1>7. {} \in SUBSET (1..built)
  OBVIOUS
<1> QED
  BY <1>3, <1>4, <1>5, <1>6, <1>7, BeginSolo

LEMMA WithdrawSolo ==
  ASSUME Inv, Inv', ~Awaits, Solo, scope' = scope, NEW w \in Writers, WithdrawTail(w)
  PROVE  Solo'
<1>0. PICK n, gone, t, back, calls, takes, want : Withdraws(w, n, gone, t, back, calls, takes, want)
  BY WithdrawIs
<1> DEFINE path == Path(All, leaf)
           pre == SubSeq(path, 1, n)
           tail == SubSeq(path, n + 1, Len(path))
<1>1. /\ Known(All) \subseteq Ids /\ Known(entries) \subseteq Known(All) /\ leaf \in Known(All) \cup {Root}
      /\ leaf \in Ids \cup {Root} /\ origin \in [Ids -> Ids] /\ built \in Nat /\ 1..built \subseteq Ids
  BY KnownTyped
<1>2. /\ path \in Seq(Ids) /\ ToSet(path) \subseteq 1..built /\ Path(entries, leaf) = path
      /\ All \in Seq(Entry) /\ Apart(All) /\ Rising(All)
  <2>1. leaf \in Known(entries) \cup {Root} /\ Apart(All) /\ Rising(All)
    BY DEF Inv, Hanging
  <2> QED
    BY <1>1, <2>1, Trails DEF Inv
<1>3. Trail(leaf) = Carry(origin, path) /\ IsInjective(Carry(origin, path))
  BY <1>1 DEF Solo, Once, Trail
<1>4. /\ n \in 0..Len(path) /\ t \in Known(entries) \cup {Root} /\ t = IF n = 0 THEN Root ELSE path[n]
      /\ gone # {} /\ gone \subseteq ToSet(tail) /\ back \in Seq(Known(entries)) /\ back = Without(tail, gone)
      /\ calls \in Seq(Call) /\ calls # <<>> /\ Len(calls) = Len(back) + 1 /\ Head(calls) = MoveTo(t)
      /\ \A i \in 1..Len(back) : calls[i + 1] = [New EXCEPT !.of = back[i]]
      /\ takes = {origin[i] : i \in gone} /\ want = Carry(origin, Without(path, gone))
      /\ Begin(w, calls, takes, want) /\ away' = away
  BY <1>0, <1>2 DEF Withdraws, Contents, Carry
\* Before the withdrawn entries and after them.
<1>6. Path(All, t) = pre
  <2>1. CASE n = 0
    <3>1. Path(All, Root) = <<>>
      BY <1>2, PathIs
    <3>2. pre = <<>>
      BY <1>2, <2>1
    <3> QED
      BY <1>4, <2>1, <3>1, <3>2
  <2>2. CASE n # 0
    <3>1. n \in 1..Len(Path(All, leaf))
      BY <1>2, <1>4, <2>2
    <3>2. Path(All, Path(All, leaf)[n]) = SubSeq(Path(All, leaf), 1, n)
      BY <1>1, <1>2, <3>1, PathPrefix
    <3> QED
      BY <1>4, <2>2, <3>2
  <2> QED
    BY <2>1, <2>2
<1> HIDE DEF path
<1>7. path = pre \o tail /\ pre \in Seq(Ids) /\ tail \in Seq(Ids)
  <2>1. Len(path) \in Nat /\ n \in 0..Len(path)
    BY <1>2, <1>4
  <2>2. /\ pre \in Seq(Ids) /\ Len(pre) = n /\ \A i \in 1..n : pre[i] = path[i]
        /\ tail \in Seq(Ids) /\ Len(tail) = Len(path) - n /\ \A i \in 1..(Len(path) - n) : tail[i] = path[n + i]
    BY <1>2, <2>1
  <2> DEFINE b == pre
             a == tail
  <2>3. /\ b \in Seq(Ids) /\ Len(b) = n /\ \A i \in 1..n : b[i] = path[i]
        /\ a \in Seq(Ids) /\ Len(a) = Len(path) - n /\ \A i \in 1..(Len(path) - n) : a[i] = path[n + i]
    BY <2>2
  <2> HIDE DEF a, b, pre, tail
  <2>4. b \o a \in Seq(Ids) /\ Len(b \o a) = Len(path)
    <3>1. b \o a \in Seq(Ids) /\ Len(b \o a) = Len(b) + Len(a)
      BY <2>3, ConcatProperties
    <3>2. n + (Len(path) - n) = Len(path)
      BY <2>1
    <3> QED
      BY <2>3, <3>1, <3>2
  <2>5. \A i \in 1..Len(path) : (b \o a)[i] = path[i]
    <3> SUFFICES ASSUME NEW i \in 1..Len(path) PROVE (b \o a)[i] = path[i]
      OBVIOUS
    <3>1. CASE i <= n
      <4>1. i \in 1..n
        BY <2>1, <3>1
      <4> QED
        BY <2>3, <4>1
    <3>2. CASE ~(i <= n)
      <4>1. i - n \in 1..(Len(path) - n) /\ n + (i - n) = i
        BY <2>1, <3>2
      <4>2. (b \o a)[i] = a[i - n]
        BY <2>1, <2>3, <3>2
      <4>3. a[i - n] = path[n + (i - n)]
        BY <2>3, <4>1
      <4> QED
        BY <4>1, <4>2, <4>3
    <3> QED
      BY <3>1, <3>2
  <2>6. path = b \o a
    BY <1>2, <2>4, <2>5, SeqEqual
  <2> QED
    BY <2>3, <2>6 DEF a, b
<1> HIDE DEF pre, tail
<1>8. IsInjective(path)
  BY <1>1, <1>2, <1>3, CarryInjective
<1>9. gone \subseteq ToSet(path) /\ ToSet(pre) \cap gone = {}
  <2>1. ToSet(path) = ToSet(pre) \cup ToSet(tail)
    <3>1. PICK x : x \in gone
      BY <1>4
    <3>2. x \in Ids
      <4>1. x \in ToSet(tail)
        BY <1>4, <3>1
      <4> QED
        BY <1>7, <4>1 DEF ToSet
    <3>3. ToSet(pre \o tail) = ToSet(pre) \cup ToSet(tail)
      BY <1>7, <3>2, Members
    <3> QED
      BY <1>7, <3>3
  <2>2. ToSet(pre) \cap ToSet(tail) = {}
    BY <1>7, <1>8, JoinInjective
  <2> QED
    BY <1>4, <2>1, <2>2
<1>10. /\ IsInjective(want) /\ takes \cap ToSet(want) = {} /\ ToSet(want) \subseteq ToSet(Trail(leaf))
  BY <1>1, <1>2, <1>3, <1>4, <1>9, CarryWithout
<1>11. want = Trail(t) \o Carry(origin, back)
  <2>1. Without(pre, gone) = pre
    BY <1>7, <1>9, WithoutFacts
  <2>2. Without(path, gone) = pre \o back
    <3>1. Without(pre \o tail, gone) = Without(pre, gone) \o Without(tail, gone)
      BY <1>7, WithoutJoin
    <3> QED
      BY <1>4, <1>7, <2>1, <3>1
  <2>3. back \in Seq(Ids)
    BY <1>4, <1>7, WithoutFacts
  <2>4. Carry(origin, pre \o back) = Carry(origin, pre) \o Carry(origin, back)
    BY <1>1, <1>7, <2>3, CarryJoin
  <2> QED
    BY <1>4, <1>6, <2>2, <2>4 DEF Trail
<1>12. takes \in SUBSET (1..built) /\ takes # {}
  <2>1. \A i \in gone : origin[i] \in 1..built
    <3> SUFFICES ASSUME NEW i \in gone PROVE origin[i] \in 1..built
      OBVIOUS
    <3>1. i \in 1..built
      BY <1>2, <1>9
    <3>2. origin[i] \in 1..i
      BY <3>1 DEF Solo, Aged
    <3> QED
      BY <1>1, <3>1, <3>2
  <2> QED
    BY <1>4, <2>1
<1>13. back \in Seq(Ids) /\ \A i \in 1..Len(back) : back[i] \in Known(entries) /\ back[i] \in Ids
  <2>1. \A i \in 1..Len(back) : back[i] \in Known(entries)
    BY <1>4
  <2>2. back \in Seq(Ids)
    BY <1>4, <1>7, WithoutFacts
  <2> QED
    BY <1>1, <2>1, <2>2
<1>14. \A i \in 1..Len(back) : calls[i + 1].of = back[i] /\ ~calls[i + 1].moves /\ ~calls[i + 1].pinned
  <2> SUFFICES ASSUME NEW i \in 1..Len(back)
               PROVE calls[i + 1].of = back[i] /\ ~calls[i + 1].moves /\ ~calls[i + 1].pinned
    OBVIOUS
  <2>1. calls[i + 1] = [New EXCEPT !.of = back[i]] /\ back[i] \in Ids
    BY <1>4, <1>13
  <2>2. \A x \in Ids : LET c == [New EXCEPT !.of = x] IN c.of = x /\ ~c.moves /\ ~c.pinned
    BY CallsTyped
  <2> QED
    BY <2>1, <2>2
<1>15. \A i \in DOMAIN calls : i > 1 => ~calls[i].moves /\ ~calls[i].pinned /\ calls[i].of \in Known(entries)
  <2> SUFFICES ASSUME NEW i \in DOMAIN calls, i > 1
               PROVE ~calls[i].moves /\ ~calls[i].pinned /\ calls[i].of \in Known(entries)
    OBVIOUS
  <2>1. DOMAIN calls = 1..(Len(back) + 1) /\ Len(back) \in Nat
    BY <1>4, <1>13, LenProperties
  <2>2. i - 1 \in 1..Len(back) /\ (i - 1) + 1 = i
    BY <2>1
  <2> QED
    BY <1>13, <1>14, <2>2
<1>16. Ofs(Tail(calls)) = back
  <2> DEFINE m == Len(back)
             r == Tail(calls)
  <2>1. /\ m \in Nat /\ r \in Seq(Call) /\ Len(r) = m /\ DOMAIN r = 1..m
        /\ \A i \in 1..m : r[i] = calls[i + 1]
    <3>1. m \in Nat /\ Len(calls) = m + 1
      BY <1>4, <1>13
    <3> HIDE DEF m
    <3>2. Len(r) = m /\ r \in Seq(Call) /\ \A i \in 1..m : r[i] = calls[i + 1]
      BY <1>4, <3>1, HeadTailProperties
    <3> QED
      BY <3>1, <3>2, LenProperties
  <2> HIDE DEF m, r
  <2>2. Ofs(r) = [i \in 1..m |-> r[i].of]
    BY <2>1 DEF Ofs
  <2>3. \A i \in 1..m : r[i].of = back[i]
    BY <1>14, <2>1 DEF m
  <2>4. back = [i \in 1..m |-> back[i]]
    BY <1>13 DEF m
  <2>5. Ofs(r) = back
    BY <2>2, <2>3, <2>4
  <2> QED
    BY <2>5 DEF r
<1>17. Head(calls).of = Root /\ ~Head(calls).pinned /\ Head(calls).to = t /\ Head(calls).moves
  <2>1. t \in Ids \cup {Root}
    BY <1>1, <1>4
  <2> QED
    BY <1>4, <2>1, CallsTyped
<1>18. want = Trail(Head(calls).to) \o Carry(origin, Ofs(Tail(calls)))
  BY <1>11, <1>16, <1>17
<1>19. Head(calls).to \in Known(entries) \cup {Root} /\ away' \subseteq away
  BY <1>4, <1>17
<1> QED
  BY <1>4, <1>10, <1>12, <1>15, <1>17, <1>18, <1>19, BeginSolo

LEMMA SoloStays ==
  ASSUME Inv, Solo, UNCHANGED vars
  PROVE  Solo'
<1>1. /\ scope' = scope /\ file' = file /\ entries' = entries /\ leaf' = leaf /\ lock' = lock /\ job' = job
      /\ line' = line /\ built' = built /\ origin' = origin /\ away' = away /\ damage' = damage
  BY DEF vars, disk, memory, bounds
<1>2. All' = All /\ Awaits' = Awaits
  BY <1>1 DEF All, Awaits
<1>3. \A l : After(l) = Trail(l)
  BY <1>1, <1>2 DEF After, Trail
<1>4. Aged' = Aged /\ Once' = Once /\ Going' = Going /\ KeptOff' = KeptOff
  <2>1. Aged' = Aged /\ Once' = Once
    BY <1>1, <1>2, <1>3 DEF Aged, Once, Trail, After
  <2>2. Going' = Going
    BY <1>1, <1>2, <1>3 DEF Going, Moving, Withdrawing, Trail, After
  <2>3. KeptOff' = KeptOff
    BY <1>1, <1>2, <1>3 DEF KeptOff, Off, Trail, After
  <2> QED
    BY <2>1, <2>2, <2>3
<1> QED
  BY <1>2, <1>4 DEF Solo

LEMMA SoloInitially ==
  ASSUME Init
  PROVE  Solo
<1>1. /\ file = <<>> /\ leaf = Root /\ lock = <<>> /\ job = [w \in Writers |-> NoJob] /\ built = 0 /\ away = {}
  BY DEF Init
<1>2. ToSet(lock) = {} /\ All = <<>>
  BY <1>1 DEF ToSet, All, EntriesOf
<1>3. Aged
  BY <1>1 DEF Aged, NoJob
<1>4. Once
  <2>1. Inv
    BY Initially
  <2>2. Known(All) = {} /\ Path(All, Root) = <<>>
    <3>1. Apart(All) /\ Rising(All) /\ All \in Seq(Entry)
      BY <2>1, Typed DEF Inv, Hanging
    <3>2. Path(All, Root) = <<>>
      BY <3>1, PathIs
    <3>3. Known(<<>>) = {}
      BY DEF Known
    <3> QED
      BY <1>2, <3>2, <3>3
  <2> QED
    BY <2>2 DEF Once, Trail, Carry, IsInjective
<1>5. Going /\ KeptOff
  BY <1>1, <1>2 DEF Going, KeptOff, Off
<1> QED
  BY <1>3, <1>4, <1>5 DEF Solo

LEMMA SoloPreserved ==
  ASSUME Inv, Inv', Solo, [Next]_vars
  PROVE  Solo'
<1>1. CASE UNCHANGED vars
  BY <1>1, SoloStays
<1>2. ASSUME Step, scope' = scope PROVE Solo'
  <2>1. Awaits' = Awaits
    BY <1>2 DEF Awaits
  <2>2. CASE Awaits
    BY <2>1, <2>2 DEF Solo
  <2>3. CASE ~Awaits
    <3>1. CASE Crash \/ Reopen \/ Damage
      BY <1>2, <2>3, <3>1, AwaySolo
    <3>2. ASSUME NEW w \in scope.tasks, \/ AppendEntry(w) \/ MoveLeaf(w) \/ WithdrawTail(w)
                                        \/ Writes(w) \/ Fails(w) \/ Refuses(w) \/ GivesUp(w)
          PROVE  Solo'
      <4>1. w \in Writers
        BY Tasks DEF Inv
      <4> QED
        BY <1>2, <2>3, <3>2, <4>1, AppendEntrySolo, MoveLeafSolo, WithdrawSolo, WritesSolo, LeavesSolo
    <3> QED
      BY <1>2, <3>1, <3>2 DEF Step
  <2> QED
    BY <2>2, <2>3
<1> QED
  BY <1>1, <1>2 DEF Next

LEMMA IInvHolds == Spec => []IInv
<1>1. Init => IInv
  BY Initially, SoloInitially DEF IInv
<1>2. IInv /\ [Next]_vars => IInv'
  BY InvPreserved, SoloPreserved DEF IInv
<1> QED
  BY <1>1, <1>2, PTL DEF Spec

-----------------------------------------------------------------------------
LEMMA PathFollows ==
  ASSUME IInv
  PROVE  PathHolds
<1>1. Inv /\ Solo
  BY DEF IInv
<1>2. leaf \in Known(entries) \cup {Root} /\ \A e \in ToSet(entries) : e.parent \in Known(entries) \cup {Root}
  BY <1>1 DEF Inv, Hanging, Closed
<1>3. ASSUME ~Awaits, damage = 0 PROVE WithdrawnOffPath
  <2>1. away \cap ToSet(Trail(leaf)) = {}
    BY <1>1, <1>3 DEF Solo, KeptOff, Off
  <2>2. Contents(Path(entries, leaf)) = Trail(leaf)
    <3>1. Path(entries, leaf) = Path(All, leaf)
      BY <1>1, <1>2, Trails DEF Inv
    <3> QED
      BY <3>1 DEF Contents, Carry, Trail
  <2> QED
    BY <2>1, <2>2 DEF WithdrawnOffPath
<1> QED
  BY <1>2, <1>3 DEF PathHolds

\* Whatever of the file was lost or torn, what an open session holds hangs together, and where the FileSystem
\* does not suspend what withdraw_tail() took off the path is off it: `_load_entries_from_file',
\* `get_path_to_root', withdraw_tail().
THEOREM PathHoldsAlways == Spec => []PathHolds
BY IInvHolds, PathFollows, PTL

-----------------------------------------------------------------------------
LEMMA LastCall ==
  ASSUME NEW q \in Seq(Call), Len(q) = 1
  PROVE  q # <<>> /\ Tail(q) = <<>>
<1>1. q # <<>>
  BY EmptySeq
<1>2. Tail(q) \in Seq(Call) /\ Len(Tail(q)) = 0
  BY <1>1, HeadTailProperties
<1> QED
  BY <1>1, <1>2, EmptySeq

LEMMA WithdrawnAsWanted ==
  ASSUME IInv, IInv', Step, NEW v \in Writers,
         ~Awaits, Len(job[v].todo) = 1, job[v].takes # {}, Len(entries') > Len(entries), job'[v].todo = <<>>
  PROVE  Contents(Path(entries, leaf))' = job[v].want
<1>1. Inv /\ Inv' /\ Solo /\ Solo'
  BY DEF IInv
<1>2. job[v].todo # <<>> /\ v \in ToSet(lock) /\ ToSet(lock) = {v} /\ lock # <<>>
  <2>1. job[v].todo # <<>>
    <3>1. job[v].todo \in Seq(Call)
      BY <1>1 DEF Inv, TypeOK
    <3> QED
      BY <3>1, LastCall
  <2>2. v \in ToSet(lock)
    BY <1>1, <2>1 DEF Inv, TypeOK
  <2> QED
    BY <1>1, <2>1, <2>2, OneAtATime DEF Inv
<1>3. entries \in Seq(Entry) /\ Len(entries) \in Nat
  BY <1>1, Typed DEF Inv
<1>4. entries' # entries
  BY <1>3
<1>5. up
  BY <1>1, <1>2 DEF Inv, Queued
<1>6. Writes(v)
  <2>1. ~Crash /\ ~Reopen /\ ~Damage
    BY <1>4, <1>5 DEF Crash, Reopen, Damage, memory
  <2>2. PICK w \in scope.tasks : \/ AppendEntry(w) \/ MoveLeaf(w) \/ WithdrawTail(w)
                                 \/ Writes(w) \/ Fails(w) \/ Refuses(w) \/ GivesUp(w)
    BY <2>1 DEF Step
  <2>3. Writes(w)
    BY <1>4, <2>2 DEF AppendEntry, MoveLeaf, WithdrawTail, Begin, Fails, Refuses, GivesUp, Leaves, memory
  <2>4. w \in ToSet(lock)
    BY <1>1, <2>3, AtHead DEF Writes
  <2> QED
    BY <1>2, <2>3, <2>4
<1>7. /\ Holds(v) /\ Put(line[v], "line") /\ entries' = Append(entries, line[v]) /\ leaf' = line[v].target
      /\ origin' = origin
  BY <1>6 DEF Writes
<1>8. All' = Append(All, line[v])
  <2>1. Inv /\ Holds(v) /\ Put(line[v], "line") /\ entries' = Append(entries, line[v])
          /\ leaf' = line[v].target /\ damage' = damage
    BY <1>1, <1>6, <1>7 DEF Writes, bounds
  <2> QED
    BY <2>1, Written
<1>9. Settled
  BY <1>7 DEF Settled
<1>10. /\ job[v].want = After(line[v].target) \o Carry(origin, Ofs(Tail(job[v].todo)))
       /\ After(line[v].target) \in Seq(Ids)
  BY <1>1, <1>2, <1>8, <1>9, Wanted DEF Solo
<1>11. Ofs(Tail(job[v].todo)) = <<>>
  <2>1. Tail(job[v].todo) = <<>>
    <3>1. job[v].todo \in Seq(Call)
      BY <1>1 DEF Inv, TypeOK
    <3> QED
      BY <3>1, LastCall
  <2> QED
    BY <2>1 DEF Ofs
<1>12. job[v].want = After(leaf')
  <2>1. \A s \in Seq(Ids) : s \o <<>> = s
    OBVIOUS
  <2> QED
    BY <1>7, <1>10, <1>11, <2>1, CarryNothing
<1>13. Path(entries', leaf') = Path(All', leaf')
  <2>1. TypeOK' /\ Fresh' /\ Hanging'
    BY <1>1 DEF Inv
  <2>2. /\ entries' \in Seq(Entry) /\ ToSet(entries') \subseteq ToSet(All') /\ Apart(All') /\ Rising(All')
        /\ Closed(entries') /\ leaf' \in Known(entries') \cup {Root}
    BY <2>1 DEF Hanging, TypeOK
  <2>3. All' \in Seq(Entry)
    BY <1>1, <1>2, <1>8, Typed, PendingFits DEF Inv
  <2> QED
    BY <2>2, <2>3, PathStable
<1> QED
  BY <1>12, <1>13 DEF Contents, After, Carry

\* Where the FileSystem does not suspend, when withdraw_tail() returns the path to the leaf is what it was
\* without the withdrawn entries, in the same order.
THEOREM WithdrawKeepsHolds == Spec => WithdrawKeeps
<1>1. IInv /\ IInv' /\ [Next]_vars =>
        [\A w \in Writers :
           ~Awaits /\ Len(job[w].todo) = 1 /\ job[w].takes # {} /\ Len(entries') > Len(entries) /\ job'[w].todo = <<>>
             => Contents(Path(entries, leaf))' = job[w].want]_vars
  BY WithdrawnAsWanted DEF Next
<1> QED
  BY <1>1, IInvHolds, PTL DEF Spec, WithdrawKeeps

-----------------------------------------------------------------------------
\* What SessionTree promises, whatever its names and its variables are.
CONSTANT Names
VARIABLES tree, tip, doubt, open
Promise == INSTANCE SessionTree WITH Ids <- Names, tree <- tree, leaf <- tip, doubt <- doubt, up <- open

\* What may turn up at the next open hangs from the tree as well, or Resolves would not survive it.
DoubtHangs == \A e \in doubt : /\ e.parent \in Promise!Named(tree) \cup {Promise!Root}
                               /\ e.target \in Promise!Named(tree) \cup {Promise!Root, e.id}

Rooted == Promise!Resolves /\ DoubtHangs

LEMMA RootedAtFirst == Promise!Init => Rooted
BY DEF Promise!Init, Rooted, Promise!Resolves, DoubtHangs, Promise!Named

\* Names stay as the tree grows.
LEMMA NamedGrows ==
  ASSUME NEW S, NEW T, S \subseteq T
  PROVE  Promise!Named(S) \subseteq Promise!Named(T)
BY DEF Promise!Named

LEMMA RootedAdded ==
  ASSUME Rooted, NEW e \in Promise!Entry, Promise!Add(e)
  PROVE  Rooted'
<1>1. tree' = tree \cup {e} /\ tip' = e.target /\ doubt' = doubt /\ Promise!Hangs(e)
  BY DEF Promise!Add
<1>2. Promise!Named(tree) \subseteq Promise!Named(tree') /\ e.id \in Promise!Named(tree')
  BY <1>1, NamedGrows DEF Promise!Named
<1>3. {e.parent, e.target} \subseteq Promise!Named(tree') \cup {Promise!Root}
  BY <1>1, <1>2 DEF Promise!Hangs
<1>4. \A f \in tree' : {f.parent, f.target} \subseteq Promise!Named(tree') \cup {Promise!Root}
  BY <1>1, <1>2, <1>3 DEF Rooted, Promise!Resolves
<1>5. Promise!Resolves'
  BY <1>1, <1>3, <1>4 DEF Promise!Resolves, Promise!Named
<1>6. DoubtHangs'
  BY <1>1, <1>2 DEF Rooted, DoubtHangs, Promise!Named
<1> QED
  BY <1>5, <1>6 DEF Rooted

LEMMA RootedOpened ==
  ASSUME Rooted, Promise!Open
  PROVE  Rooted'
<1>1. PICK S \in SUBSET doubt : tree' = tree \cup S /\ tip' \in {tip} \cup {e.target : e \in S}
  BY DEF Promise!Open, Promise!Found
<1>2. doubt' = {}
  BY DEF Promise!Open
<1>3. Promise!Named(tree) \subseteq Promise!Named(tree') /\ \A e \in S : e.id \in Promise!Named(tree')
  BY <1>1, NamedGrows DEF Promise!Named
<1>4. \A e \in S : {e.parent, e.target} \subseteq Promise!Named(tree') \cup {Promise!Root}
  BY <1>1, <1>3 DEF Rooted, DoubtHangs
<1>5. \A e \in tree' : {e.parent, e.target} \subseteq Promise!Named(tree') \cup {Promise!Root}
  BY <1>1, <1>3, <1>4 DEF Rooted, Promise!Resolves
<1>6. tip' \in Promise!Named(tree') \cup {Promise!Root}
  BY <1>1, <1>3, <1>4 DEF Rooted, Promise!Resolves
<1> QED
  BY <1>2, <1>5, <1>6 DEF Rooted, Promise!Resolves, DoubtHangs, Promise!Named

LEMMA RootedStays == Rooted /\ [Promise!Next]_(Promise!vars) => Rooted'
<1> SUFFICES ASSUME Rooted, [Promise!Next]_(Promise!vars) PROVE Rooted'
  OBVIOUS
<1>1. ASSUME NEW e \in Promise!Entry, Promise!Add(e) PROVE Rooted'
  BY <1>1, RootedAdded
<1>2. ASSUME NEW e \in Promise!Entry, Promise!Fail(e) PROVE Rooted'
  BY <1>2 DEF Promise!Fail, Promise!Hangs, Rooted, Promise!Resolves, DoubtHangs, Promise!Named
<1>3. CASE Promise!Die
  BY <1>3 DEF Promise!Die, Promise!Hangs, Rooted, Promise!Resolves, DoubtHangs, Promise!Named
<1>4. CASE Promise!Open
  BY <1>4, RootedOpened
<1>5. CASE UNCHANGED Promise!vars
  BY <1>5 DEF Promise!vars, Rooted, Promise!Resolves, DoubtHangs, Promise!Named
<1> QED
  BY <1>1, <1>2, <1>3, <1>4, <1>5 DEF Promise!Next

\* However appends fail and processes die, the walk from the leaf to the root meets every entry.
THEOREM AlwaysResolves == Promise!Spec => []Promise!Resolves
<1>1. Rooted => Promise!Resolves
  BY DEF Rooted
<1> QED
  BY <1>1, RootedAtFirst, RootedStays, PTL DEF Promise!Spec

\* No step takes an entry out of the tree.
THEOREM NothingIsLost == Promise!Spec => Promise!OnlyGrows
<1>1. [Promise!Next]_(Promise!vars) => [tree \subseteq tree']_(Promise!vars)
  <2> SUFFICES ASSUME [Promise!Next]_(Promise!vars) PROVE tree \subseteq tree'
    OBVIOUS
  <2>1. ASSUME NEW e \in Promise!Entry, Promise!Add(e) \/ Promise!Fail(e) PROVE tree \subseteq tree'
    BY <2>1 DEF Promise!Add, Promise!Fail
  <2>2. CASE Promise!Die
    BY <2>2 DEF Promise!Die
  <2>3. CASE Promise!Open
    BY <2>3 DEF Promise!Open, Promise!Found
  <2>4. CASE UNCHANGED Promise!vars
    BY <2>4 DEF Promise!vars
  <2> QED
    BY <2>1, <2>2, <2>3, <2>4 DEF Promise!Next
<1> QED
  BY <1>1, PTL DEF Promise!Spec, Promise!OnlyGrows
=============================================================================
