----------------------------- MODULE SequenceFacts -----------------------------
(***************************************************************************)
(* What the proofs need of the natural numbers and of sequences:           *)
(* induction, stated over a set instead of a predicate, recursion on an    *)
(* index, and what joining a sequence of sequences into one does to the    *)
(* elements, their order and their number.                                 *)
(***************************************************************************)
EXTENDS SequencesExt, Integers, FiniteSetTheorems, SequenceTheorems,
        WellFoundedInduction, TLAPS

-----------------------------------------------------------------------------
(* Induction.                                                              *)

(* A nonempty set of indices has a least one.                              *)
LEMMA LeastIndex ==
    ASSUME NEW n \in Nat, NEW I, I \subseteq 1 .. n, I # {}
    PROVE  \E i \in I : \A j \in I : i <= j
<1> DEFINE upto == {1 .. i : i \in I}
<1>1. ASSUME NEW i \in I PROVE 1 .. i \in FiniteSubsetsOf(1 .. n)
  <2>1. i \in Nat /\ i <= n
    OBVIOUS
  <2>2. IsFiniteSet(1 .. i)
    BY <2>1, FS_Interval
  <2> QED
    BY <2>1, <2>2 DEF FiniteSubsetsOf
<1>2. upto \subseteq FiniteSubsetsOf(1 .. n) /\ upto # {}
  BY <1>1
<1>3. PICK x \in upto : \A y \in upto : << y, x >> \notin StrictSubsetOrdering(1 .. n)
  BY <1>2, WFMin, FS_StrictSubsetOrderingWellFounded
<1>4. PICK i \in I : x = 1 .. i
  BY <1>3
<1>5. ASSUME NEW j \in I, j < i PROVE FALSE
  <2>1. 1 .. j \subseteq 1 .. i /\ 1 .. i \subseteq 1 .. n
    BY <1>5
  <2>2. i \in 1 .. i /\ i \notin 1 .. j
    BY <1>5
  <2>3. << 1 .. j, 1 .. i >> \in StrictSubsetOrdering(1 .. n)
    BY <2>1, <2>2 DEF StrictSubsetOrdering
  <2> QED
    BY <1>3, <1>4, <2>3
<1> QED
  BY <1>5

(* ... and, among finitely many, a greatest.                               *)
LEMMA GreatestIndex ==
    ASSUME NEW n \in Nat, NEW I, I \subseteq 1 .. n, I # {}
    PROVE  \E i \in I : \A j \in I : j <= i
<1> DEFINE J == {n + 1 - i : i \in I}
<1>1. J \subseteq 1 .. n /\ J # {}
  <2>1. \A i \in I : n + 1 - i \in 1 .. n
    OBVIOUS
  <2>2. PICK i : i \in I
    OBVIOUS
  <2> QED
    BY <2>1, <2>2
<1>2. PICK j \in J : \A k \in J : j <= k
  <2> HIDE DEF J
  <2> QED
    BY <1>1, LeastIndex
<1>3. PICK i \in I : j = n + 1 - i
  BY <1>2
<1>4. ASSUME NEW k \in I PROVE k <= i
  <2>1. n + 1 - k \in J
    OBVIOUS
  <2>2. n + 1 - i <= n + 1 - k
    BY <1>2, <1>3, <2>1
  <2> QED
    BY <2>2
<1> QED
  BY <1>4

(* Induction up to n, over a set of indices.                               *)
LEMMA IndexInduction ==
    ASSUME NEW n \in Nat, NEW S, 0 \in S,
           \A i \in 0 .. n : i \in S /\ i < n => i + 1 \in S
    PROVE  0 .. n \subseteq S
<1> SUFFICES ASSUME (0 .. n) \ S # {} PROVE FALSE
  OBVIOUS
<1> DEFINE I == {i \in 1 .. n : i \notin S}
<1>1. I \subseteq 1 .. n /\ I # {}
  OBVIOUS
<1>2. PICK i \in I : \A j \in I : i <= j
  <2> HIDE DEF I
  <2> QED
    BY <1>1, LeastIndex
<1>3. i - 1 \in 0 .. n /\ i - 1 < n /\ i - 1 + 1 = i
  OBVIOUS
<1>4. i - 1 \in S
  BY <1>2, <1>3
<1> QED
  BY <1>3, <1>4

(* ... and down from n.                                                    *)
LEMMA DownInduction ==
    ASSUME NEW n \in Nat, NEW S, n \in S,
           \A i \in 0 .. n : i < n /\ i + 1 \in S => i \in S
    PROVE  0 .. n \subseteq S
<1> DEFINE T == {m \in 0 .. n : n - m \in S}
<1>1. 0 \in T
  OBVIOUS
<1>2. ASSUME NEW m \in 0 .. n, m \in T, m < n PROVE m + 1 \in T
  <2>1. n - (m + 1) \in 0 .. n /\ n - (m + 1) < n /\ (n - (m + 1)) + 1 = n - m
    BY <1>2
  <2>2. n - m \in S
    BY <1>2
  <2> QED
    BY <1>2, <2>1, <2>2
<1>3. 0 .. n \subseteq T
  <2> HIDE DEF T
  <2> QED
    BY <1>1, <1>2, IndexInduction
<1>4. ASSUME NEW i \in 0 .. n PROVE i \in S
  <2>1. n - i \in 0 .. n /\ n - (n - i) = i
    OBVIOUS
  <2> QED
    BY <1>3, <2>1
<1> QED
  BY <1>4

-----------------------------------------------------------------------------
(* Functions defined by recursion on an index.                             *)

(* g begins with b and takes n steps.                                      *)
Iterated(g, n, b, step) ==
    g[0] = b /\ \A i \in 1 .. n : g[i] = step[<< i, g[i - 1] >>]

(* A step from value to value can be taken n times.                        *)
LEMMA Iterates ==
    ASSUME NEW n \in Nat, NEW S, NEW b \in S, NEW step \in [(1 .. n) \X S -> S]
    PROVE  \E g \in [0 .. n -> S] : Iterated(g, n, b, step)
<1> DEFINE Good(g, m) == g[0] = b /\ \A i \in 1 .. m : g[i] = step[<< i, g[i - 1] >>]
           T == {m \in 0 .. n : \E g \in [0 .. m -> S] : Good(g, m)}
<1>1. 0 \in T
  <2>1. PICK g : g = [i \in 0 .. 0 |-> b]
    OBVIOUS
  <2>2. g \in [0 .. 0 -> S] /\ Good(g, 0)
    BY <2>1
  <2> QED
    BY <2>2
<1>2. ASSUME NEW m \in 0 .. n, m \in T, m < n PROVE m + 1 \in T
  <2>1. PICK g \in [0 .. m -> S] : Good(g, m)
    BY <1>2
  <2>2. PICK x : x = step[<< m + 1, g[m] >>]
    OBVIOUS
  <2>3. x \in S
    BY <1>2, <2>2
  <2>4. PICK h : h = [i \in 0 .. m + 1 |-> IF i = m + 1 THEN x ELSE g[i]]
    OBVIOUS
  <2>5. h \in [0 .. m + 1 -> S]
    BY <2>3, <2>4
  <2>6. (\A i \in 0 .. m : h[i] = g[i]) /\ h[m + 1] = x /\ m + 1 \in 0 .. n
    BY <1>2, <2>4
  <2>7. ASSUME NEW i \in 1 .. m + 1 PROVE h[i] = step[<< i, h[i - 1] >>]
    <3>1. CASE i = m + 1
      <4>1. i - 1 = m /\ m \in 0 .. m
        BY <3>1
      <4> QED
        BY <2>2, <2>6, <3>1, <4>1
    <3>2. CASE i # m + 1
      <4>1. i \in 1 .. m /\ i \in 0 .. m /\ i - 1 \in 0 .. m
        BY <3>2
      <4> QED
        BY <2>1, <2>6, <4>1
    <3> QED
      BY <3>1, <3>2
  <2>8. Good(h, m + 1)
    BY <2>1, <2>6, <2>7
  <2> QED
    BY <2>5, <2>6, <2>8
<1>3. 0 .. n \subseteq T
  <2> HIDE DEF T
  <2> QED
    BY <1>1, <1>2, IndexInduction
<1> QED
  BY <1>3 DEF Iterated

(* Two functions that begin alike and go on alike are alike.               *)
LEMMA AlikeThroughout ==
    ASSUME NEW n \in Nat, NEW f, NEW g, f[0] = g[0],
           \A i \in 1 .. n : f[i - 1] = g[i - 1] => f[i] = g[i]
    PROVE  \A i \in 0 .. n : f[i] = g[i]
<1> DEFINE T == {i \in 0 .. n : f[i] = g[i]}
<1>1. 0 \in T
  OBVIOUS
<1>2. ASSUME NEW i \in 0 .. n, i \in T, i < n PROVE i + 1 \in T
  <2>1. i + 1 \in 1 .. n /\ i + 1 \in 0 .. n /\ (i + 1) - 1 = i
    BY <1>2
  <2> QED
    BY <1>2, <2>1
<1>3. 0 .. n \subseteq T
  <2> HIDE DEF T
  <2> QED
    BY <1>1, <1>2, IndexInduction
<1> QED
  BY <1>3

-----------------------------------------------------------------------------
(* Sequences joined: p[i] is what the first i of ss make together.         *)

Grows(p, ss, n) ==
    /\ p[0] = << >>
    /\ \A i \in 1 .. n : p[i] = p[i - 1] \o ss[i]

(* Every sequence of sequences has such a p, up to any of its parts.       *)
LEMMA GrowsExists ==
    ASSUME NEW S, NEW ss \in Seq(Seq(S)), NEW n \in 0 .. Len(ss)
    PROVE  \E p \in [0 .. n -> Seq(S)] : Grows(p, ss, n)
<1> DEFINE T == {m \in 0 .. n : \E p \in [0 .. m -> Seq(S)] : Grows(p, ss, m)}
<1>0. n \in Nat
  OBVIOUS
<1>1. 0 \in T
  <2>1. PICK p : p = [i \in 0 .. 0 |-> << >>]
    OBVIOUS
  <2>2. p \in [0 .. 0 -> Seq(S)] /\ Grows(p, ss, 0)
    BY <2>1 DEF Grows
  <2> QED
    BY <2>2
<1>2. ASSUME NEW m \in 0 .. n, m \in T, m < n PROVE m + 1 \in T
  <2>1. PICK p \in [0 .. m -> Seq(S)] : Grows(p, ss, m)
    BY <1>2
  <2>2. PICK q : q = [i \in 0 .. m + 1 |-> IF i = m + 1 THEN p[m] \o ss[m + 1] ELSE p[i]]
    OBVIOUS
  <2>3. ss[m + 1] \in Seq(S) /\ p[m] \in Seq(S)
    BY <1>2
  <2>4. q \in [0 .. m + 1 -> Seq(S)]
    BY <2>2, <2>3
  <2>5. Grows(q, ss, m + 1)
    <3>1. \A i \in 0 .. m : q[i] = p[i]
      BY <2>2
    <3>2. q[m + 1] = p[m] \o ss[m + 1] /\ q[m] = p[m] /\ q[0] = << >>
      <4>1. m + 1 \in 0 .. m + 1 /\ 0 \in 0 .. m /\ m \in 0 .. m
        BY <1>2
      <4>2. q[m + 1] = p[m] \o ss[m + 1]
        BY <2>2, <4>1
      <4> QED
        BY <2>1, <3>1, <4>1, <4>2 DEF Grows
    <3>3. ASSUME NEW i \in 1 .. m + 1 PROVE q[i] = q[i - 1] \o ss[i]
      <4>1. CASE i = m + 1
        <5>1. i - 1 = m
          BY <4>1
        <5> QED
          BY <3>2, <4>1, <5>1
      <4>2. CASE i # m + 1
        <5>1. i \in 1 .. m /\ i \in 0 .. m /\ i - 1 \in 0 .. m
          BY <4>2
        <5> QED
          BY <2>1, <3>1, <5>1 DEF Grows
      <4> QED
        BY <4>1, <4>2
    <3> QED
      BY <3>2, <3>3 DEF Grows
  <2> QED
    BY <1>2, <2>4, <2>5
<1>3. 0 .. n \subseteq T
  <2> HIDE DEF T
  <2> QED
    BY <1>0, <1>1, <1>2, IndexInduction
<1> QED
  BY <1>3

(* And only one.                                                           *)
LEMMA GrowsUnique ==
    ASSUME NEW ss, NEW n \in Nat, NEW p, NEW q, Grows(p, ss, n), Grows(q, ss, n)
    PROVE  \A i \in 0 .. n : p[i] = q[i]
<1> DEFINE T == {i \in 0 .. n : p[i] = q[i]}
<1>1. 0 \in T
  BY DEF Grows
<1>2. ASSUME NEW i \in 0 .. n, i \in T, i < n PROVE i + 1 \in T
  <2>1. i + 1 \in 1 .. n /\ i + 1 \in 0 .. n /\ (i + 1) - 1 = i
    BY <1>2
  <2>2. p[i + 1] = p[i] \o ss[i + 1] /\ q[i + 1] = q[i] \o ss[i + 1]
    BY <2>1 DEF Grows
  <2> QED
    BY <1>2, <2>1, <2>2
<1>3. 0 .. n \subseteq T
  <2> HIDE DEF T
  <2> QED
    BY <1>1, <1>2, IndexInduction
<1> QED
  BY <1>3

(* Its last value is what FlattenSeq joins.                                *)
LEMMA FlattenGrows ==
    ASSUME NEW S, NEW ss \in Seq(Seq(S)),
           NEW p \in [0 .. Len(ss) -> Seq(S)], Grows(p, ss, Len(ss))
    PROVE  FlattenSeq(ss) = p[Len(ss)]
<1>1. CASE Len(ss) = 0
  BY <1>1 DEF FlattenSeq, Grows
<1>2. CASE Len(ss) # 0
  <2> DEFINE body(f) == [i \in 1 .. Len(ss) |-> IF i = 1 THEN ss[i] ELSE f[i - 1] \o ss[i]]
             flatten == CHOOSE f : f = body(f)
  <2>1. Len(ss) \in Nat \ {0} /\ 1 \in 1 .. Len(ss)
    BY <1>2
  <2>2. FlattenSeq(ss) = flatten[Len(ss)]
    BY <2>1 DEF FlattenSeq
  <2>3. PICK g : g = [i \in 1 .. Len(ss) |-> p[i]]
    OBVIOUS
  <2> HIDE DEF flatten
  <2>4. p[1] = ss[1]
    <3>1. ss[1] \in Seq(S)
      BY <2>1
    <3>2. p[1] = p[0] \o ss[1] /\ p[0] = << >>
      <4>1. p[1] = p[1 - 1] \o ss[1] /\ p[0] = << >>
        BY <2>1 DEF Grows
      <4>2. 1 - 1 = 0
        OBVIOUS
      <4> QED
        BY <4>1, <4>2
    <3>3. << >> \o ss[1] = ss[1]
      BY <3>1, ConcatEmptySeq
    <3> QED
      BY <3>2, <3>3
  <2>5. g = body(g)
    <3>1. ASSUME NEW i \in 1 .. Len(ss)
          PROVE  g[i] = IF i = 1 THEN ss[i] ELSE g[i - 1] \o ss[i]
      <4>1. g[i] = p[i] /\ (i # 1 => i - 1 \in 1 .. Len(ss) /\ g[i - 1] = p[i - 1])
        BY <2>1, <2>3
      <4>2. p[i] = p[i - 1] \o ss[i]
        BY DEF Grows
      <4> QED
        BY <2>4, <4>1, <4>2
    <3> QED
      BY <2>3, <3>1
  <2>6. flatten = body(flatten)
    <3> HIDE DEF body
    <3> QED
      BY <2>5
  <2>7. PICK f : f = flatten
    OBVIOUS
  <2>8. f = body(f)
    BY <2>6, <2>7
  <2>9. PICK h : h = [i \in 0 .. Len(ss) |-> IF i = 0 THEN << >> ELSE f[i]]
    OBVIOUS
  <2>10. Grows(h, ss, Len(ss))
    <3>1. h[0] = << >> /\ \A i \in 1 .. Len(ss) : h[i] = f[i]
      BY <2>9
    <3>2. ASSUME NEW i \in 1 .. Len(ss) PROVE h[i] = h[i - 1] \o ss[i]
      <4>1. CASE i = 1
        <5>1. ss[1] \in Seq(S) /\ i - 1 = 0
          BY <2>1, <4>1
        <5>2. f[1] = ss[1]
          BY <2>1, <2>8
        <5>3. h[1] = ss[1] /\ h[0] = << >>
          BY <2>1, <3>1, <5>2
        <5>4. << >> \o ss[1] = ss[1]
          BY <5>1, ConcatEmptySeq
        <5> QED
          BY <4>1, <5>1, <5>3, <5>4
      <4>2. CASE i # 1
        <5>1. i - 1 \in 1 .. Len(ss)
          BY <2>1, <4>2
        <5>2. f[i] = f[i - 1] \o ss[i]
          BY <2>8, <4>2
        <5> QED
          BY <3>1, <5>1, <5>2
      <4> QED
        BY <4>1, <4>2
    <3> QED
      BY <3>1, <3>2 DEF Grows
  <2>11. h[Len(ss)] = p[Len(ss)]
    BY <2>1, <2>10, GrowsUnique
  <2> HIDE DEF flatten
  <2> QED
    BY <2>1, <2>2, <2>7, <2>9, <2>11
<1> QED
  BY <1>1, <1>2

(* Joining sequences over S gives a sequence over S.                       *)
LEMMA FlattenType ==
    ASSUME NEW S, NEW ss \in Seq(Seq(S))
    PROVE  FlattenSeq(ss) \in Seq(S)
<1>1. Len(ss) \in 0 .. Len(ss) /\ Len(ss) \in Nat
  OBVIOUS
<1>2. PICK p \in [0 .. Len(ss) -> Seq(S)] : Grows(p, ss, Len(ss))
  BY <1>1, GrowsExists
<1> QED
  BY <1>1, <1>2, FlattenGrows

(* The elements of the joined sequence are those of the parts.             *)
LEMMA FlattenRange ==
    ASSUME NEW S, NEW ss \in Seq(Seq(S))
    PROVE  Range(FlattenSeq(ss)) = UNION {Range(ss[i]) : i \in 1 .. Len(ss)}
<1>0. PICK n \in Nat : n = Len(ss) /\ n \in 0 .. n
  OBVIOUS
<1>1. PICK p \in [0 .. n -> Seq(S)] : Grows(p, ss, n)
  BY <1>0, GrowsExists
<1> DEFINE U(m) == UNION {Range(ss[i]) : i \in 1 .. m}
           T == {m \in 0 .. n : Range(p[m]) = U(m)}
<1>2. 0 \in T
  <2>1. p[0] = << >>
    BY <1>1 DEF Grows
  <2>2. Range(<< >>) = {}
    BY DEF Range
  <2>3. U(0) = {}
    OBVIOUS
  <2> QED
    BY <1>0, <2>1, <2>2, <2>3
<1>3. ASSUME NEW m \in 0 .. n, m \in T, m < n PROVE m + 1 \in T
  <2>1. m + 1 \in 1 .. n /\ m + 1 \in 0 .. n /\ (m + 1) - 1 = m
    BY <1>0, <1>3
  <2>2. p[m + 1] = p[m] \o ss[m + 1]
    BY <1>1, <2>1 DEF Grows
  <2>3. p[m] \in Seq(S) /\ ss[m + 1] \in Seq(S)
    BY <1>0, <1>1, <1>3, <2>1
  <2>4. Range(p[m] \o ss[m + 1]) = Range(p[m]) \cup Range(ss[m + 1])
    BY <2>3, RangeConcatenation
  <2>5. U(m + 1) = U(m) \cup Range(ss[m + 1])
    <3>1. \A i : i \in 1 .. m + 1 <=> i \in 1 .. m \/ i = m + 1
      BY <2>1
    <3> QED
      BY <3>1
  <2>6. Range(p[m]) = U(m)
    BY <1>3
  <2>7. Range(p[m + 1]) = U(m + 1)
    BY <2>2, <2>4, <2>5, <2>6
  <2> HIDE DEF U
  <2> QED
    BY <2>1, <2>7
<1>4. 0 .. n \subseteq T
  <2> HIDE DEF T
  <2> QED
    BY <1>0, <1>2, <1>3, IndexInduction
<1>5. Range(p[n]) = U(n)
  BY <1>0, <1>4
<1>6. FlattenSeq(ss) = p[n]
  BY <1>0, <1>1, FlattenGrows
<1> QED
  BY <1>0, <1>5, <1>6

(* Joining one sequence gives that sequence, joining none the empty one.   *)
LEMMA FlattenOne ==
    ASSUME NEW S, NEW s \in Seq(S)
    PROVE  FlattenSeq(<< s >>) = s /\ FlattenSeq(<< >>) = << >>
<1>1. PICK ss : ss \in Seq(Seq(S)) /\ ss = << s >> /\ Len(ss) = 1 /\ ss[1] = s
  <2>1. << s >> \in Seq(Seq(S)) /\ Len(<< s >>) = 1 /\ << s >>[1] = s
    OBVIOUS
  <2> QED
    BY <2>1
<1>2. PICK p : p = [i \in 0 .. 1 |-> IF i = 0 THEN << >> ELSE s]
  OBVIOUS
<1>3. p \in [0 .. 1 -> Seq(S)] /\ p[0] = << >> /\ p[1] = s
  BY <1>2
<1>4. << >> \o s = s
  BY ConcatEmptySeq
<1>5. Grows(p, ss, 1)
  <2>1. ASSUME NEW i \in 1 .. 1 PROVE p[i] = p[i - 1] \o ss[i]
    <3>1. i = 1 /\ i - 1 = 0
      OBVIOUS
    <3> QED
      BY <1>1, <1>3, <1>4, <3>1
  <2> QED
    BY <1>3, <2>1 DEF Grows
<1>6. FlattenSeq(ss) = p[1]
  BY <1>1, <1>3, <1>5, FlattenGrows
<1>7. FlattenSeq(<< >>) = << >>
  BY DEF FlattenSeq
<1> QED
  BY <1>1, <1>3, <1>6, <1>7

(* Joining three, either pair first.                                       *)
JoinsAlike(S) == \A a, b, c \in Seq(S) : (a \o b) \o c = a \o (b \o c)

LEMMA JoinAssociative ==
    ASSUME NEW S
    PROVE  JoinsAlike(S)
<1> SUFFICES ASSUME NEW a \in Seq(S), NEW b \in Seq(S), NEW c \in Seq(S)
             PROVE  (a \o b) \o c = a \o (b \o c)
  BY DEF JoinsAlike
<1> QED
  BY ConcatAssociative, SMTT(30)

(* Joining one after the other.                                            *)
LEMMA FlattenConcat ==
    ASSUME NEW S, NEW ss \in Seq(Seq(S)), NEW tt \in Seq(Seq(S))
    PROVE  FlattenSeq(ss \o tt) = FlattenSeq(ss) \o FlattenSeq(tt)
<1>0. JoinsAlike(S)
  BY JoinAssociative
<1>1. PICK n \in Nat, m \in Nat : n = Len(ss) /\ m = Len(tt)
  OBVIOUS
<1>2. PICK u : u = ss \o tt /\ u \in Seq(Seq(S))
  <2>1. ss \o tt \in Seq(Seq(S))
    OBVIOUS
  <2> QED
    BY <2>1
<1>3. /\ Len(u) = n + m
      /\ \A i \in 1 .. n : u[i] = ss[i]
      /\ \A i \in 1 .. m : u[n + i] = tt[i]
  BY <1>1, <1>2
<1>a. n \in 0 .. Len(ss) /\ m \in 0 .. Len(tt)
  BY <1>1
<1>4. PICK p \in [0 .. n -> Seq(S)] : Grows(p, ss, n)
  BY <1>a, GrowsExists
<1>5. PICK q \in [0 .. m -> Seq(S)] : Grows(q, tt, m)
  BY <1>a, GrowsExists
<1>6. FlattenSeq(ss) = p[n] /\ FlattenSeq(tt) = q[m]
  BY <1>1, <1>4, <1>5, FlattenGrows
<1>7. PICK h : h = [i \in 0 .. n + m |-> IF i <= n THEN p[i] ELSE p[n] \o q[i - n]]
  OBVIOUS
<1>8. p[n] \in Seq(S) /\ \A i \in 0 .. n + m : i > n => i - n \in 0 .. m /\ q[i - n] \in Seq(S)
  BY <1>4, <1>5
<1>9. h \in [0 .. n + m -> Seq(S)]
  BY <1>4, <1>7, <1>8
<1>10. \A i \in 0 .. n : h[i] = p[i]
  BY <1>7
<1>11. \A i \in 0 .. m : h[n + i] = p[n] \o q[i]
  <2>1. ASSUME NEW i \in 0 .. m PROVE h[n + i] = p[n] \o q[i]
    <3>1. CASE i = 0
      <4>1. h[n + i] = p[n]
        BY <1>10, <3>1
      <4>2. q[i] = << >> /\ p[n] \o << >> = p[n]
        BY <1>5, <1>8, <3>1, ConcatEmptySeq DEF Grows
      <4> QED
        BY <4>1, <4>2
    <3>2. CASE i # 0
      <4>1. n + i \in 0 .. n + m /\ ~(n + i <= n) /\ (n + i) - n = i
        BY <3>2
      <4> QED
        BY <1>7, <4>1
    <3> QED
      BY <3>1, <3>2
  <2> QED
    BY <2>1
<1>12. ASSUME NEW i \in 1 .. n + m PROVE h[i] = h[i - 1] \o u[i]
  <2>1. CASE i <= n
    <3>1. i \in 1 .. n /\ i \in 0 .. n /\ i - 1 \in 0 .. n
      BY <2>1
    <3>2. p[i] = p[i - 1] \o ss[i]
      BY <1>4, <3>1 DEF Grows
    <3> QED
      BY <1>3, <1>10, <3>1, <3>2
  <2>2. CASE i > n
    <3>1. PICK j \in 1 .. m : i = n + j
      <4>1. i - n \in 1 .. m /\ i = n + (i - n)
        BY <2>2
      <4> QED
        BY <4>1
    <3>2. j \in 0 .. m /\ j - 1 \in 0 .. m /\ i - 1 = n + (j - 1)
      BY <3>1
    <3>3. h[i] = p[n] \o q[j] /\ h[i - 1] = p[n] \o q[j - 1] /\ u[i] = tt[j]
      BY <1>3, <1>11, <3>1, <3>2
    <3>4. q[j] = q[j - 1] \o tt[j]
      BY <1>5, <3>1 DEF Grows
    <3>5. tt[j] \in Seq(S) /\ q[j - 1] \in Seq(S) /\ p[n] \in Seq(S)
      <4>1. tt[j] \in Seq(S)
        BY <1>1, <3>1
      <4> QED
        BY <1>5, <1>8, <3>2, <4>1
    <3>6. (p[n] \o q[j - 1]) \o tt[j] = p[n] \o (q[j - 1] \o tt[j])
      BY <1>0, <3>5, Zenon DEF JoinsAlike
    <3> QED
      <4>1. h[i] = p[n] \o (q[j - 1] \o tt[j])
        BY <3>3, <3>4
      <4>2. h[i - 1] \o u[i] = (p[n] \o q[j - 1]) \o tt[j]
        BY <3>3
      <4> QED
        BY <3>6, <4>1, <4>2
  <2>3. i <= n \/ i > n
    OBVIOUS
  <2> QED
    BY <2>1, <2>2, <2>3
<1>13. Grows(h, u, n + m)
  <2>1. h[0] = << >>
    BY <1>4, <1>10 DEF Grows
  <2> QED
    BY <1>12, <2>1 DEF Grows
<1>14. FlattenSeq(u) = h[n + m]
  <2>1. h \in [0 .. Len(u) -> Seq(S)] /\ Grows(h, u, Len(u)) /\ u \in Seq(Seq(S))
    BY <1>2, <1>3, <1>9, <1>13
  <2>2. FlattenSeq(u) = h[Len(u)]
    BY <2>1, FlattenGrows
  <2> QED
    BY <1>3, <2>2
<1>15. h[n + m] = p[n] \o q[m]
  BY <1>11
<1> QED
  BY <1>2, <1>6, <1>14, <1>15

(* x is before y in the first m of ss;                                     *)
Before(x, y, ss, m) ==
    \E i, j \in 1 .. m : \E a \in 1 .. Len(ss[i]), b \in 1 .. Len(ss[j]) :
       /\ x = ss[i][a] /\ y = ss[j][b]
       /\ i <= j /\ (i = j => a < b)

(* s holds elements of them, in their order.                               *)
Ordered(s, ss, m) ==
    /\ \A k \in 1 .. Len(s) :
         \E i \in 1 .. m : \E a \in 1 .. Len(ss[i]) : s[k] = ss[i][a]
    /\ \A k, l \in 1 .. Len(s) : k < l => Before(s[k], s[l], ss, m)

(* Appending one more part keeps the order.                                *)
LEMMA OrderedStep ==
    ASSUME NEW S, NEW ss \in Seq(Seq(S)), NEW m \in 0 .. Len(ss), m < Len(ss),
           NEW s \in Seq(S), Ordered(s, ss, m)
    PROVE  Ordered(s \o ss[m + 1], ss, m + 1)
<1> DEFINE t == s \o ss[m + 1]
<1>1. /\ ss[m + 1] \in Seq(S) /\ m + 1 \in 1 .. m + 1 /\ Len(s) \in Nat
      /\ Len(ss[m + 1]) \in Nat /\ m \in Nat
  OBVIOUS
<1>2. /\ Len(t) = Len(s) + Len(ss[m + 1])
      /\ \A k \in 1 .. Len(s) : t[k] = s[k]
      /\ \A k \in 1 .. Len(t) : k > Len(s) =>
           k - Len(s) \in 1 .. Len(ss[m + 1]) /\ t[k] = ss[m + 1][k - Len(s)]
  BY <1>1
<1> HIDE DEF t
<1>3. ASSUME NEW k \in 1 .. Len(t)
      PROVE  \E i \in 1 .. m + 1 : \E a \in 1 .. Len(ss[i]) : t[k] = ss[i][a]
  <2>1. CASE k <= Len(s)
    <3>1. k \in 1 .. Len(s)
      BY <1>1, <2>1
    <3>2. PICK i \in 1 .. m : \E a \in 1 .. Len(ss[i]) : s[k] = ss[i][a]
      BY <3>1 DEF Ordered
    <3>3. i \in 1 .. m + 1
      BY <1>1
    <3> QED
      BY <1>2, <3>1, <3>2, <3>3
  <2>2. CASE k > Len(s)
    BY <1>1, <1>2, <2>2
  <2> QED
    BY <1>1, <2>1, <2>2
<1>4. ASSUME NEW k \in 1 .. Len(t), NEW l \in 1 .. Len(t), k < l
      PROVE  Before(t[k], t[l], ss, m + 1)
  <2>1. CASE l <= Len(s)
    <3>1. k \in 1 .. Len(s) /\ l \in 1 .. Len(s)
      BY <1>1, <1>4, <2>1
    <3>2. PICK i, j \in 1 .. m : \E a \in 1 .. Len(ss[i]), b \in 1 .. Len(ss[j]) :
             s[k] = ss[i][a] /\ s[l] = ss[j][b] /\ i <= j /\ (i = j => a < b)
      <4>1. Before(s[k], s[l], ss, m)
        BY <1>4, <3>1 DEF Ordered
      <4> QED
        BY <4>1 DEF Before
    <3>3. i \in 1 .. m + 1 /\ j \in 1 .. m + 1
      BY <1>1
    <3>4. t[k] = s[k] /\ t[l] = s[l]
      BY <1>2, <3>1
    <3> QED
      BY <3>2, <3>3, <3>4 DEF Before
  <2>2. CASE k <= Len(s) /\ l > Len(s)
    <3>1. k \in 1 .. Len(s)
      BY <1>1, <2>2
    <3>2. PICK i \in 1 .. m : \E a \in 1 .. Len(ss[i]) : s[k] = ss[i][a]
      BY <3>1 DEF Ordered
    <3>3. PICK a \in 1 .. Len(ss[i]) : t[k] = ss[i][a]
      BY <1>2, <3>1, <3>2
    <3>4. PICK b : b = l - Len(s)
      OBVIOUS
    <3>5. b \in 1 .. Len(ss[m + 1]) /\ t[l] = ss[m + 1][b]
      BY <1>2, <2>2, <3>4
    <3>6. i \in 1 .. m + 1 /\ i <= m + 1 /\ i # m + 1
      BY <1>1
    <3> QED
      BY <1>1, <3>3, <3>5, <3>6 DEF Before
  <2>3. CASE k > Len(s)
    <3>1. l > Len(s)
      BY <1>1, <1>4, <2>3
    <3>2. PICK a, b : a = k - Len(s) /\ b = l - Len(s)
      OBVIOUS
    <3>3. a \in 1 .. Len(ss[m + 1]) /\ t[k] = ss[m + 1][a]
      BY <1>2, <2>3, <3>2
    <3>4. b \in 1 .. Len(ss[m + 1]) /\ t[l] = ss[m + 1][b]
      BY <1>2, <3>1, <3>2
    <3>5. a < b
      BY <1>1, <1>4, <3>2
    <3> QED
      BY <1>1, <3>3, <3>4, <3>5 DEF Before
  <2> QED
    BY <1>1, <2>1, <2>2, <2>3
<1> QED
  BY <1>3, <1>4 DEF Ordered, t

(* The elements of the joined sequence are those of its parts, in order.   *)
LEMMA FlattenOrdered ==
    ASSUME NEW S, NEW ss \in Seq(Seq(S))
    PROVE  Ordered(FlattenSeq(ss), ss, Len(ss))
<1> DEFINE n == Len(ss)
<1>1. n \in Nat /\ n \in 0 .. n
  OBVIOUS
<1>2. PICK p \in [0 .. n -> Seq(S)] : Grows(p, ss, n)
  BY <1>1, GrowsExists
<1> DEFINE T == {m \in 0 .. n : Ordered(p[m], ss, m)}
<1>3. 0 \in T
  <2>1. p[0] = << >> /\ 1 .. Len(p[0]) = {}
    BY <1>2 DEF Grows
  <2> QED
    BY <1>1, <2>1 DEF Ordered
<1>4. ASSUME NEW m \in 0 .. n, m \in T, m < n PROVE m + 1 \in T
  <2>1. m + 1 \in 1 .. n /\ m + 1 \in 0 .. n /\ (m + 1) - 1 = m
    BY <1>1, <1>4
  <2>2. p[m] \in Seq(S) /\ Ordered(p[m], ss, m) /\ p[m + 1] = p[m] \o ss[m + 1]
    BY <1>2, <1>4, <2>1 DEF Grows
  <2>3. Ordered(p[m + 1], ss, m + 1)
    BY <1>4, <2>2, OrderedStep
  <2> QED
    BY <2>1, <2>3
<1>5. 0 .. n \subseteq T
  <2> HIDE DEF T, n
  <2> QED
    BY <1>1, <1>3, <1>4, IndexInduction
<1>6. Ordered(p[n], ss, n)
  BY <1>1, <1>5
<1> QED
  BY <1>2, <1>6, FlattenGrows

(* How many elements of s are in P.                                        *)
Hits(s, P) == {k \in 1 .. Len(s) : s[k] \in P}
Count(s, P) == Cardinality(Hits(s, P))

(* Such a count is a natural number.                                       *)
LEMMA CountType ==
    ASSUME NEW S, NEW s \in Seq(S), NEW P
    PROVE  IsFiniteSet(Hits(s, P)) /\ Count(s, P) \in Nat
<1>1. IsFiniteSet(1 .. Len(s)) /\ Hits(s, P) \subseteq 1 .. Len(s)
  BY FS_Interval DEF Hits
<1>2. IsFiniteSet(Hits(s, P))
  BY <1>1, FS_Subset
<1> QED
  BY <1>2, FS_CardinalityType DEF Count

(* The empty sequence has none.                                            *)
LEMMA CountEmpty == \A P : Count(<< >>, P) = 0
BY FS_EmptySet DEF Count, Hits

(* A single element counts once, if it is in P.                            *)
LEMMA CountOne == \A x, P : Count(<< x >>, P) = IF x \in P THEN 1 ELSE 0
<1> SUFFICES ASSUME NEW x, NEW P PROVE Count(<< x >>, P) = IF x \in P THEN 1 ELSE 0
  OBVIOUS
<1>1. Hits(<< x >>, P) = IF x \in P THEN {1} ELSE {}
  BY DEF Hits
<1> QED
  BY <1>1, FS_EmptySet, FS_Singleton DEF Count

(* Counts add up.                                                          *)
LEMMA CountConcat ==
    ASSUME NEW S, NEW s \in Seq(S), NEW t \in Seq(S), NEW P
    PROVE  Count(s \o t, P) = Count(s, P) + Count(t, P)
<1>1. PICK n \in Nat, m \in Nat : n = Len(s) /\ m = Len(t)
  OBVIOUS
<1>2. PICK u : u = s \o t
  OBVIOUS
<1>3. /\ Len(u) = n + m
      /\ \A k \in 1 .. n : u[k] = s[k]
      /\ \A k \in 1 .. m : u[n + k] = t[k]
  BY <1>1, <1>2
<1>4. PICK H : H = {k \in 1 .. n + m : k > n /\ u[k] \in P}
  OBVIOUS
<1>5. Hits(u, P) = Hits(s, P) \cup H /\ Hits(s, P) \cap H = {}
  BY <1>1, <1>3, <1>4 DEF Hits
<1>6. PICK f : f = [k \in Hits(t, P) |-> n + k]
  OBVIOUS
<1>7. f \in Bijection(Hits(t, P), H)
  <2>1. Hits(t, P) \subseteq 1 .. m
    BY <1>1 DEF Hits
  <2>2. f \in [Hits(t, P) -> H]
    <3>1. ASSUME NEW k \in Hits(t, P) PROVE n + k \in H
      <4>1. k \in 1 .. m /\ t[k] \in P
        BY <1>1 DEF Hits
      <4>2. n + k \in 1 .. n + m /\ n + k > n
        BY <4>1
      <4> QED
        BY <1>3, <1>4, <4>1, <4>2
    <3> QED
      BY <1>6, <3>1
  <2>3. ASSUME NEW j \in Hits(t, P), NEW k \in Hits(t, P), f[j] = f[k] PROVE j = k
    <3>1. n + j = n + k
      BY <1>6, <2>3
    <3>2. j \in 1 .. m /\ k \in 1 .. m
      BY <2>1
    <3> QED
      BY <3>1, <3>2
  <2>4. ASSUME NEW h \in H PROVE \E k \in Hits(t, P) : f[k] = h
    <3>1. h \in 1 .. n + m /\ h > n /\ u[h] \in P
      BY <1>4
    <3>2. h - n \in 1 .. m /\ n + (h - n) = h
      BY <3>1
    <3>3. h - n \in Hits(t, P)
      BY <1>1, <1>3, <3>1, <3>2 DEF Hits
    <3> QED
      BY <1>6, <3>2, <3>3
  <2>5. f \in Injection(Hits(t, P), H)
    BY <2>2, <2>3 DEF Injection, IsInjective
  <2>6. f \in Surjection(Hits(t, P), H)
    BY <2>2, <2>4 DEF Surjection
  <2> QED
    BY <2>5, <2>6 DEF Bijection
<1>8. IsFiniteSet(H) /\ Cardinality(H) = Count(t, P)
  <2>1. ExistsBijection(Hits(t, P), H)
    BY <1>7 DEF ExistsBijection
  <2>2. IsFiniteSet(Hits(t, P))
    BY CountType
  <2> QED
    BY <2>1, <2>2, FS_Bijection DEF Count
<1>9. /\ IsFiniteSet(Hits(s, P)) /\ Count(s, P) \in Nat /\ Count(t, P) \in Nat
      /\ Cardinality(Hits(s, P) \cup H) =
           Cardinality(Hits(s, P)) + Cardinality(H) - Cardinality(Hits(s, P) \cap H)
  BY <1>8, CountType, FS_Union
<1>10. Cardinality(Hits(s, P) \cap H) = 0
  BY <1>5, FS_EmptySet
<1> QED
  BY <1>2, <1>5, <1>8, <1>9, <1>10 DEF Count

(* The parts in K hold c such elements each, the others none.              *)
CountEach(ss, P, K, c) ==
    /\ K \subseteq 1 .. Len(ss)
    /\ \A k \in 1 .. Len(ss) : Count(ss[k], P) = IF k \in K THEN c ELSE 0

(* Then the whole has c for each part in K.                                *)
LEMMA CountFlatten ==
    ASSUME NEW S, NEW ss \in Seq(Seq(S)), NEW P, NEW K, NEW c \in Nat,
           CountEach(ss, P, K, c)
    PROVE  Count(FlattenSeq(ss), P) = Cardinality(K) * c
<1>0. PICK n \in Nat : n = Len(ss) /\ n \in 0 .. n
  OBVIOUS
<1>1. PICK p \in [0 .. n -> Seq(S)] : Grows(p, ss, n)
  BY <1>0, GrowsExists
<1> DEFINE A(m) == K \cap 1 .. m
           T == {m \in 0 .. n : IsFiniteSet(A(m)) /\ Count(p[m], P) = Cardinality(A(m)) * c}
<1>2. 0 \in T
  <2>1. p[0] = << >> /\ A(0) = {}
    BY <1>1 DEF Grows
  <2>2. IsFiniteSet(A(0)) /\ Cardinality(A(0)) = 0
    BY <2>1, FS_EmptySet
  <2>3. Count(p[0], P) = 0
    BY <2>1, CountEmpty
  <2> QED
    BY <1>0, <2>2, <2>3
<1>3. ASSUME NEW m \in 0 .. n, m \in T, m < n PROVE m + 1 \in T
  <2>1. m + 1 \in 1 .. n /\ m + 1 \in 0 .. n /\ (m + 1) - 1 = m /\ m + 1 \notin 1 .. m
    BY <1>0, <1>3
  <2>2. p[m] \in Seq(S) /\ ss[m + 1] \in Seq(S) /\ p[m + 1] = p[m] \o ss[m + 1]
    <3>1. p[m + 1] = p[(m + 1) - 1] \o ss[m + 1]
      BY <1>1, <2>1 DEF Grows
    <3>2. p[m] \in Seq(S) /\ ss[m + 1] \in Seq(S)
      <4>1. p[m] \in Seq(S)
        BY <1>1, <1>3
      <4>2. m + 1 \in 1 .. Len(ss)
        BY <1>0, <2>1
      <4> QED
        BY <4>1, <4>2
    <3> QED
      BY <2>1, <3>1, <3>2
  <2>3. Count(p[m + 1], P) = Count(p[m], P) + Count(ss[m + 1], P)
    BY <2>2, CountConcat
  <2>4. Count(p[m], P) = Cardinality(A(m)) * c /\ IsFiniteSet(A(m)) /\ Cardinality(A(m)) \in Nat
    BY <1>3, FS_CardinalityType
  <2>5. Count(ss[m + 1], P) = IF m + 1 \in K THEN c ELSE 0
    BY <1>0, <2>1 DEF CountEach
  <2>6. 1 .. m + 1 = 1 .. m \cup {m + 1}
    <3>1. m \in Nat /\ m + 1 \in Nat
      BY <1>0, <1>3
    <3>2. \A x : x \in 1 .. m + 1 <=> x \in 1 .. m \/ x = m + 1
      BY <3>1
    <3> QED
      BY <3>2
  <2>7. CASE m + 1 \in K
    <3>1. A(m + 1) = A(m) \cup {m + 1} /\ m + 1 \notin A(m)
      BY <2>1, <2>6, <2>7
    <3>2. PICK a \in Nat : a = Cardinality(A(m))
      BY <2>4
    <3> HIDE DEF A
    <3>3. IsFiniteSet(A(m + 1)) /\ Cardinality(A(m + 1)) = a + 1
      BY <2>4, <3>1, <3>2, FS_AddElement
    <3>4. Count(p[m + 1], P) = a * c + c
      BY <2>3, <2>4, <2>5, <2>7, <3>2
    <3>5. (a + 1) * c = a * c + c
      BY <3>2
    <3> QED
      BY <2>1, <3>3, <3>4, <3>5
  <2>8. CASE m + 1 \notin K
    <3>1. A(m + 1) = A(m)
      BY <2>6, <2>8
    <3>2. PICK x \in Nat : x = Cardinality(A(m)) * c
      BY <2>4
    <3>3. Count(p[m + 1], P) = x
      BY <2>3, <2>4, <2>5, <2>8, <3>2
    <3> QED
      BY <2>1, <2>4, <3>1, <3>2, <3>3
  <2> QED
    BY <2>7, <2>8
<1>4. 0 .. n \subseteq T
  <2> HIDE DEF T
  <2> QED
    BY <1>0, <1>2, <1>3, IndexInduction
<1>5. A(n) = K
  BY <1>0 DEF CountEach
<1>6. Count(p[n], P) = Cardinality(K) * c
  BY <1>0, <1>4, <1>5
<1> QED
  BY <1>0, <1>1, <1>6, FlattenGrows
=============================================================================
