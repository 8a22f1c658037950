---------------------------- MODULE LanguageProofs -----------------------------
(***************************************************************************)
(* Proofs about the languages of Wire, for any documents and               *)
(* representations, whatever nests in them.                                *)
(***************************************************************************)
EXTENDS LanguageProps, WireProofs

-----------------------------------------------------------------------------
(* Pointers.                                                               *)

(* g is what the loop of JSONValue.Pointer goes through.                   *)
Follows(g, v, path, n) == g[0] = v /\ \A i \in 1 .. n : g[i] = Step(g[i - 1], path[i])

(* There is such a walk for every value and pointer,                       *)
LEMMA FollowsExists ==
    ASSUME NEW v, NEW path, NEW n \in Nat
    PROVE  \E g : Follows(g, v, path, n)
<1> DEFINE S == {m \in 0 .. n : \E g : Follows(g, v, path, m)}
<1>1. 0 \in S
  <2>1. PICK g : g = [i \in 0 .. 0 |-> v]
    OBVIOUS
  <2>2. Follows(g, v, path, 0)
    BY <2>1 DEF Follows
  <2> QED
    BY <2>2
<1>2. ASSUME NEW m \in 0 .. n, m \in S, m < n PROVE m + 1 \in S
  <2>1. PICK g : Follows(g, v, path, m)
    BY <1>2
  <2>2. PICK x : x = Step(g[m], path[m + 1])
    OBVIOUS
  <2>3. PICK h : h = [i \in 0 .. m + 1 |-> IF i = m + 1 THEN x ELSE g[i]]
    OBVIOUS
  <2>4. h[0] = v
    BY <2>1, <2>3 DEF Follows
  <2>5. ASSUME NEW i \in 1 .. m + 1 PROVE h[i] = Step(h[i - 1], path[i])
    <3>1. i - 1 \in 0 .. m + 1 /\ i - 1 # m + 1
      OBVIOUS
    <3>2. h[i - 1] = g[i - 1]
      BY <2>3, <3>1
    <3>3. CASE i = m + 1
      BY <2>2, <2>3, <3>2, <3>3
    <3>4. CASE i # m + 1
      <4>1. i \in 1 .. m
        BY <3>4
      <4> QED
        BY <2>1, <2>3, <3>2, <3>4, <4>1 DEF Follows
    <3> QED
      BY <3>3, <3>4
  <2>6. Follows(h, v, path, m + 1)
    BY <2>4, <2>5 DEF Follows
  <2> QED
    BY <1>2, <2>6
<1>3. 0 .. n \subseteq S
  <2> HIDE DEF S
  <2> QED
    BY <1>1, <1>2, IndexInduction
<1> QED
  BY <1>3

(* and it leads to what the pointer denotes.                               *)
LEMMA AtIs ==
    ASSUME NEW v, NEW path, NEW n \in Nat, n = Len(path), NEW g, Follows(g, v, path, n)
    PROVE  At(v, path) = g[n]
<1> DEFINE body(f) == [i \in 0 .. n |-> IF i = 0 THEN v ELSE Step(f[i - 1], path[i])]
           at == CHOOSE f : f = body(f)
<1>1. At(v, path) = at[n]
  BY DEF At
<1>2. PICK h : h = [i \in 0 .. n |-> g[i]]
  OBVIOUS
<1> HIDE DEF at
<1>3. h = body(h)
  <2>1. ASSUME NEW i \in 0 .. n PROVE g[i] = IF i = 0 THEN v ELSE Step(h[i - 1], path[i])
    <3>1. CASE i = 0
      BY <3>1 DEF Follows
    <3>2. CASE i # 0
      <4>1. i \in 1 .. n /\ i - 1 \in 0 .. n
        BY <3>2
      <4>2. h[i - 1] = g[i - 1]
        BY <1>2, <4>1
      <4> QED
        BY <3>2, <4>1, <4>2 DEF Follows
    <3> QED
      BY <3>1, <3>2
  <2> QED
    BY <1>2, <2>1
<1>4. at = body(at)
  <2> HIDE DEF body
  <2> QED
    BY <1>3 DEF at
<1>5. PICK f : f = at
  OBVIOUS
<1>6. f = body(f)
  BY <1>4, <1>5
<1>7. f[0] = g[0]
  <2>1. f[0] = v
    BY <1>6
  <2> QED
    BY <2>1 DEF Follows
<1> DEFINE S == {i \in 0 .. n : f[i] = g[i]}
<1>8. 0 \in S
  BY <1>7
<1>9. ASSUME NEW i \in 0 .. n, i \in S, i < n PROVE i + 1 \in S
  <2>1. i + 1 \in 0 .. n /\ i + 1 # 0 /\ (i + 1) - 1 = i /\ i + 1 \in 1 .. n
    BY <1>9
  <2>2. f[i + 1] = Step(f[i], path[i + 1])
    BY <1>6, <2>1
  <2>3. g[i + 1] = Step(g[i], path[i + 1])
    BY <2>1 DEF Follows
  <2>4. f[i] = g[i]
    BY <1>9
  <2> QED
    BY <2>1, <2>2, <2>3, <2>4
<1>10. 0 .. n \subseteq S
  <2> HIDE DEF S
  <2> QED
    BY <1>8, <1>9, IndexInduction
<1>11. f[n] = g[n]
  BY <1>10
<1> QED
  BY <1>1, <1>5, <1>11

(* The empty pointer, one more token, and one pointer after another.       *)
LEMMA AtWhole == \A v : At(v, << >>) = v
<1> SUFFICES ASSUME NEW v PROVE At(v, << >>) = v
  OBVIOUS
<1>1. PICK path : path = << >>
  OBVIOUS
<1>2. PICK n \in Nat : n = Len(path) /\ n = 0
  BY <1>1
<1>3. PICK g : Follows(g, v, path, n)
  BY FollowsExists
<1>4. At(v, path) = g[n]
  BY <1>2, <1>3, AtIs
<1> QED
  BY <1>1, <1>2, <1>3, <1>4 DEF Follows

LEMMA AtAfter ==
    ASSUME NEW M, NEW p \in Seq(M), NEW q \in Seq(M), NEW v
    PROVE  At(v, p \o q) = At(At(v, p), q)
<1>1. PICK m \in Nat, n \in Nat : m = Len(p) /\ n = Len(q)
  OBVIOUS
<1>2. PICK r : r = p \o q
  OBVIOUS
<1>3. PICK l \in Nat : l = Len(r) /\ l = m + n
  BY <1>1, <1>2
<1>4. /\ \A i \in 1 .. m : r[i] = p[i]
      /\ \A i \in 1 .. n : r[m + i] = q[i]
  BY <1>1, <1>2
<1>5. PICK g : Follows(g, v, r, l)
  BY FollowsExists
<1>6. Follows(g, v, p, m)
  <2>1. \A i \in 1 .. m : i \in 1 .. l
    BY <1>3
  <2> QED
    BY <1>4, <1>5, <2>1 DEF Follows
<1>7. PICK h : h = [i \in 0 .. n |-> g[m + i]]
  OBVIOUS
<1>8. Follows(h, At(v, p), q, n)
  <2>1. At(v, p) = g[m]
    BY <1>1, <1>6, AtIs
  <2>2. h[0] = g[m]
    BY <1>7
  <2>3. ASSUME NEW i \in 1 .. n PROVE h[i] = Step(h[i - 1], q[i])
    <3>1. i \in 0 .. n /\ i - 1 \in 0 .. n /\ m + i \in 1 .. l /\ (m + i) - 1 = m + (i - 1)
      BY <1>3
    <3>2. g[m + i] = Step(g[(m + i) - 1], r[m + i])
      BY <1>5, <3>1 DEF Follows
    <3>3. r[m + i] = q[i] /\ g[(m + i) - 1] = g[m + (i - 1)]
      BY <1>4, <3>1
    <3> QED
      BY <1>7, <3>1, <3>2, <3>3
  <2> QED
    BY <2>1, <2>2, <2>3 DEF Follows
<1>9. At(At(v, p), q) = h[n]
  BY <1>1, <1>8, AtIs
<1>10. At(v, r) = g[l]
  BY <1>3, <1>5, AtIs
<1> QED
  BY <1>2, <1>3, <1>7, <1>9, <1>10

LEMMA AtToken == \A v, k : At(v, << k >>) = Step(v, k)
<1> SUFFICES ASSUME NEW v, NEW k PROVE At(v, << k >>) = Step(v, k)
  OBVIOUS
<1>1. PICK path : path = << k >>
  OBVIOUS
<1>2. PICK n \in Nat : n = Len(path) /\ n = 1 /\ path[1] = k
  BY <1>1
<1>3. PICK g : Follows(g, v, path, n)
  BY FollowsExists
<1>4. At(v, path) = g[n]
  BY <1>2, <1>3, AtIs
<1>5. 1 \in 1 .. n /\ 1 - 1 = 0
  BY <1>2
<1>6. g[0] = v /\ g[1] = Step(g[1 - 1], path[1])
  BY <1>3, <1>5 DEF Follows
<1> QED
  BY <1>1, <1>2, <1>4, <1>5, <1>6

LEMMA AtNext ==
    ASSUME NEW M, NEW p \in Seq(M), NEW k \in M, NEW v
    PROVE  At(v, Append(p, k)) = Step(At(v, p), k)
<1>1. PICK q : q = << k >>
  OBVIOUS
<1>2. q \in Seq(M)
  BY <1>1
<1>3. Append(p, k) = p \o q
  BY <1>1
<1>4. At(v, p \o q) = At(At(v, p), q)
  BY <1>2, AtAfter
<1> QED
  BY <1>1, <1>3, <1>4, AtToken

-----------------------------------------------------------------------------
(* What nests in a transform, and in a descriptor.                         *)

(* The transforms in a transform, level by level.                           *)
Nests(g, t, n) ==
    g[0] = {t} /\ \A i \in 1 .. n : g[i] = {t} \cup UNION {Operands(u) : u \in g[i - 1]}

LEMMA NestsExists ==
    ASSUME NEW t, NEW n \in Nat
    PROVE  \E g : Nests(g, t, n)
<1> DEFINE S == {m \in 0 .. n : \E g : Nests(g, t, m)}
<1>1. 0 \in S
  <2>1. PICK g : g = [i \in 0 .. 0 |-> {t}]
    OBVIOUS
  <2>2. Nests(g, t, 0)
    BY <2>1 DEF Nests
  <2> QED
    BY <2>2
<1>2. ASSUME NEW m \in 0 .. n, m \in S, m < n PROVE m + 1 \in S
  <2>1. PICK g : Nests(g, t, m)
    BY <1>2
  <2>2. PICK x : x = {t} \cup UNION {Operands(u) : u \in g[m]}
    OBVIOUS
  <2>3. PICK h : h = [i \in 0 .. m + 1 |-> IF i = m + 1 THEN x ELSE g[i]]
    OBVIOUS
  <2>4. h[0] = {t}
    BY <2>1, <2>3 DEF Nests
  <2>5. ASSUME NEW i \in 1 .. m + 1
        PROVE  h[i] = {t} \cup UNION {Operands(u) : u \in h[i - 1]}
    <3>1. i - 1 \in 0 .. m + 1 /\ i - 1 # m + 1
      OBVIOUS
    <3>2. h[i - 1] = g[i - 1]
      BY <2>3, <3>1
    <3>3. CASE i = m + 1
      <4>1. h[i] = x /\ i - 1 = m
        BY <2>3, <3>3
      <4> QED
        BY <2>2, <3>2, <4>1
    <3>4. CASE i # m + 1
      <4>1. i \in 1 .. m /\ h[i] = g[i]
        BY <2>3, <3>4
      <4>2. g[i] = {t} \cup UNION {Operands(u) : u \in g[i - 1]}
        BY <2>1, <4>1 DEF Nests
      <4> QED
        BY <3>2, <4>1, <4>2
    <3> QED
      BY <3>3, <3>4
  <2>6. Nests(h, t, m + 1)
    BY <2>4, <2>5 DEF Nests
  <2> QED
    BY <1>2, <2>6
<1>3. 0 .. n \subseteq S
  <2> HIDE DEF S
  <2> QED
    BY <1>1, <1>2, IndexInduction
<1> QED
  BY <1>3

(* So a set closed under them has all.                                     *)
LEMMA BelowWithin ==
    ASSUME NEW t, NEW C, Operands(t) \subseteq C, \A u \in C : Operands(u) \subseteq C
    PROVE  Below(t) \subseteq {t} \cup C
<1>1. PICK n \in Nat : n = Nesting
  BY ValueAssumption
<1> DEFINE body(f) == [i \in 0 .. n |->
                         {t} \cup IF i = 0 THEN {} ELSE UNION {Operands(u) : u \in f[i - 1]}]
           below == CHOOSE f : f = body(f)
<1>2. Below(t) = below[n]
  BY <1>1 DEF Below
<1>3. PICK g : Nests(g, t, n)
  BY NestsExists
<1>4. PICK h : h = [i \in 0 .. n |-> g[i]]
  OBVIOUS
<1> HIDE DEF below
<1>5. h = body(h)
  <2>1. ASSUME NEW i \in 0 .. n
        PROVE  g[i] = {t} \cup IF i = 0 THEN {} ELSE UNION {Operands(u) : u \in h[i - 1]}
    <3>1. CASE i = 0
      BY <1>3, <3>1 DEF Nests
    <3>2. CASE i # 0
      <4>1. i \in 1 .. n /\ i - 1 \in 0 .. n
        BY <3>2
      <4>2. h[i - 1] = g[i - 1]
        BY <1>4, <4>1
      <4>3. g[i] = {t} \cup UNION {Operands(u) : u \in g[i - 1]}
        BY <1>3, <4>1 DEF Nests
      <4> QED
        BY <3>2, <4>2, <4>3
    <3> QED
      BY <3>1, <3>2
  <2> QED
    BY <1>4, <2>1
<1>6. below = body(below)
  <2> HIDE DEF body
  <2> QED
    BY <1>5 DEF below
<1>7. PICK f : f = below
  OBVIOUS
<1>8. f = body(f)
  BY <1>6, <1>7
<1> DEFINE S == {i \in 0 .. n : f[i] \subseteq {t} \cup C}
<1>9. 0 \in S
  <2>1. f[0] = {t}
    BY <1>8
  <2> QED
    BY <2>1
<1>10. ASSUME NEW i \in 0 .. n, i \in S, i < n PROVE i + 1 \in S
  <2>1. i + 1 \in 0 .. n /\ i + 1 # 0 /\ (i + 1) - 1 = i
    BY <1>10
  <2>2. f[i + 1] = {t} \cup UNION {Operands(u) : u \in f[i]}
    BY <1>8, <2>1
  <2>3. \A u \in f[i] : Operands(u) \subseteq C
    BY <1>10
  <2> QED
    BY <2>1, <2>2, <2>3
<1>11. 0 .. n \subseteq S
  <2> HIDE DEF S
  <2> QED
    BY <1>9, <1>10, IndexInduction
<1>12. f[n] \subseteq {t} \cup C
  BY <1>11
<1> QED
  BY <1>2, <1>7, <1>12


(* The descriptors in a descriptor, level by level.                         *)
Inlined(g, t, n) ==
    g[0] = {t} /\ \A i \in 1 .. n : g[i] = {t} \cup UNION {Inlines(u) : u \in g[i - 1]}

LEMMA InlinedExists ==
    ASSUME NEW t, NEW n \in Nat
    PROVE  \E g : Inlined(g, t, n)
<1> DEFINE S == {m \in 0 .. n : \E g : Inlined(g, t, m)}
<1>1. 0 \in S
  <2>1. PICK g : g = [i \in 0 .. 0 |-> {t}]
    OBVIOUS
  <2>2. Inlined(g, t, 0)
    BY <2>1 DEF Inlined
  <2> QED
    BY <2>2
<1>2. ASSUME NEW m \in 0 .. n, m \in S, m < n PROVE m + 1 \in S
  <2>1. PICK g : Inlined(g, t, m)
    BY <1>2
  <2>2. PICK x : x = {t} \cup UNION {Inlines(u) : u \in g[m]}
    OBVIOUS
  <2>3. PICK h : h = [i \in 0 .. m + 1 |-> IF i = m + 1 THEN x ELSE g[i]]
    OBVIOUS
  <2>4. h[0] = {t}
    BY <2>1, <2>3 DEF Inlined
  <2>5. ASSUME NEW i \in 1 .. m + 1
        PROVE  h[i] = {t} \cup UNION {Inlines(u) : u \in h[i - 1]}
    <3>1. i - 1 \in 0 .. m + 1 /\ i - 1 # m + 1
      OBVIOUS
    <3>2. h[i - 1] = g[i - 1]
      BY <2>3, <3>1
    <3>3. CASE i = m + 1
      <4>1. h[i] = x /\ i - 1 = m
        BY <2>3, <3>3
      <4> QED
        BY <2>2, <3>2, <4>1
    <3>4. CASE i # m + 1
      <4>1. i \in 1 .. m /\ h[i] = g[i]
        BY <2>3, <3>4
      <4>2. g[i] = {t} \cup UNION {Inlines(u) : u \in g[i - 1]}
        BY <2>1, <4>1 DEF Inlined
      <4> QED
        BY <3>2, <4>1, <4>2
    <3> QED
      BY <3>3, <3>4
  <2>6. Inlined(h, t, m + 1)
    BY <2>4, <2>5 DEF Inlined
  <2> QED
    BY <1>2, <2>6
<1>3. 0 .. n \subseteq S
  <2> HIDE DEF S
  <2> QED
    BY <1>1, <1>2, IndexInduction
<1> QED
  BY <1>3

(* So a set closed under them has all.                                     *)
LEMMA InlineWithin ==
    ASSUME NEW t, NEW C, Inlines(t) \subseteq C, \A u \in C : Inlines(u) \subseteq C
    PROVE  InlineBelow(t) \subseteq {t} \cup C
<1>1. PICK n \in Nat : n = Nesting
  BY ValueAssumption
<1> DEFINE body(f) == [i \in 0 .. n |->
                         {t} \cup IF i = 0 THEN {} ELSE UNION {Inlines(u) : u \in f[i - 1]}]
           below == CHOOSE f : f = body(f)
<1>2. InlineBelow(t) = below[n]
  BY <1>1 DEF InlineBelow
<1>3. PICK g : Inlined(g, t, n)
  BY InlinedExists
<1>4. PICK h : h = [i \in 0 .. n |-> g[i]]
  OBVIOUS
<1> HIDE DEF below
<1>5. h = body(h)
  <2>1. ASSUME NEW i \in 0 .. n
        PROVE  g[i] = {t} \cup IF i = 0 THEN {} ELSE UNION {Inlines(u) : u \in h[i - 1]}
    <3>1. CASE i = 0
      BY <1>3, <3>1 DEF Inlined
    <3>2. CASE i # 0
      <4>1. i \in 1 .. n /\ i - 1 \in 0 .. n
        BY <3>2
      <4>2. h[i - 1] = g[i - 1]
        BY <1>4, <4>1
      <4>3. g[i] = {t} \cup UNION {Inlines(u) : u \in g[i - 1]}
        BY <1>3, <4>1 DEF Inlined
      <4> QED
        BY <3>2, <4>2, <4>3
    <3> QED
      BY <3>1, <3>2
  <2> QED
    BY <1>4, <2>1
<1>6. below = body(below)
  <2> HIDE DEF body
  <2> QED
    BY <1>5 DEF below
<1>7. PICK f : f = below
  OBVIOUS
<1>8. f = body(f)
  BY <1>6, <1>7
<1> DEFINE S == {i \in 0 .. n : f[i] \subseteq {t} \cup C}
<1>9. 0 \in S
  <2>1. f[0] = {t}
    BY <1>8
  <2> QED
    BY <2>1
<1>10. ASSUME NEW i \in 0 .. n, i \in S, i < n PROVE i + 1 \in S
  <2>1. i + 1 \in 0 .. n /\ i + 1 # 0 /\ (i + 1) - 1 = i
    BY <1>10
  <2>2. f[i + 1] = {t} \cup UNION {Inlines(u) : u \in f[i]}
    BY <1>8, <2>1
  <2>3. \A u \in f[i] : Inlines(u) \subseteq C
    BY <1>10
  <2> QED
    BY <2>1, <2>2, <2>3
<1>11. 0 .. n \subseteq S
  <2> HIDE DEF S
  <2> QED
    BY <1>9, <1>10, IndexInduction
<1>12. f[n] \subseteq {t} \cup C
  BY <1>11
<1> QED
  BY <1>2, <1>7, <1>12

-----------------------------------------------------------------------------
(* Descriptors.                                                            *)

(* Values consist of values.                                               *)
LEMMA MembersAreValues ==
    ASSUME NEW v \in Value, IsObject(v)
    PROVE  \A k \in Names(v) : v.members[k] \in Value
<1>1. Range(v.members) \subseteq Value
  BY ValueAssumption DEF Composed, Contents
<1> QED
  BY <1>1 DEF Range, Names

LEMMA ItemsAreValues ==
    ASSUME NEW v \in Value, IsArray(v)
    PROVE  v.items \in Seq(Value) /\ \A i \in DOMAIN v.items : v.items[i] \in Value
<1>1. v.items \in Seq(Value)
  BY ValueAssumption DEF Composed
<1>2. PICK l : l = v.items
  OBVIOUS
<1>3. l \in Seq(Value) => \A i \in DOMAIN l : l[i] \in Value
  OBVIOUS
<1> QED
  BY <1>1, <1>2, <1>3

(* A slot descriptor that is read is a reference, or a view in itself,     *)
ReadFrom(sd) ==
    sd.ref # Absent \/ \E u \in Value : ReadView(u) # Error /\ sd = Inline(ReadView(u))

LEMMA SlotDescriptorRead ==
    ASSUME NEW u \in Value, NEW sd, sd = ReadSlotDescriptor(u), sd # Error
    PROVE  ReadFrom(sd)
<1>1. PICK ref : ref = Member(u, "descriptor")
  OBVIOUS
<1>2. CASE ref # Absent
  <2>1. sd = Reference(ref)
    BY <1>1, <1>2 DEF ReadSlotDescriptor
  <2> QED
    BY <1>2, <2>1 DEF Reference, ReadFrom
<1>3. CASE ref = Absent
  <2>1. ReadView(u) # Error /\ sd = Inline(ReadView(u))
    BY <1>1, <1>3 DEF ReadSlotDescriptor
  <2> QED
    BY <2>1 DEF ReadFrom
<1> QED
  BY <1>2, <1>3

(* a slot has such descriptors, and some,                                  *)
LEMMA SlotValueRead ==
    ASSUME NEW w \in Value, NEW sv, sv = ReadSlotValue(w), sv # Error
    PROVE  sv.descriptors # << >> /\ \A sd \in Range(sv.descriptors) : ReadFrom(sd)
<1>1. PICK items : items = IF IsArray(w) THEN w.items ELSE << w >>
  OBVIOUS
<1>2. \A i \in DOMAIN items : items[i] \in Value
  <2>1. CASE IsArray(w)
    BY <1>1, <2>1, ItemsAreValues
  <2>2. CASE ~IsArray(w)
    BY <1>1, <2>2
  <2> QED
    BY <2>1, <2>2
<1>3. PICK read : read = [i \in DOMAIN items |-> ReadSlotDescriptor(items[i])]
  OBVIOUS
<1>4. read # << >> /\ Error \notin Range(read) /\ sv = [descriptors |-> read, array |-> IsArray(w)]
  BY <1>1, <1>3 DEF ReadSlotValue
<1>5. ASSUME NEW sd \in Range(read) PROVE ReadFrom(sd)
  <2>1. PICK i \in DOMAIN read : sd = read[i]
    BY DEF Range
  <2>2. sd = ReadSlotDescriptor(items[i]) /\ items[i] \in Value
    BY <1>2, <1>3, <2>1
  <2> QED
    BY <1>4, <2>2, SlotDescriptorRead
<1>6. sv.descriptors = read
  BY <1>4
<1> QED
  BY <1>4, <1>5, <1>6

(* and so have all slots of a descriptor.                                  *)
LEMMA SlotsRead ==
    ASSUME NEW v \in Value, NEW vd, vd = Read(v), vd # Error, NEW s \in DOMAIN vd.slots
    PROVE  /\ vd.slots[s].descriptors # << >>
           /\ \A sd \in Range(vd.slots[s].descriptors) : ReadFrom(sd)
<1>1. PICK slots : slots = Field(v, "slots")
  OBVIOUS
<1>2. /\ slots # Absent => IsObject(slots)
      /\ Error \notin Range(ReadSlots(slots))
      /\ vd.slots = ReadSlots(slots)
  BY <1>1 DEF Read
<1>3. slots # Absent
  BY <1>2 DEF ReadSlots, NoSlots
<1>4. slots \in Value
  <2>1. slots = v.members["slots"] /\ IsObject(v) /\ "slots" \in Names(v)
    BY <1>1, <1>3 DEF Field, Member, Has
  <2> QED
    BY <2>1, MembersAreValues
<1>5. PICK read : read = [n \in Names(slots) |-> ReadSlotValue(slots.members[n])]
  OBVIOUS
<1>6. vd.slots = read
  BY <1>2, <1>3, <1>5 DEF ReadSlots
<1>7. s \in Names(slots) /\ read[s] = ReadSlotValue(slots.members[s])
  BY <1>5, <1>6
<1>8. read[s] # Error
  BY <1>2, <1>5, <1>6, <1>7 DEF Range
<1>9. slots.members[s] \in Value
  BY <1>2, <1>3, <1>4, <1>7, MembersAreValues
<1> QED
  BY <1>6, <1>7, <1>8, <1>9, SlotValueRead

(* The views that are read from values and valid.                          *)
ValidViews == {vd \in {ReadView(v) : v \in Value} : vd # Error /\ ValidView(vd)}

LEMMA ValidIs ==
    ASSUME NEW vd \in ValidViews
    PROVE  /\ Valid(vd)
           /\ \E v \in Value : vd = Read(v) /\ vd # Error
<1>1. PICK v \in Value : vd = ReadView(v) /\ vd # Error /\ ValidView(vd)
  BY DEF ValidViews
<1>2. ReadView(v) = Read(v) /\ ValidView(ReadView(v)) = Valid(ReadView(v))
  BY <1>1, ParseAssumption
<1> QED
  BY <1>1, <1>2

LEMMA InlinesValid == \A vd \in ValidViews : Inlines(vd) \subseteq ValidViews
<1> SUFFICES ASSUME NEW vd \in ValidViews, NEW d \in Inlines(vd) PROVE d \in ValidViews
  OBVIOUS
<1>1. PICK s \in DOMAIN vd.slots :
         \E sd \in Range(vd.slots[s].descriptors) : sd.ref = Absent /\ d = sd.desc
  BY DEF Inlines
<1>2. PICK sd \in Range(vd.slots[s].descriptors) : sd.ref = Absent /\ d = sd.desc
  BY <1>1
<1>3. PICK u \in Value : ReadView(u) # Error /\ sd = Inline(ReadView(u))
  BY <1>2, ValidIs, SlotsRead DEF ReadFrom
<1>4. d = ReadView(u)
  BY <1>2, <1>3 DEF Inline
<1>5. ValidView(d)
  BY <1>2, ValidIs DEF Valid, Elements
<1> QED
  BY <1>3, <1>4, <1>5 DEF ValidViews

(* The view a client uses is one of them.                                  *)
LEMMA MeantIsValue ==
    ASSUME Origin, Has(sent.doc, "views") => Has(sent.doc.members["views"], "default")
    PROVE  Meant \in Value
<1>1. sent.doc \in Value
  BY ValueAssumption DEF Origin
<1>2. CASE ~Has(sent.doc, "views")
  BY <1>1, <1>2 DEF Meant
<1>3. CASE Has(sent.doc, "views")
  <2>1. sent.doc.members["views"] \in Value
    BY <1>1, <1>3, MembersAreValues DEF Has
  <2>2. sent.doc.members["views"].members["default"] \in Value
    BY <1>3, <2>1, MembersAreValues DEF Has
  <2> QED
    BY <1>3, <2>2 DEF Meant
<1> QED
  BY <1>2, <1>3

LEMMA ViewIsValid == WireInv /\ view # Absent => Sound(view) /\ Meant \in Value /\ view \in ValidViews
<1> SUFFICES ASSUME WireInv, view # Absent
             PROVE  Sound(view) /\ Meant \in Value /\ view \in ValidViews
  OBVIOUS
<1>1. Sound(view)
  BY DEF WireInv, Used
<1>2. Meant \in Value
  BY <1>1, MeantIsValue DEF WireInv, Sound
<1> QED
  BY <1>1, <1>2 DEF Sound, ValidViews

(* Validation reaches every inline descriptor, at any depth.               *)
THEOREM ValidatedThroughout == Spec => []ValidThroughout
<1>1. WireInv => ValidThroughout
  <2> SUFFICES ASSUME WireInv, view # Absent, NEW vd \in InlineBelow(view)
               PROVE  /\ vd.template \notin BadURI \cup {Absent}
                      /\ \A s \in DOMAIN vd.slots :
                           /\ vd.slots[s].descriptors # << >>
                           /\ \A sd \in Range(vd.slots[s].descriptors) :
                                sd.ref # Absent => sd.ref \notin BadReference
    BY DEF ValidThroughout
  <2>1. view \in ValidViews
    BY ViewIsValid
  <2>2. InlineBelow(view) \subseteq {view} \cup ValidViews
    BY <2>1, InlinesValid, InlineWithin
  <2>3. vd \in ValidViews
    BY <2>1, <2>2
  <2> QED
    BY <2>3, ValidIs DEF Valid, Elements
<1> QED
  BY <1>1, ResponseKept, PTL

-----------------------------------------------------------------------------
(* Transforms.                                                             *)

ConstructNames == {"$mapper", "$map", "$entries", "$get", "$count", "$merge"}

(* What the first construct of an object is.                               *)
LEMMA FirstConstruct ==
    ASSUME NEW v, Present(v) # {}
    PROVE  /\ Constructs[Min(Present(v))] \in ConstructNames
           /\ Constructs[Min(Present(v))] \in Names(v)
<1>1. DOMAIN Constructs = 1 .. 6
  BY DEF Constructs
<1>2. Present(v) \subseteq 1 .. 6
  BY <1>1 DEF Present
<1>3. PICK i \in Present(v) : \A j \in Present(v) : i <= j
  <2>1. PICK I : I = Present(v)
    OBVIOUS
  <2>2. I \subseteq 1 .. 6 /\ I # {} /\ 6 \in Nat
    BY <1>2, <2>1
  <2>3. \E i \in I : \A j \in I : i <= j
    BY <2>2, LeastIndex
  <2> QED
    BY <2>1, <2>3
<1>4. PICK m : m = Min(Present(v))
  OBVIOUS
<1>5. m \in Present(v)
  BY <1>3, <1>4 DEF Min
<1>6. m \in 1 .. 6
  BY <1>2, <1>5
<1>7. Constructs[m] \in Names(v)
  BY <1>5 DEF Present
<1>8. Constructs[m] \in ConstructNames
  BY <1>6 DEF Constructs, ConstructNames
<1> QED
  BY <1>4, <1>7, <1>8

(* A value is of one kind.                                                 *)
LEMMA KindsDiffer ==
    ASSUME NEW v
    PROVE  /\ IsObject(v) => ~IsArray(v) /\ ~IsPointer(v)
           /\ IsArray(v) => ~IsPointer(v)
BY DEF IsObject, IsArray, IsPointer

(* What a transform that is parsed is.                                     *)
ParsedFrom(t, v, topLevel) ==
    \/ IsPointer(v) /\ t = [op |-> "pointer", ptr |-> v.pointer]
    \/ /\ IsArray(v) /\ t = [op |-> "list", list |-> ParseAll(v.items)]
       /\ Error \notin Range(ParseAll(v.items))
    \/ IsObject(v) /\ Present(v) = {} /\ t = ParseMapping(v)
    \/ /\ IsObject(v)
       /\ \E c \in ConstructNames :
            /\ c = Constructs[Min(Present(v))] /\ Present(v) # {} /\ c \in Names(v)
            /\ t = ParseConstruct(c, v, topLevel)

LEMMA ParseForms ==
    ASSUME NEW v, NEW topLevel, NEW t, t = Parse(v, topLevel), t # Error
    PROVE  ParsedFrom(t, v, topLevel)
<1>1. CASE IsPointer(v)
  <2>1. t = [op |-> "pointer", ptr |-> v.pointer]
    BY <1>1, KindsDiffer DEF Parse
  <2> QED
    BY <1>1, <2>1 DEF ParsedFrom
<1>2. CASE IsArray(v) /\ ~IsPointer(v)
  <2>1. /\ Error \notin Range(ParseAll(v.items))
        /\ t = [op |-> "list", list |-> ParseAll(v.items)]
    BY <1>2, KindsDiffer DEF Parse
  <2> QED
    BY <1>2, <2>1 DEF ParsedFrom
<1>3. CASE IsObject(v) /\ ~IsPointer(v) /\ ~IsArray(v)
  <2>1. t = IF Present(v) = {} THEN ParseMapping(v)
            ELSE ParseConstruct(Constructs[Min(Present(v))], v, topLevel)
    BY <1>3 DEF Parse
  <2> QED
    BY <1>3, <2>1, FirstConstruct DEF ParsedFrom
<1>4. CASE ~IsObject(v) /\ ~IsPointer(v) /\ ~IsArray(v)
  BY <1>4 DEF Parse
<1> QED
  BY <1>1, <1>2, <1>3, <1>4

(* The operands of a transform are parsed where they stand.                *)
LEMMA ItemsParsed ==
    ASSUME NEW v \in Value, IsArray(v), Error \notin Range(ParseAll(v.items))
    PROVE  Range(ParseAll(v.items)) \subseteq Parsed
<1> SUFFICES ASSUME NEW t \in Range(ParseAll(v.items)) PROVE t \in Parsed
  OBVIOUS
<1>1. PICK i \in DOMAIN v.items : t = NestedParse(v.items[i], Nested)
  BY DEF ParseAll, Range
<1>2. v.items[i] \in Value
  BY ItemsAreValues
<1>3. t = Parse(v.items[i], Nested)
  BY <1>1, <1>2, ParseAssumption
<1> QED
  BY <1>2, <1>3 DEF Parsed

LEMMA MappingParsed ==
    ASSUME NEW v \in Value, IsObject(v), NEW t, t = ParseMapping(v), t # Error
    PROVE  /\ t.op = "mapping" /\ DOMAIN t.to = Names(v) /\ Range(t.to) \subseteq Parsed
           /\ \A k \in Names(v) : t.to[k] = Parse(v.members[k], Nested)
<1>1. PICK to : to = [k \in Names(v) |-> NestedParse(v.members[k], Nested)]
  OBVIOUS
<1>2. t = [op |-> "mapping", to |-> to] /\ Error \notin Range(to)
  BY <1>1 DEF ParseMapping
<1>3. \A k \in Names(v) : v.members[k] \in Value /\ to[k] = Parse(v.members[k], Nested)
  BY <1>1, MembersAreValues, ParseAssumption
<1>4. Range(to) \subseteq Parsed
  BY <1>1, <1>2, <1>3 DEF Range, Parsed
<1> QED
  BY <1>1, <1>2, <1>3, <1>4

(* A construct has the fields of its kind.                                 *)
LEMMA ConstructParsed ==
    ASSUME NEW v \in Value, IsObject(v), NEW topLevel, NEW c \in ConstructNames,
           c \in Names(v), NEW t, t = ParseConstruct(c, v, topLevel), t # Error
    PROVE  /\ t.op = c /\ WellFormed(c, v, topLevel)
           /\ c = "$merge" => /\ IsArray(v.members[c])
                              /\ t = [op |-> c, list |-> ParseAll(v.members[c].items)]
                              /\ Error \notin Range(ParseAll(v.members[c].items))
           /\ c \in {"$map", "$entries"} =>
                /\ IsPointer(v.members[c])
                /\ \E to : /\ t = [op |-> c, ptr |-> v.members[c].pointer, to |-> to]
                           /\ IF "$to" \in Names(v)
                              THEN to = Parse(v.members["$to"], Nested) /\ to # Error
                              ELSE to = Absent
           /\ c = "$get" => /\ IsPointer(v.members[c])
                            /\ t = [op |-> c, ptr |-> v.members[c].pointer,
                                    default |-> Plain(v.members["$default"])]
           /\ c = "$count" => /\ IsPointer(v.members[c])
                              /\ t = [op |-> c, ptr |-> v.members[c].pointer]
           /\ c = "$mapper" => t = [op |-> c, uri |-> v.members[c]]
<1>1. PICK m : m = v.members[c]
  OBVIOUS
<1>2. PICK items : items = IF c = "$merge" THEN ParseAll(m.items) ELSE << >>
  OBVIOUS
<1>3. PICK to : to = IF "$to" \in Names(v) THEN NestedParse(v.members["$to"], Nested) ELSE Absent
  OBVIOUS
<1>4. /\ WellFormed(c, v, topLevel) /\ Error \notin Range(items) /\ to # Error
      /\ t = CASE c = "$mapper" -> [op |-> c, uri |-> m]
               [] c \in {"$map", "$entries"} -> [op |-> c, ptr |-> m.pointer, to |-> to]
               [] c = "$get" -> [op |-> c, ptr |-> m.pointer,
                                 default |-> Plain(v.members["$default"])]
               [] c = "$count" -> [op |-> c, ptr |-> m.pointer]
               [] c = "$merge" -> [op |-> c, list |-> items]
  BY <1>1, <1>2, <1>3 DEF ParseConstruct
<1>5. "$to" \in Names(v) => to = Parse(v.members["$to"], Nested)
  BY <1>3, MembersAreValues, ParseAssumption
<1>6. WellFormed(c, v, topLevel)
  BY <1>4
<1>7. CASE c = "$mapper"
  <2>1. t = [op |-> c, uri |-> m]
    BY <1>4, <1>7
  <2> QED
    BY <1>1, <1>6, <1>7, <2>1
<1>8. CASE c \in {"$map", "$entries"}
  <2>1. t = [op |-> c, ptr |-> m.pointer, to |-> to] /\ IsPointer(m)
    BY <1>1, <1>4, <1>8 DEF WellFormed
  <2>2. IF "$to" \in Names(v) THEN to = Parse(v.members["$to"], Nested) /\ to # Error
        ELSE to = Absent
    BY <1>3, <1>4, <1>5
  <2>3. t.op = c
    BY <2>1
  <2> QED
    BY <1>1, <1>6, <1>8, <2>1, <2>2, <2>3
<1>9. CASE c \in {"$get", "$count"}
  <2>1. IsPointer(m)
    BY <1>1, <1>6, <1>9 DEF WellFormed
  <2>2. t = IF c = "$get"
            THEN [op |-> c, ptr |-> m.pointer, default |-> Plain(v.members["$default"])]
            ELSE [op |-> c, ptr |-> m.pointer]
    BY <1>4, <1>9
  <2>3. t.op = c
    BY <2>2
  <2> QED
    BY <1>1, <1>6, <1>9, <2>1, <2>2, <2>3
<1>10. CASE c = "$merge"
  <2>1. IsArray(m)
    BY <1>1, <1>6, <1>10 DEF WellFormed
  <2>2. t = [op |-> c, list |-> ParseAll(m.items)] /\ Error \notin Range(ParseAll(m.items))
    BY <1>2, <1>4, <1>10
  <2>3. t.op = c
    BY <2>2
  <2> QED
    BY <1>1, <1>6, <1>10, <2>1, <2>2, <2>3
<1> QED
  BY <1>7, <1>8, <1>9, <1>10 DEF ConstructNames

LEMMA OperandsParsed ==
    ASSUME NEW v \in Value, NEW topLevel, NEW t, t = Parse(v, topLevel), t # Error
    PROVE  Operands(t) \subseteq Parsed
<1>1. ParsedFrom(t, v, topLevel)
  BY ParseForms
<1>2. CASE IsPointer(v) /\ t = [op |-> "pointer", ptr |-> v.pointer]
  BY <1>2 DEF Operands
<1>3. CASE /\ IsArray(v) /\ t = [op |-> "list", list |-> ParseAll(v.items)]
           /\ Error \notin Range(ParseAll(v.items))
  BY <1>3, ItemsParsed DEF Operands
<1>4. CASE IsObject(v) /\ Present(v) = {} /\ t = ParseMapping(v)
  BY <1>4, MappingParsed DEF Operands
<1>5. ASSUME NEW c \in ConstructNames, IsObject(v), c \in Names(v),
             t = ParseConstruct(c, v, topLevel)
      PROVE  Operands(t) \subseteq Parsed
  <2>1. v.members[c] \in Value
    BY <1>5, MembersAreValues
  <2>2. CASE c = "$merge"
    BY <1>5, <2>1, <2>2, ConstructParsed, ItemsParsed DEF Operands
  <2>3. CASE c \in {"$map", "$entries"}
    <3>1. PICK to : /\ t = [op |-> c, ptr |-> v.members[c].pointer, to |-> to]
                    /\ IF "$to" \in Names(v)
                       THEN to = Parse(v.members["$to"], Nested) /\ to # Error
                       ELSE to = Absent
      BY <1>5, <2>3, ConstructParsed
    <3>2. Operands(t) = {to} \ {Absent}
      BY <2>3, <3>1 DEF Operands
    <3>3. "$to" \in Names(v) => v.members["$to"] \in Value
      BY <1>5, MembersAreValues
    <3> QED
      BY <3>1, <3>2, <3>3 DEF Parsed
  <2>4. CASE c \in {"$get", "$count", "$mapper"}
    BY <1>5, <2>4, ConstructParsed DEF Operands
  <2> QED
    BY <2>2, <2>3, <2>4 DEF ConstructNames
<1> QED
  BY <1>1, <1>2, <1>3, <1>4, <1>5 DEF ParsedFrom

(* A mapper is parsed at the top only, and all else alike.                 *)
LEMMA NoMapperParsed == \A t \in Parsed : t.op # "$mapper"
<1> SUFFICES ASSUME NEW v \in Value, NEW t, t = Parse(v, Nested), t # Error
             PROVE  t.op # "$mapper"
  BY DEF Parsed
<1>1. ParsedFrom(t, v, Nested)
  BY ParseForms
<1>2. CASE IsPointer(v) /\ t = [op |-> "pointer", ptr |-> v.pointer]
  BY <1>2
<1>3. CASE IsArray(v) /\ t = [op |-> "list", list |-> ParseAll(v.items)]
  BY <1>3
<1>4. CASE IsObject(v) /\ t = ParseMapping(v)
  BY <1>4, MappingParsed
<1>5. ASSUME NEW c \in ConstructNames, IsObject(v), c \in Names(v),
             t = ParseConstruct(c, v, Nested)
      PROVE  t.op # "$mapper"
  <2>1. t.op = c /\ WellFormed(c, v, Nested)
    BY <1>5, ConstructParsed
  <2> QED
    BY <2>1 DEF WellFormed, Nested
<1> QED
  BY <1>1, <1>2, <1>3, <1>4, <1>5 DEF ParsedFrom

LEMMA WholeOrParsed ==
    ASSUME NEW v \in Value, NEW t, t = Parse(v, AtTop), t # Error
    PROVE  t.op = "$mapper" \/ t \in Parsed
<1>1. ParsedFrom(t, v, AtTop)
  BY ParseForms
<1>2. ASSUME NEW c \in ConstructNames, IsObject(v), c = Constructs[Min(Present(v))],
             c \in Names(v), Present(v) # {}, t = ParseConstruct(c, v, AtTop), c # "$mapper"
      PROVE  t = Parse(v, Nested)
  <2>1. WellFormed(c, v, AtTop) <=> WellFormed(c, v, Nested)
    BY <1>2 DEF WellFormed
  <2>2. ParseConstruct(c, v, AtTop) = ParseConstruct(c, v, Nested)
    <3>1. CASE WellFormed(c, v, AtTop) /\ WellFormed(c, v, Nested)
      BY <3>1 DEF ParseConstruct
    <3>2. CASE ~WellFormed(c, v, AtTop) /\ ~WellFormed(c, v, Nested)
      BY <3>2 DEF ParseConstruct
    <3> QED
      BY <2>1, <3>1, <3>2
  <2>3. ~IsPointer(v) /\ ~IsArray(v)
    BY <1>2, KindsDiffer
  <2> QED
    BY <1>2, <2>2, <2>3 DEF Parse
<1>3. CASE ~IsObject(v) \/ Present(v) = {}
  <2>1. Parse(v, AtTop) = Parse(v, Nested)
    BY <1>3 DEF Parse
  <2> QED
    BY <2>1 DEF Parsed
<1>4. CASE IsObject(v) /\ Present(v) # {}
  <2>1. PICK c \in ConstructNames :
          c = Constructs[Min(Present(v))] /\ c \in Names(v) /\ t = ParseConstruct(c, v, AtTop)
    BY <1>1, <1>4 DEF ParsedFrom, IsObject, IsPointer, IsArray
  <2>2. CASE c = "$mapper"
    BY <1>4, <2>1, <2>2, ConstructParsed
  <2>3. CASE c # "$mapper"
    BY <1>2, <1>4, <2>1, <2>3 DEF Parsed
  <2> QED
    BY <2>2, <2>3
<1> QED
  BY <1>3, <1>4

(* The transform of a view a client uses.                                  *)
LEMMA TransformParsed ==
    ASSUME WireInv, view # Absent, view.transform # Absent
    PROVE  \E v \in Value : view.transform = Parse(v, AtTop) /\ view.transform # Error
<1>1. view = Read(Meant) /\ view # Error /\ Meant \in Value
  BY ViewIsValid, ParseAssumption DEF Sound
<1>2. PICK transform : transform = Member(Meant, "transform")
  OBVIOUS
<1>3. /\ view.transform = IF transform = Absent THEN Absent ELSE ParseTransform(transform)
      /\ view.transform # Error
  BY <1>1, <1>2 DEF Read
<1>4. transform # Absent /\ view.transform = Parse(transform, AtTop)
  BY <1>3 DEF ParseTransform
<1>5. transform \in Value
  BY <1>1, <1>2, <1>4, MembersAreValues DEF Member, Has
<1> QED
  BY <1>3, <1>4, <1>5

LEMMA TransformsParsed ==
    ASSUME WireInv
    PROVE  \A t \in Transforms : (t = view.transform /\ t.op = "$mapper") \/ t \in Parsed
<1> SUFFICES ASSUME NEW t \in Transforms
             PROVE  (t = view.transform /\ t.op = "$mapper") \/ t \in Parsed
  OBVIOUS
<1>1. view # Absent /\ view.transform # Absent /\ t \in Below(view.transform)
  BY DEF Transforms
<1>2. PICK v \in Value : view.transform = Parse(v, AtTop) /\ view.transform # Error
  BY <1>1, TransformParsed
<1>3. PICK w : w = view.transform
  OBVIOUS
<1>4. Operands(w) \subseteq Parsed
  BY <1>2, <1>3, OperandsParsed
<1>5. \A u \in Parsed : Operands(u) \subseteq Parsed
  BY OperandsParsed DEF Parsed
<1>6. Below(w) \subseteq {w} \cup Parsed
  BY <1>4, <1>5, BelowWithin
<1>7. w.op = "$mapper" \/ w \in Parsed
  BY <1>2, <1>3, WholeOrParsed
<1> QED
  BY <1>1, <1>3, <1>6, <1>7

(* Mapper code is named by a whole transform only.                         *)
THEOREM MapperAlone == Spec => []MapperStandsAlone
<1>1. WireInv => MapperStandsAlone
  BY TransformsParsed, NoMapperParsed DEF MapperStandsAlone
<1> QED
  BY <1>1, ResponseKept, PTL

-----------------------------------------------------------------------------
(* Induction over the depth of values.                                     *)

(* The levels of Deepest.                                                  *)
Levels(f) ==
    /\ f[0] = Value /\ f[Nesting] = {}
    /\ \A i \in 1 .. Nesting : f[i] = UNION {Contents(v) : v \in f[i - 1]}

LEMMA LevelsExist == \E f : Levels(f)
<1>1. PICK n \in Nat : n = Nesting
  BY ValueAssumption
<1> DEFINE body(f) == [i \in 0 .. n |->
                         IF i = 0 THEN Value ELSE UNION {Contents(v) : v \in f[i - 1]}]
           deep == CHOOSE f : f = body(f)
<1>2. deep[n] = {}
  BY <1>1, ValueAssumption DEF Deepest
<1>3. PICK S : S = SUBSET Value
  OBVIOUS
<1>4. PICK step : step = [x \in (1 .. n) \X S |-> UNION {Contents(v) : v \in x[2]}]
  OBVIOUS
<1>5. \A v \in Value : Contents(v) \subseteq Value
  BY ValueAssumption DEF Composed
<1>6. \A x \in (1 .. n) \X S : UNION {Contents(v) : v \in x[2]} \in S
  BY <1>3, <1>5
<1>7. step \in [(1 .. n) \X S -> S] /\ Value \in S
  BY <1>3, <1>4, <1>6
<1>8. PICK g \in [0 .. n -> S] : Iterated(g, n, Value, step)
  BY <1>7, Iterates
<1> HIDE DEF deep
<1>9. g = body(g)
  <2>1. ASSUME NEW i \in 0 .. n
        PROVE  g[i] = IF i = 0 THEN Value ELSE UNION {Contents(v) : v \in g[i - 1]}
    <3>1. CASE i = 0
      BY <1>8, <3>1 DEF Iterated
    <3>2. CASE i # 0
      <4>1. i \in 1 .. n /\ i - 1 \in 0 .. n
        BY <3>2
      <4>2. PICK x : x = << i, g[i - 1] >>
        OBVIOUS
      <4>3. x \in (1 .. n) \X S /\ x[2] = g[i - 1]
        BY <4>1, <4>2
      <4>4. g[i] = step[x]
        BY <1>8, <4>1, <4>2 DEF Iterated
      <4>5. step[x] = UNION {Contents(v) : v \in x[2]}
        BY <1>4, <4>3
      <4> QED
        BY <3>2, <4>3, <4>4, <4>5
    <3> QED
      BY <3>1, <3>2
  <2> QED
    BY <2>1
<1>10. deep = body(deep)
  <2> HIDE DEF body
  <2> QED
    BY <1>9 DEF deep
<1>11. PICK f : f = deep
  OBVIOUS
<1>12. f = body(f)
  BY <1>10, <1>11
<1>13. f[0] = Value
  BY <1>12
<1>14. ASSUME NEW i \in 1 .. n PROVE f[i] = UNION {Contents(v) : v \in f[i - 1]}
  <2>1. i \in 0 .. n /\ i # 0
    OBVIOUS
  <2> QED
    BY <1>12, <2>1
<1> QED
  BY <1>1, <1>2, <1>11, <1>13, <1>14 DEF Levels

(* What a value consists of, as far down as one call reaches.              *)
Components(v) ==
    LET one == Contents(v)
        two == UNION {Contents(w) : w \in one}
        three == UNION {Contents(w) : w \in two}
    IN  one \cup two \cup three

LEMMA ValueInduction ==
    ASSUME NEW S, \A v \in Value : Components(v) \subseteq S => v \in S
    PROVE  Value \subseteq S
<1>1. PICK n \in Nat : n = Nesting
  BY ValueAssumption
<1>2. PICK f : Levels(f)
  BY LevelsExist
<1>3. f[0] = Value /\ f[n] = {} /\ \A i \in 1 .. n : f[i] = UNION {Contents(v) : v \in f[i - 1]}
  BY <1>1, <1>2 DEF Levels
<1>4. ASSUME NEW i \in 0 .. n, NEW v \in f[i], NEW w \in Contents(v)
      PROVE  i < n /\ i + 1 \in 0 .. n /\ w \in f[i + 1]
  <2>1. i # n
    BY <1>3
  <2>2. i + 1 \in 1 .. n /\ (i + 1) - 1 = i
    BY <2>1
  <2> QED
    BY <1>3, <2>2
<1>5. \A i \in 0 .. n : f[i] \subseteq Value
  <2> DEFINE T == {i \in 0 .. n : f[i] \subseteq Value}
  <2>1. 0 \in T
    BY <1>3
  <2>2. ASSUME NEW i \in 0 .. n, i \in T, i < n PROVE i + 1 \in T
    <3>1. i + 1 \in 1 .. n /\ (i + 1) - 1 = i /\ i + 1 \in 0 .. n
      BY <2>2
    <3>2. f[i + 1] = UNION {Contents(v) : v \in f[i]}
      BY <1>3, <3>1
    <3>3. \A v \in f[i] : Contents(v) \subseteq Value
      BY <2>2, ValueAssumption DEF Composed
    <3> QED
      BY <3>1, <3>2, <3>3
  <2>3. 0 .. n \subseteq T
    <3> HIDE DEF T
    <3> QED
      BY <2>1, <2>2, IndexInduction
  <2> QED
    BY <2>3
<1> DEFINE T == {i \in 0 .. n : \A j \in i .. n : f[j] \subseteq S}
<1>6. n \in T
  <2>1. \A j \in n .. n : j = n
    OBVIOUS
  <2> QED
    BY <1>3, <2>1
<1>7. ASSUME NEW i \in 0 .. n, i < n, i + 1 \in T PROVE i \in T
  <2>1. \A j \in i + 1 .. n : f[j] \subseteq S
    BY <1>7
  <2>2. ASSUME NEW v \in f[i] PROVE v \in S
    <3>1. PICK one, two, three :
            /\ one = Contents(v) /\ two = UNION {Contents(w) : w \in one}
            /\ three = UNION {Contents(w) : w \in two}
      OBVIOUS
    <3>2. ASSUME NEW w \in one PROVE i + 1 \in i + 1 .. n /\ w \in f[i + 1]
      BY <1>4, <3>1
    <3>3. ASSUME NEW w \in two PROVE i + 2 \in i + 1 .. n /\ w \in f[i + 2]
      <4>1. PICK u \in one : w \in Contents(u)
        BY <3>1
      <4>2. i + 1 \in 0 .. n /\ u \in f[i + 1] /\ (i + 1) + 1 = i + 2
        BY <3>2
      <4>3. i + 1 < n /\ (i + 1) + 1 \in 0 .. n /\ w \in f[(i + 1) + 1]
        BY <1>4, <4>1, <4>2
      <4> QED
        BY <4>2, <4>3
    <3>4. ASSUME NEW w \in three PROVE i + 3 \in i + 1 .. n /\ w \in f[i + 3]
      <4>1. PICK u \in two : w \in Contents(u)
        BY <3>1
      <4>2. i + 2 \in 0 .. n /\ u \in f[i + 2] /\ (i + 2) + 1 = i + 3
        BY <3>3
      <4>3. i + 2 < n /\ (i + 2) + 1 \in 0 .. n /\ w \in f[(i + 2) + 1]
        BY <1>4, <4>1, <4>2
      <4> QED
        BY <4>2, <4>3
    <3>5. one \cup two \cup three \subseteq S
      BY <2>1, <3>2, <3>3, <3>4
    <3>6. Components(v) = one \cup two \cup three
      BY <3>1 DEF Components
    <3>7. v \in Value
      BY <1>5
    <3> QED
      BY <3>5, <3>6, <3>7
  <2>3. ASSUME NEW j \in i .. n PROVE f[j] \subseteq S
    <3>1. j = i \/ j \in i + 1 .. n
      OBVIOUS
    <3> QED
      BY <2>1, <2>2, <3>1
  <2> QED
    BY <2>3
<1>8. 0 .. n \subseteq T
  <2> HIDE DEF T
  <2> QED
    BY <1>6, <1>7, DownInduction
<1>9. 0 \in T
  BY <1>8
<1> QED
  BY <1>3, <1>9

-----------------------------------------------------------------------------
(* Evaluation.                                                             *)

(* A pointer leads from input to input, or nowhere.                        *)
LEMMA StepWithin ==
    ASSUME NEW x \in Input \cup {Absent}, NEW k
    PROVE  Step(x, k) \in Input \cup {Absent}
<1>1. CASE IsObject(x) /\ k \in Names(x)
  <2>1. x \in Input /\ ~IsArray(x)
    BY <1>1 DEF IsObject, IsArray, Absent
  <2>2. Range(x.members) \subseteq Input
    BY <1>1, <2>1, InputAssumption DEF Composed, Contents
  <2>3. x.members[k] \in Input
    BY <1>1, <2>2 DEF Names, Range
  <2> QED
    BY <1>1, <2>1, <2>3 DEF Step
<1>2. CASE IsArray(x) /\ k \in DOMAIN Index /\ Scanned(k) < Len(x.items)
  <2>1. x \in Input /\ ~IsObject(x)
    BY <1>2 DEF IsObject, IsArray, Absent
  <2>2. PICK items : items = x.items
    OBVIOUS
  <2>3. items \in Seq(Input)
    BY <1>2, <2>1, <2>2, InputAssumption DEF Composed
  <2>4. Scanned(k) \in Nat
    BY <1>2, WireAssumption DEF Scanned
  <2>5. items[Scanned(k) + 1] \in Input
    BY <1>2, <2>2, <2>3, <2>4
  <2> QED
    BY <1>2, <2>1, <2>2, <2>5 DEF Step
<1>3. CASE /\ ~(IsObject(x) /\ k \in Names(x))
           /\ ~(IsArray(x) /\ k \in DOMAIN Index /\ Scanned(k) < Len(x.items))
  <2>1. Step(x, k) = Absent
    BY <1>3 DEF Step
  <2> QED
    BY <2>1
<1> QED
  BY <1>1, <1>2, <1>3

LEMMA AtWithin ==
    ASSUME NEW x \in Input \cup {Absent}, NEW M, NEW path \in Seq(M)
    PROVE  At(x, path) \in Input \cup {Absent}
<1>1. PICK n \in Nat : n = Len(path)
  OBVIOUS
<1>2. PICK g : Follows(g, x, path, n)
  BY FollowsExists
<1> DEFINE T == {i \in 0 .. n : g[i] \in Input \cup {Absent}}
<1>3. 0 \in T
  BY <1>2 DEF Follows
<1>4. ASSUME NEW i \in 0 .. n, i \in T, i < n PROVE i + 1 \in T
  <2>1. i + 1 \in 1 .. n /\ i + 1 \in 0 .. n /\ (i + 1) - 1 = i
    BY <1>4
  <2>2. g[i + 1] = Step(g[i], path[i + 1])
    BY <1>2, <2>1 DEF Follows
  <2>3. g[i] \in Input \cup {Absent}
    BY <1>4
  <2>4. Step(g[i], path[i + 1]) \in Input \cup {Absent}
    BY <2>3, StepWithin
  <2> QED
    BY <2>1, <2>2, <2>4
<1>5. 0 .. n \subseteq T
  <2> HIDE DEF T
  <2> QED
    BY <1>3, <1>4, IndexInduction
<1>6. g[n] \in Input \cup {Absent}
  BY <1>5
<1>7. At(x, path) = g[n]
  BY <1>1, <1>2, AtIs
<1> QED
  BY <1>6, <1>7

(* What a transform is applied to.                                         *)
LEMMA InputIs == WireInv /\ stage = "viewed" => got.input \in Input \cup {Absent}
<1> SUFFICES ASSUME WireInv, stage = "viewed" PROVE got.input \in Input \cup {Absent}
  OBVIOUS
<1>1. got.input = Content /\ sent.payload \in Payload
  BY DEF WireInv, Obtained, Origin
<1>2. Decode(sent.payload) \in Input
  BY <1>1, InputAssumption
<1> QED
  BY <1>1, <1>2 DEF Content

(* What $map and $entries give, one result for each element or member.     *)
LEMMA MapIs ==
    ASSUME NEW t, t.op = "$map", NEW x, NEW y \in Input, y = At(x, t.ptr), IsArray(y)
    PROVE  /\ Eval(t, x) = EvalElements(t, y.items, x)
           /\ Eval(t, x) # Null /\ Len(Eval(t, x).slice) = Len(y.items)
<1>1. Eval(t, x) = EvalElements(t, y.items, x)
  BY DEF Eval
<1>2. PICK l : l = [i \in DOMAIN y.items |-> NestedEval(t.to, y.items[i])]
  OBVIOUS
<1>3. Eval(t, x) = [slice |-> l]
  BY <1>1, <1>2 DEF EvalElements
<1>4. PICK items : items = y.items
  OBVIOUS
<1>5. items \in Seq(Input)
  BY <1>4, InputAssumption DEF Composed
<1>6. DOMAIN items = 1 .. Len(items) /\ Len(items) \in Nat
  BY <1>5
<1>7. DOMAIN l = 1 .. Len(items)
  BY <1>2, <1>4, <1>6
<1>8. Len(l) = Len(items)
  BY <1>6, <1>7
<1>9. [slice |-> l] # Null
  BY DEF Null
<1> QED
  BY <1>1, <1>3, <1>4, <1>8, <1>9

LEMMA EntriesIs ==
    ASSUME NEW t, t.op = "$entries", NEW x, NEW y \in Input, y = At(x, t.ptr), IsObject(y)
    PROVE  Eval(t, x) # Null /\ Len(Eval(t, x).slice) = Len(y.keys)
<1>1. Eval(t, x) = EvalEntries(t, y)
  BY DEF Eval
<1>2. PICK l : l = [i \in DOMAIN y.keys |->
         LET pair == Pair(y.keys[i], y.members[y.keys[i]])
         IN  IF t.to = Absent THEN Plain(pair) ELSE NestedEval(t.to, pair)]
  OBVIOUS
<1>3. Eval(t, x) = [slice |-> l]
  BY <1>1, <1>2 DEF EvalEntries
<1>4. PICK keys : keys = y.keys
  OBVIOUS
<1>5. keys \in Seq(Names(y))
  BY <1>4, InputAssumption DEF Composed
<1>6. DOMAIN keys = 1 .. Len(keys) /\ Len(keys) \in Nat
  BY <1>5
<1>7. DOMAIN l = 1 .. Len(keys)
  BY <1>2, <1>4, <1>6
<1>8. Len(l) = Len(keys)
  BY <1>6, <1>7
<1>9. [slice |-> l] # Null
  BY DEF Null
<1> QED
  BY <1>3, <1>4, <1>8, <1>9

(* $count agrees with the construct that lists.                            *)
LEMMA CountIs ==
    ASSUME NEW x \in Input \cup {Absent}, NEW M, NEW p \in Seq(M), NEW to,
           NEW map, map = Eval([op |-> "$map", ptr |-> p, to |-> to], x),
           NEW entries, entries = Eval([op |-> "$entries", ptr |-> p, to |-> to], x),
           NEW count, count = Eval([op |-> "$count", ptr |-> p, to |-> to], x)
    PROVE  \/ map = Null /\ entries = Null /\ count = Null
           \/ map # Null /\ entries = Null /\ count = Number(Len(map.slice))
           \/ map = Null /\ entries # Null /\ count = Number(Len(entries.slice))
<1>1. PICK y : y = At(x, p)
  OBVIOUS
<1>2. y \in Input \cup {Absent}
  BY <1>1, AtWithin
<1>3. PICK t, u, w : /\ t = [op |-> "$map", ptr |-> p, to |-> to]
                     /\ u = [op |-> "$entries", ptr |-> p, to |-> to]
                     /\ w = [op |-> "$count", ptr |-> p, to |-> to]
  OBVIOUS
<1>4. /\ t.op = "$map" /\ t.ptr = p /\ map = Eval(t, x)
      /\ u.op = "$entries" /\ u.ptr = p /\ entries = Eval(u, x)
      /\ w.op = "$count" /\ w.ptr = p /\ count = Eval(w, x)
  BY <1>3
<1>5. count = EvalCount(y)
  BY <1>1, <1>4 DEF Eval
<1>6. CASE IsArray(y)
  <2>1. y \in Input
    BY <1>2, <1>6 DEF IsArray, Absent
  <2>2. map # Null /\ Len(map.slice) = Len(y.items)
    <3>1. Eval(t, x) # Null /\ Len(Eval(t, x).slice) = Len(y.items)
      BY <1>1, <1>4, <1>6, <2>1, MapIs
    <3> QED
      BY <1>4, <3>1
  <2>3. entries = Null
    BY <1>1, <1>4, <1>6, KindsDiffer DEF Eval
  <2>4. count = Number(Len(y.items))
    BY <1>5, <1>6, KindsDiffer DEF EvalCount
  <2> QED
    BY <2>2, <2>3, <2>4
<1>7. CASE IsObject(y)
  <2>1. y \in Input
    BY <1>2, <1>7 DEF IsObject, Absent
  <2>2. entries # Null /\ Len(entries.slice) = Len(y.keys)
    BY <1>1, <1>4, <1>7, <2>1, EntriesIs
  <2>3. map = Null
    BY <1>1, <1>4, <1>7, KindsDiffer DEF Eval
  <2>4. count = Number(Len(y.keys))
    BY <1>5, <1>7, KindsDiffer DEF EvalCount
  <2> QED
    BY <2>2, <2>3, <2>4
<1>8. CASE ~IsArray(y) /\ ~IsObject(y)
  <2>1. map = Null
    BY <1>1, <1>4, <1>8 DEF Eval
  <2>2. entries = Null
    BY <1>1, <1>4, <1>8 DEF Eval
  <2>3. count = Null
    BY <1>5, <1>8 DEF EvalCount
  <2> QED
    BY <2>1, <2>2, <2>3
<1> QED
  BY <1>6, <1>7, <1>8

(* $count agrees with the constructs that list, at every pointer.          *)
THEOREM CountedAsListed == Spec => []CountAgrees
<1>1. WireInv => CountAgrees
  <2> SUFFICES ASSUME WireInv, stage = "viewed",
                      NEW p \in {<< >>} \cup {<< pair[1] >> : pair \in Range(sent.payload)},
                      NEW to, to = [op |-> "pointer", ptr |-> << >>],
                      NEW lists,
                      lists = {Eval([op |-> "$map", ptr |-> p, to |-> to], got.input),
                               Eval([op |-> "$entries", ptr |-> p, to |-> to], got.input)}
                              \ {Null}
               PROVE  Eval([op |-> "$count", ptr |-> p, to |-> to], got.input)
                        = IF lists = {} THEN Null
                          ELSE Number(Len((CHOOSE l \in lists : TRUE).slice))
    BY DEF CountAgrees
  <2>1. got.input \in Input \cup {Absent}
    BY InputIs
  <2>2. \E M : p \in Seq(M)
    <3>1. CASE p = << >>
      BY <3>1
    <3>2. ASSUME NEW k, p = << k >> PROVE \E M : p \in Seq(M)
      <4>1. p \in Seq({k})
        BY <3>2
      <4> QED
        BY <4>1
    <3> QED
      BY <3>1, <3>2
  <2>3. PICK map, entries, count :
          /\ map = Eval([op |-> "$map", ptr |-> p, to |-> to], got.input)
          /\ entries = Eval([op |-> "$entries", ptr |-> p, to |-> to], got.input)
          /\ count = Eval([op |-> "$count", ptr |-> p, to |-> to], got.input)
    OBVIOUS
  <2>4. \/ map = Null /\ entries = Null /\ count = Null
        \/ map # Null /\ entries = Null /\ count = Number(Len(map.slice))
        \/ map = Null /\ entries # Null /\ count = Number(Len(entries.slice))
    BY <2>1, <2>2, <2>3, CountIs
  <2>5. lists = {map, entries} \ {Null}
    BY <2>3
  <2>6. PICK chosen : chosen = CHOOSE l \in lists : TRUE
    OBVIOUS
  <2>7. lists # {} => chosen \in lists
    BY <2>6
  <2>8. count = IF lists = {} THEN Null ELSE Number(Len(chosen.slice))
    BY <2>4, <2>5, <2>7
  <2> QED
    BY <2>3, <2>6, <2>8
<1> QED
  BY <1>1, ResponseKept, PTL

-----------------------------------------------------------------------------
(* Projection.                                                             *)

(* The fields of a transform that is parsed are of these kinds.            *)
LEMMA PointerIsSeq ==
    ASSUME NEW v \in Value, IsPointer(v)
    PROVE  v.pointer \in Seq(Range(v.pointer))
BY ValueAssumption DEF Composed

LEMMA SeqWithin ==
    ASSUME NEW S, NEW T, S \subseteq T, NEW q \in Seq(S)
    PROVE  q \in Seq(T)
<1>1. PICK n \in Nat : n = Len(q)
  OBVIOUS
<1>2. q \in [1 .. n -> S]
  BY <1>1
<1>3. q \in [1 .. n -> T]
  BY <1>2
<1> QED
  BY <1>3

(* The transform t at what path leads to in x is t rebased at x.           *)
Relative(t, x, path) == Eval(t, At(x, path)) = Eval(Rebased(t, path), x)

(* One that has a pointer looks at the same place,                         *)
Points(t) ==
    /\ t.op \in {"pointer", "$map", "$entries", "$get", "$count"}
    /\ {"op", "ptr"} \subseteq DOMAIN t
    /\ t.op \in {"$map", "$entries"} => "to" \in DOMAIN t
    /\ t.op = "$get" => "default" \in DOMAIN t

LEMMA PointerRelative ==
    ASSUME NEW t, Points(t), NEW M, NEW path \in Seq(M), t.ptr \in Seq(M), NEW x
    PROVE  Relative(t, x, path)
<1>1. /\ t.op \in {"pointer", "$map", "$entries", "$get", "$count"}
      /\ {"op", "ptr"} \subseteq DOMAIN t
      /\ t.op \in {"$map", "$entries"} => "to" \in DOMAIN t
      /\ t.op = "$get" => "default" \in DOMAIN t
  BY DEF Points
<1>2. PICK u : u = [t EXCEPT !.ptr = path \o @]
  OBVIOUS
<1>3. Rebased(t, path) = u
  BY <1>1, <1>2 DEF Rebased
<1>4. u.op = t.op /\ u.ptr = path \o t.ptr
  BY <1>1, <1>2
<1>5. t.op \in {"$map", "$entries"} => u.to = t.to
  BY <1>1, <1>2
<1>6. t.op = "$get" => u.default = t.default
  BY <1>1, <1>2
<1>7. PICK y, z : y = At(x, path) /\ z = At(y, t.ptr)
  OBVIOUS
<1>8. z = At(x, u.ptr)
  BY <1>4, <1>7, AtAfter
<1>9. Eval(t, y) = Eval(u, x)
  <2>1. CASE t.op = "pointer"
    BY <1>4, <1>7, <1>8, <2>1 DEF Eval
  <2>2. CASE t.op = "$map"
    BY <1>4, <1>5, <1>7, <1>8, <2>2 DEF Eval, EvalElements
  <2>3. CASE t.op = "$entries"
    BY <1>4, <1>5, <1>7, <1>8, <2>3 DEF Eval, EvalEntries
  <2>4. CASE t.op = "$get"
    BY <1>4, <1>6, <1>7, <1>8, <2>4 DEF Eval
  <2>5. CASE t.op = "$count"
    BY <1>4, <1>7, <1>8, <2>5 DEF Eval
  <2> QED
    BY <1>1, <2>1, <2>2, <2>3, <2>4, <2>5
<1> QED
  BY <1>3, <1>7, <1>9 DEF Relative

(* and one made of others does if they do.                                 *)
LEMMA ListRelative ==
    ASSUME NEW t, NEW c \in {"list", "$merge"}, NEW l, t = [op |-> c, list |-> l],
           NEW x, NEW path,
           \A i \in DOMAIN l : NestedEval(NestedRebased(l[i], path), x)
                                 = NestedEval(l[i], At(x, path))
    PROVE  Relative(t, x, path)
<1>1. PICK m : m = [i \in DOMAIN l |-> NestedRebased(l[i], path)]
  OBVIOUS
<1>2. PICK u : u = [op |-> c, list |-> m]
  OBVIOUS
<1>3. t.op = c /\ t.list = l /\ [t EXCEPT !.list = m] = u
  BY <1>2
<1>4. Rebased(t, path) = [t EXCEPT !.list = m]
  BY <1>1, <1>3 DEF Rebased
<1>5. u.op = c /\ u.list = m
  BY <1>2
<1>6. PICK y : y = At(x, path)
  OBVIOUS
<1>7. [i \in DOMAIN m |-> NestedEval(m[i], x)] = [i \in DOMAIN l |-> NestedEval(l[i], y)]
  BY <1>1, <1>6
<1>8. PICK r : r = [i \in DOMAIN l |-> NestedEval(l[i], y)]
  OBVIOUS
<1>9. CASE c = "list"
  <2>1. Eval(t, y) = [slice |-> r]
    BY <1>3, <1>8, <1>9 DEF Eval
  <2>2. Eval(u, x) = [slice |-> [i \in DOMAIN m |-> NestedEval(m[i], x)]]
    BY <1>5, <1>9 DEF Eval
  <2> QED
    BY <1>3, <1>4, <1>6, <1>7, <1>8, <2>1, <2>2 DEF Relative
<1>10. CASE c = "$merge"
  <2>1. Eval(t, y) = FoldLeft(MergeOver, [map |-> EmptyMembers], r)
    BY <1>3, <1>8, <1>10, Zenon DEF Eval
  <2>2. Eval(u, x) = FoldLeft(MergeOver, [map |-> EmptyMembers],
                              [i \in DOMAIN m |-> NestedEval(m[i], x)])
    BY <1>5, <1>10, Zenon DEF Eval
  <2> QED
    BY <1>3, <1>4, <1>6, <1>7, <1>8, <2>1, <2>2, Zenon DEF Relative
<1> QED
  BY <1>9, <1>10

LEMMA MappingRelative ==
    ASSUME NEW t, NEW to, t = [op |-> "mapping", to |-> to], NEW x, NEW path,
           \A k \in DOMAIN to : NestedEval(NestedRebased(to[k], path), x)
                                  = NestedEval(to[k], At(x, path))
    PROVE  Relative(t, x, path)
<1>1. PICK m : m = [k \in DOMAIN to |-> NestedRebased(to[k], path)]
  OBVIOUS
<1>2. PICK u : u = [op |-> "mapping", to |-> m]
  OBVIOUS
<1>3. t.op = "mapping" /\ t.to = to /\ [t EXCEPT !.to = m] = u
  BY <1>2
<1>4. Rebased(t, path) = [t EXCEPT !.to = m]
  BY <1>1, <1>3 DEF Rebased
<1>5. u.op = "mapping" /\ u.to = m
  BY <1>2
<1>6. PICK y : y = At(x, path)
  OBVIOUS
<1>7. [k \in DOMAIN m |-> NestedEval(m[k], x)] = [k \in DOMAIN to |-> NestedEval(to[k], y)]
  BY <1>1, <1>6
<1>8. Eval(t, y) = [map |-> [k \in DOMAIN to |-> NestedEval(to[k], y)]]
  BY <1>3 DEF Eval
<1>9. Eval(u, x) = [map |-> [k \in DOMAIN m |-> NestedEval(m[k], x)]]
  BY <1>5 DEF Eval
<1> QED
  BY <1>3, <1>4, <1>6, <1>7, <1>8, <1>9 DEF Relative

(* A transform that is parsed below a $map is relative to its element.     *)
LEMMA ParsedRelative ==
    ASSUME NEW x \in Input \cup {Absent}, NEW p \in Projections, NEW k \in DOMAIN Index,
           NEW path, path = Append(p.ptr, k), NEW M, path \in Seq(M),
           At(x, path) \in Input \cup {Absent}
    PROVE  \A t \in Parsed : Relative(t, x, path)
<1> DEFINE S == {v \in Value : Parse(v, Nested) # Error => Relative(Parse(v, Nested), x, path)}
<1>1. PICK y : y = At(x, path)
  OBVIOUS
<1>2. ASSUME NEW w \in S, Parse(w, Nested) # Error
      PROVE  NestedEval(NestedRebased(Parse(w, Nested), path), x)
               = NestedEval(Parse(w, Nested), y)
  <2>1. PICK t : t = Parse(w, Nested)
    OBVIOUS
  <2>2. t \in Parsed /\ Relative(t, x, path)
    BY <1>2, <2>1 DEF Parsed
  <2>3. NestedEval(t, y) = Eval(t, y)
    BY <1>1, <2>2, EvalAssumption
  <2>4. /\ NestedRebased(t, path) = Rebased(t, path)
        /\ NestedEval(Rebased(t, path), x) = Eval(Rebased(t, path), x)
    BY <2>2, EvalAssumption
  <2> QED
    BY <1>1, <2>1, <2>2, <2>3, <2>4 DEF Relative
<1>3. ASSUME NEW w \in Value, IsArray(w), Error \notin Range(ParseAll(w.items)),
             NEW c \in {"list", "$merge"}, NEW t, t = [op |-> c, list |-> ParseAll(w.items)],
             Contents(w) \subseteq S
      PROVE  Relative(t, x, path)
  <2>1. PICK l : l = ParseAll(w.items)
    OBVIOUS
  <2>2. ASSUME NEW i \in DOMAIN l
        PROVE  NestedEval(NestedRebased(l[i], path), x) = NestedEval(l[i], At(x, path))
    <3>1. i \in DOMAIN w.items /\ l[i] = NestedParse(w.items[i], Nested)
      BY <2>1 DEF ParseAll
    <3>2. w.items[i] \in Value /\ w.items[i] \in Contents(w)
      BY <1>3, <3>1, ItemsAreValues, KindsDiffer DEF Contents, Range
    <3>3. l[i] = Parse(w.items[i], Nested)
      BY <3>1, <3>2, ParseAssumption
    <3>4. l[i] # Error
      BY <1>3, <2>1 DEF Range
    <3>5. w.items[i] \in S
      BY <1>3, <3>2
    <3> HIDE DEF S
    <3> QED
      BY <1>1, <1>2, <3>3, <3>4, <3>5
  <2> QED
    BY <1>3, <2>1, <2>2, ListRelative
<1>4. ASSUME NEW q \in Value, IsPointer(q), NEW t, Points(t), t.ptr = q.pointer
      PROVE  Relative(t, x, path)
  <2>1. PICK L, N : L = Range(q.pointer) /\ N = M \cup L
    OBVIOUS
  <2>2. t.ptr \in Seq(L) /\ L \subseteq N /\ M \subseteq N
    BY <1>4, <2>1, PointerIsSeq
  <2>3. t.ptr \in Seq(N)
    BY <2>2, SeqWithin
  <2>4. path \in Seq(N)
    BY <2>2, SeqWithin
  <2> QED
    BY <1>4, <2>3, <2>4, PointerRelative
<1>5. ASSUME NEW v \in Value, Components(v) \subseteq S PROVE v \in S
  <2>1. Contents(v) \subseteq S /\ \A w \in Contents(v) : Contents(w) \subseteq S
    BY <1>5 DEF Components
  <2> SUFFICES ASSUME NEW t, t = Parse(v, Nested), t # Error PROVE Relative(t, x, path)
    OBVIOUS
  <2>2. ParsedFrom(t, v, Nested)
    BY ParseForms
  <2> HIDE DEF S
  <2>3. CASE IsPointer(v) /\ t = [op |-> "pointer", ptr |-> v.pointer]
    BY <1>4, <2>3 DEF Points
  <2>4. CASE /\ IsArray(v) /\ t = [op |-> "list", list |-> ParseAll(v.items)]
             /\ Error \notin Range(ParseAll(v.items))
    BY <1>3, <2>1, <2>4
  <2>5. CASE IsObject(v) /\ t = ParseMapping(v)
    <3>1. PICK to : to = [n \in Names(v) |-> NestedParse(v.members[n], Nested)]
      OBVIOUS
    <3>2. t = [op |-> "mapping", to |-> to] /\ Error \notin Range(to)
      BY <2>5, <3>1 DEF ParseMapping
    <3>3. ASSUME NEW n \in DOMAIN to
          PROVE  NestedEval(NestedRebased(to[n], path), x) = NestedEval(to[n], At(x, path))
      <4>1. n \in Names(v) /\ to[n] = NestedParse(v.members[n], Nested)
        BY <3>1
      <4>2. v.members[n] \in Value /\ v.members[n] \in Contents(v)
        BY <2>5, <4>1, MembersAreValues DEF Contents, Range, Names
      <4>3. to[n] = Parse(v.members[n], Nested)
        BY <4>1, <4>2, ParseAssumption
      <4>4. to[n] # Error
        BY <3>2 DEF Range
      <4> QED
        BY <1>1, <1>2, <2>1, <4>2, <4>3, <4>4
    <3> QED
      BY <3>2, <3>3, MappingRelative
  <2>6. ASSUME NEW c \in ConstructNames, IsObject(v), c \in Names(v),
               t = ParseConstruct(c, v, Nested)
        PROVE  Relative(t, x, path)
    <3>1. PICK m : m = v.members[c]
      OBVIOUS
    <3>2. m \in Value /\ m \in Contents(v)
      BY <2>6, <3>1, MembersAreValues DEF Contents, Range, Names
    <3>3. WellFormed(c, v, Nested)
      BY <2>6, ConstructParsed
    <3>4. CASE c = "$merge"
      <4>1. /\ IsArray(m) /\ t = [op |-> c, list |-> ParseAll(m.items)]
            /\ Error \notin Range(ParseAll(m.items))
        BY <2>6, <3>1, <3>4, ConstructParsed
      <4> QED
        BY <1>3, <2>1, <3>2, <3>4, <4>1
    <3>5. CASE c \in {"$map", "$entries"}
      <4>1. PICK to : IsPointer(m) /\ t = [op |-> c, ptr |-> m.pointer, to |-> to]
        BY <2>6, <3>1, <3>5, ConstructParsed
      <4> QED
        BY <1>4, <3>2, <3>5, <4>1 DEF Points
    <3>6. CASE c = "$get"
      <4>1. IsPointer(m) /\ t = [op |-> c, ptr |-> m.pointer,
                                default |-> Plain(v.members["$default"])]
        BY <2>6, <3>1, <3>6, ConstructParsed
      <4> QED
        BY <1>4, <3>2, <3>6, <4>1 DEF Points
    <3>7. CASE c = "$count"
      <4>1. IsPointer(m) /\ t = [op |-> c, ptr |-> m.pointer]
        BY <2>6, <3>1, <3>7, ConstructParsed
      <4> QED
        BY <1>4, <3>2, <3>7, <4>1 DEF Points
    <3>8. CASE c = "$mapper"
      BY <3>3, <3>8 DEF WellFormed, Nested
    <3> QED
      BY <3>4, <3>5, <3>6, <3>7, <3>8 DEF ConstructNames
  <2> QED
    BY <2>2, <2>3, <2>4, <2>5, <2>6 DEF ParsedFrom
<1>6. Value \subseteq S
  <2> HIDE DEF S
  <2> QED
    BY <1>5, ValueInduction
<1> QED
  BY <1>6 DEF Parsed

(* A $map that is parsed has a pointer, and a transform below it.          *)
LEMMA ProjectionIs ==
    ASSUME NEW t \in Projections
    PROVE  t.to \in Parsed /\ t.ptr \in Seq(Range(t.ptr))
<1>1. PICK v \in Value : t = Parse(v, Nested) /\ t # Error
  BY DEF Projections, Parsed
<1>2. t.op = "$map"
  BY DEF Projections
<1>3. ParsedFrom(t, v, Nested)
  BY <1>1, ParseForms
<1>4. PICK c \in ConstructNames : IsObject(v) /\ c \in Names(v) /\ t = ParseConstruct(c, v, Nested)
  BY <1>1, <1>2, <1>3, MappingParsed DEF ParsedFrom
<1>5. c = "$map" /\ WellFormed(c, v, Nested)
  BY <1>1, <1>2, <1>4, ConstructParsed
<1>6. "$to" \in Names(v)
  BY <1>5 DEF WellFormed, Required
<1>7. PICK to : /\ IsPointer(v.members[c])
                /\ t = [op |-> c, ptr |-> v.members[c].pointer, to |-> to]
                /\ to = Parse(v.members["$to"], Nested) /\ to # Error
  BY <1>1, <1>4, <1>5, <1>6, ConstructParsed
<1>8. v.members[c] \in Value /\ v.members["$to"] \in Value
  BY <1>4, <1>6, MembersAreValues
<1>9. to \in Parsed
  BY <1>7, <1>8 DEF Parsed
<1>10. v.members[c].pointer \in Seq(Range(v.members[c].pointer))
  BY <1>7, <1>8, PointerIsSeq
<1> QED
  BY <1>7, <1>9, <1>10

(* The transform below a $map sees its element and nothing else.           *)
THEOREM ElementsOnly == Spec => []ProjectionIsRelative
<1>1. WireInv => ProjectionIsRelative
  <2> SUFFICES ASSUME WireInv, stage = "viewed",
                      NEW t \in Transforms, t.op = "$map", IsArray(At(got.input, t.ptr)),
                      NEW result, result = Eval(t, got.input).slice
               PROVE  /\ Len(result) = Len(At(got.input, t.ptr).items)
                      /\ \A k \in DOMAIN Index : Index[k] < Len(result) =>
                           result[Index[k] + 1]
                             = Eval(Rebased(t.to, Append(t.ptr, k)), got.input)
    BY DEF ProjectionIsRelative
  <2>1. t \in Projections
    BY TransformsParsed DEF Projections
  <2>2. PICK x, y, items : x = got.input /\ y = At(x, t.ptr) /\ items = y.items
    OBVIOUS
  <2>3. x \in Input \cup {Absent}
    BY <2>2, InputIs
  <2>4. t.to \in Parsed /\ t.ptr \in Seq(Range(t.ptr))
    BY <2>1, ProjectionIs
  <2>5. y \in Input
    <3>1. y \in Input \cup {Absent}
      BY <2>2, <2>3, <2>4, AtWithin
    <3> QED
      BY <2>2, <3>1 DEF IsArray, Absent
  <2>6. items \in Seq(Input) /\ Len(items) <= MaxInt
    BY <2>2, <2>5, InputAssumption DEF Composed
  <2>7. Eval(t, x) = EvalElements(t, items, x) /\ Len(result) = Len(items)
    BY <2>2, <2>5, MapIs
  <2>8. ASSUME NEW k \in DOMAIN Index, Index[k] < Len(result)
        PROVE  result[Index[k] + 1] = Eval(Rebased(t.to, Append(t.ptr, k)), x)
    <3>1. PICK path, i : path = Append(t.ptr, k) /\ i = Index[k] + 1
      OBVIOUS
    <3>2. Index[k] \in Nat /\ MaxInt \in Nat
      BY WireAssumption
    <3>3. i \in 1 .. Len(items) /\ i \in DOMAIN items /\ items[i] \in Input
      BY <2>6, <2>7, <2>8, <3>1, <3>2
    <3>4. Scanned(k) = Index[k]
      BY <2>6, <2>7, <2>8, <3>2 DEF Scanned
    <3>5. PICK L, M : L = Range(t.ptr) /\ M = L \cup {k}
      OBVIOUS
    <3>6. t.ptr \in Seq(L) /\ L \subseteq M /\ k \in M
      BY <2>4, <3>5
    <3>7. t.ptr \in Seq(M)
      BY <3>6, SeqWithin
    <3>8. path \in Seq(M)
      BY <3>1, <3>6, <3>7
    <3>9. At(x, path) = Step(y, k)
      BY <2>2, <3>1, <3>6, <3>7, AtNext
    <3>10. Step(y, k) = items[i]
      BY <2>2, <2>7, <2>8, <3>1, <3>4, KindsDiffer DEF Step
    <3>11. At(x, path) = items[i] /\ At(x, path) \in Input \cup {Absent}
      BY <3>3, <3>9, <3>10
    <3>12. Relative(t.to, x, path)
      BY <2>1, <2>3, <2>4, <3>1, <3>8, <3>11, ParsedRelative
    <3>13. result[i] = NestedEval(t.to, items[i])
      BY <2>2, <2>7, <3>3 DEF EvalElements
    <3>14. NestedEval(t.to, items[i]) = Eval(t.to, items[i])
      BY <2>4, <3>3, EvalAssumption
    <3> QED
      BY <3>1, <3>11, <3>12, <3>13, <3>14 DEF Relative
  <2> QED
    BY <2>2, <2>7, <2>8
<1> QED
  BY <1>1, ResponseKept, PTL

-----------------------------------------------------------------------------
(* Writing.                                                                *)

(* What a map is written as.                                               *)
LEMMA SortedIs ==
    ASSUME NEW members, NEW w, w = Sorted(members)
    PROVE  /\ IsObject(w) /\ ~IsArray(w) /\ ~IsPointer(w) /\ DOMAIN w = {"keys", "members"}
           /\ w.members = members /\ Names(w) = DOMAIN members
<1>1. PICK keys : keys = SetToSeq(DOMAIN members)
  OBVIOUS
<1>2. w = [keys |-> keys, members |-> members]
  BY <1>1 DEF Sorted, Object
<1>3. IsObject(w) /\ w.members = members /\ DOMAIN w = {"keys", "members"}
  BY <1>2 DEF IsObject
<1> QED
  BY <1>3, KindsDiffer DEF Names

LEMMA ArrayIs ==
    ASSUME NEW items, NEW w, w = Array(items)
    PROVE  IsArray(w) /\ ~IsPointer(w) /\ w.items = items
<1>1. w = [items |-> items]
  BY DEF Array
<1>2. IsArray(w) /\ w.items = items
  BY <1>1 DEF IsArray
<1> QED
  BY <1>2, KindsDiffer

(* Members that are left out, and those that are not.                      *)
LEMMA OmitIs ==
    ASSUME NEW f, NEW h, h = OmitEmpty(f)
    PROVE  /\ DOMAIN h = {n \in DOMAIN f : f[n] # Absent}
           /\ \A k \in DOMAIN h : h[k] = f[k]
BY DEF OmitEmpty

(* Plain values are written back as they are.                              *)
LEMMA PlainWritten == \A v \in Value : Plain(Marshal(Plain(v))) = Plain(v)
<1> DEFINE S == {v \in Value : Plain(Marshal(Plain(v))) = Plain(v)}
<1>1. ASSUME NEW w \in S PROVE NestedPlain(NestedMarshal(NestedPlain(w))) = NestedPlain(w)
  <2>1. NestedPlain(w) = Plain(w) /\ NestedMarshal(Plain(w)) = Marshal(Plain(w))
    BY ParseAssumption, WriteAssumption
  <2>2. NestedPlain(Marshal(Plain(w))) = Plain(Marshal(Plain(w)))
    BY ParseAssumption, WriteAssumption
  <2> QED
    BY <2>1, <2>2
<1>2. ASSUME NEW v \in Value, Components(v) \subseteq S PROVE v \in S
  <2>1. Contents(v) \subseteq S
    BY <1>2 DEF Components
  <2>2. v # Absent
    BY ValueAssumption DEF Composed, Absent, IsObject, IsArray, Scalars
  <2> SUFFICES Plain(Marshal(Plain(v))) = Plain(v)
    OBVIOUS
  <2> HIDE DEF S
  <2>3. CASE IsObject(v)
    <3>1. PICK f : f = [k \in Names(v) |-> NestedPlain(v.members[k])]
      OBVIOUS
    <3>2. PICK p : p = [map |-> f]
      OBVIOUS
    <3>3. Plain(v) = p
      BY <2>2, <2>3, <3>1, <3>2, KindsDiffer DEF Plain
    <3>4. DOMAIN p = {"map"} /\ p.map = f
      BY <3>2
    <3>5. PICK g : g = [k \in DOMAIN f |-> NestedMarshal(f[k])]
      OBVIOUS
    <3>6. PICK w : w = Sorted(g)
      OBVIOUS
    <3>7. Marshal(p) = w
      BY <3>4, <3>5, <3>6 DEF Marshal
    <3>8. IsObject(w) /\ ~IsArray(w) /\ w.members = g /\ Names(w) = DOMAIN g
      BY <3>6, SortedIs
    <3>9. w # Absent
      BY <3>8 DEF IsObject, Absent
    <3>10. Plain(w) = [map |-> [k \in Names(w) |-> NestedPlain(w.members[k])]]
      BY <3>8, <3>9 DEF Plain
    <3>11. \A k \in Names(v) : v.members[k] \in S
      BY <2>1, <2>3 DEF Contents, Range, Names
    <3>12. \A k \in Names(v) : NestedPlain(g[k]) = f[k]
      BY <1>1, <3>1, <3>5, <3>11
    <3>13. [k \in Names(w) |-> NestedPlain(w.members[k])] = f
      BY <3>1, <3>5, <3>8, <3>12
    <3> QED
      BY <3>2, <3>3, <3>7, <3>10, <3>13
  <2>4. CASE IsArray(v)
    <3>1. PICK f : f = [i \in DOMAIN v.items |-> NestedPlain(v.items[i])]
      OBVIOUS
    <3>2. PICK p : p = [slice |-> f]
      OBVIOUS
    <3>3. Plain(v) = p
      BY <2>2, <2>4, <3>1, <3>2, KindsDiffer DEF Plain
    <3>4. DOMAIN p = {"slice"} /\ DOMAIN p # {"map"} /\ p.slice = f
      BY <3>2
    <3>5. PICK g : g = [i \in DOMAIN f |-> NestedMarshal(f[i])]
      OBVIOUS
    <3>6. PICK w : w = Array(g)
      OBVIOUS
    <3>7. Marshal(p) = w
      BY <3>4, <3>5, <3>6 DEF Marshal
    <3>8. IsArray(w) /\ w.items = g
      BY <3>6, ArrayIs
    <3>9. w # Absent /\ ~IsObject(w)
      BY <3>8 DEF IsArray, IsObject, Absent
    <3>10. Plain(w) = [slice |-> [i \in DOMAIN w.items |-> NestedPlain(w.items[i])]]
      BY <3>8, <3>9 DEF Plain
    <3>11. \A i \in DOMAIN v.items : v.items[i] \in S
      BY <2>1, <2>4, KindsDiffer DEF Contents, Range
    <3>12. \A i \in DOMAIN v.items : NestedPlain(g[i]) = f[i]
      BY <1>1, <3>1, <3>5, <3>11
    <3>13. [i \in DOMAIN w.items |-> NestedPlain(w.items[i])] = f
      BY <3>1, <3>5, <3>8, <3>12
    <3> QED
      BY <3>2, <3>3, <3>7, <3>10, <3>13
  <2>5. CASE ~IsObject(v) /\ ~IsArray(v)
    <3>1. Plain(v) = v
      BY <2>2, <2>5 DEF Plain
    <3>2. DOMAIN v \in Scalars
      BY <2>5, ValueAssumption DEF Composed
    <3>3. DOMAIN v # {"map"} /\ DOMAIN v # {"slice"}
      BY <3>2 DEF Scalars
    <3>4. Marshal(v) = v
      BY <3>3 DEF Marshal
    <3> QED
      BY <3>1, <3>4
  <2> QED
    BY <2>3, <2>4, <2>5
<1>3. Value \subseteq S
  <2> HIDE DEF S
  <2> QED
    BY <1>2, ValueInduction
<1> QED
  BY <1>3

(* A transform that is parsed and written is parsed again as it was.       *)
Rewritten(t, topLevel) == Parse(ToJSON(t), topLevel) = t

LEMMA OperandRewritten ==
    ASSUME NEW w \in Value, NEW u, u = NestedParse(w, Nested),
           u # Error, Rewritten(Parse(w, Nested), Nested)
    PROVE  NestedParse(NestedToJSON(u), Nested) = u
<1>1. u = Parse(w, Nested)
  BY ParseAssumption
<1>2. NestedToJSON(u) = ToJSON(u) /\ ToJSON(u) \in Value
  BY <1>1, WriteAssumption
<1>3. NestedParse(ToJSON(u), Nested) = Parse(ToJSON(u), Nested)
  BY <1>2, ParseAssumption
<1> QED
  BY <1>1, <1>2, <1>3 DEF Rewritten

(* Their lists,                                                            *)
LEMMA ItemsRewritten ==
    ASSUME NEW w \in Value, IsArray(w), NEW l, l = ParseAll(w.items), Error \notin Range(l),
           \A v \in Contents(w) : Parse(v, Nested) # Error => Rewritten(Parse(v, Nested), Nested),
           NEW items, items = [i \in DOMAIN l |-> NestedToJSON(l[i])]
    PROVE  ParseAll(items) = l
<1>1. ASSUME NEW i \in DOMAIN l PROVE NestedParse(items[i], Nested) = l[i]
  <2>1. i \in DOMAIN w.items /\ l[i] = NestedParse(w.items[i], Nested)
    BY DEF ParseAll
  <2>2. w.items[i] \in Value /\ w.items[i] \in Contents(w)
    BY <2>1, ItemsAreValues, KindsDiffer DEF Contents, Range
  <2>3. l[i] = Parse(w.items[i], Nested)
    BY <2>1, <2>2, ParseAssumption
  <2>4. l[i] # Error
    BY DEF Range
  <2>5. NestedParse(NestedToJSON(l[i]), Nested) = l[i]
    BY <2>1, <2>2, <2>3, <2>4, OperandRewritten
  <2> QED
    BY <2>5
<1>2. l = [i \in DOMAIN l |-> l[i]]
  BY DEF ParseAll
<1>3. ParseAll(items) = [i \in DOMAIN l |-> NestedParse(items[i], Nested)]
  BY DEF ParseAll
<1> QED
  BY <1>1, <1>2, <1>3

(* their mappings,                                                         *)
LEMMA MappingRewritten ==
    ASSUME NEW v \in Value, IsObject(v), Present(v) = {}, NEW t, t = ParseMapping(v), t # Error,
           \A w \in Contents(v) : Parse(w, Nested) # Error => Rewritten(Parse(w, Nested), Nested),
           NEW topLevel
    PROVE  Rewritten(t, topLevel)
<1>1. PICK to : to = [k \in Names(v) |-> NestedParse(v.members[k], Nested)]
  OBVIOUS
<1>2. t = [op |-> "mapping", to |-> to] /\ Error \notin Range(to) /\ Names(v) \cap Reserved = {}
  BY <1>1 DEF ParseMapping
<1>3. t.op = "mapping" /\ t.to = to
  BY <1>2
<1>4. PICK m : m = [k \in DOMAIN to |-> NestedToJSON(to[k])]
  OBVIOUS
<1>5. PICK w : w = Sorted(m)
  OBVIOUS
<1>6. ToJSON(t) = w
  BY <1>3, <1>4, <1>5 DEF ToJSON
<1>7. IsObject(w) /\ ~IsArray(w) /\ ~IsPointer(w) /\ w.members = m /\ Names(w) = Names(v)
  BY <1>1, <1>4, <1>5, SortedIs
<1>8. Present(w) = {}
  BY <1>7 DEF Present
<1>9. ASSUME NEW k \in Names(v) PROVE NestedParse(m[k], Nested) = to[k]
  <2>1. v.members[k] \in Value /\ v.members[k] \in Contents(v)
    BY MembersAreValues DEF Contents, Range, Names
  <2>2. to[k] = NestedParse(v.members[k], Nested) /\ to[k] # Error
    BY <1>1, <1>2 DEF Range
  <2>3. to[k] = Parse(v.members[k], Nested)
    BY <2>1, <2>2, ParseAssumption
  <2>4. NestedParse(NestedToJSON(to[k]), Nested) = to[k]
    BY <2>1, <2>2, <2>3, OperandRewritten
  <2> QED
    BY <1>1, <1>4, <2>4
<1>10. [k \in Names(w) |-> NestedParse(w.members[k], Nested)] = to
  BY <1>1, <1>7, <1>9
<1>11. ParseMapping(w) = t
  BY <1>2, <1>7, <1>10 DEF ParseMapping
<1>12. Parse(w, topLevel) = ParseMapping(w)
  BY <1>7, <1>8 DEF Parse
<1> QED
  BY <1>6, <1>11, <1>12 DEF Rewritten

(* An object with one construct name is that construct.                    *)
LEMMA ConstructFound ==
    ASSUME NEW w, IsObject(w), NEW c \in ConstructNames, Names(w) \cap ConstructNames = {c},
           NEW topLevel
    PROVE  Parse(w, topLevel) = ParseConstruct(c, w, topLevel)
<1>1. PICK i \in DOMAIN Constructs : Constructs[i] = c
  <2>1. DOMAIN Constructs = 1 .. 6
    BY DEF Constructs
  <2>2. /\ Constructs[1] = "$mapper" /\ Constructs[2] = "$map" /\ Constructs[3] = "$entries"
        /\ Constructs[4] = "$get" /\ Constructs[5] = "$count" /\ Constructs[6] = "$merge"
    BY DEF Constructs
  <2> QED
    BY <2>1, <2>2 DEF ConstructNames
<1>2. Present(w) # {}
  BY <1>1 DEF Present
<1>3. Constructs[Min(Present(w))] = c
  BY <1>2, FirstConstruct
<1> QED
  BY <1>2, <1>3, KindsDiffer DEF Parse

(* What a construct that is well formed, with operands that are, is.       *)
Constructed(c, w, topLevel, items, to) ==
    /\ c = "$mapper" => ParseConstruct(c, w, topLevel) = [op |-> c, uri |-> w.members[c]]
    /\ c \in {"$map", "$entries"} =>
         ParseConstruct(c, w, topLevel) = [op |-> c, ptr |-> w.members[c].pointer, to |-> to]
    /\ c = "$get" =>
         ParseConstruct(c, w, topLevel)
           = [op |-> c, ptr |-> w.members[c].pointer,
              default |-> Plain(w.members["$default"])]
    /\ c = "$count" =>
         ParseConstruct(c, w, topLevel) = [op |-> c, ptr |-> w.members[c].pointer]
    /\ c = "$merge" => ParseConstruct(c, w, topLevel) = [op |-> c, list |-> items]

LEMMA ConstructIs ==
    ASSUME NEW w, NEW c \in ConstructNames, NEW topLevel, WellFormed(c, w, topLevel),
           NEW items, c = "$merge" => items = ParseAll(w.members[c].items) /\ Error \notin Range(items),
           NEW to, to = IF "$to" \in Names(w) THEN NestedParse(w.members["$to"], Nested)
                        ELSE Absent,
           to # Error
    PROVE  Constructed(c, w, topLevel, items, to)
<1>1. PICK all : all = IF c = "$merge" THEN ParseAll(w.members[c].items) ELSE << >>
  OBVIOUS
<1>2. Error \notin Range(all)
  <2>1. CASE c = "$merge"
    BY <1>1, <2>1
  <2>2. CASE c # "$merge"
    BY <1>1, <2>2 DEF Range
  <2> QED
    BY <2>1, <2>2
<1>3. ParseConstruct(c, w, topLevel) =
        CASE c = "$mapper" -> [op |-> c, uri |-> w.members[c]]
          [] c \in {"$map", "$entries"} -> [op |-> c, ptr |-> w.members[c].pointer, to |-> to]
          [] c = "$get" -> [op |-> c, ptr |-> w.members[c].pointer,
                            default |-> Plain(w.members["$default"])]
          [] c = "$count" -> [op |-> c, ptr |-> w.members[c].pointer]
          [] c = "$merge" -> [op |-> c, list |-> all]
  BY <1>1, <1>2 DEF ParseConstruct
<1> QED
  BY <1>1, <1>3 DEF ConstructNames, Constructed

(* $merge,                                                                 *)
LEMMA MergeRewritten ==
    ASSUME NEW m \in Value, IsArray(m), m.items # << >>, NEW l, l = ParseAll(m.items),
           Error \notin Range(l), NEW t, t = [op |-> "$merge", list |-> l],
           \A w \in Contents(m) : Parse(w, Nested) # Error => Rewritten(Parse(w, Nested), Nested),
           NEW topLevel
    PROVE  Rewritten(t, topLevel)
<1>1. PICK items, a, f, w : /\ items = [i \in DOMAIN l |-> NestedToJSON(l[i])]
                            /\ a = Array(items) /\ f = [k \in {"$merge"} |-> a] /\ w = Sorted(f)
  OBVIOUS
<1>2. t.op = "$merge" /\ t.list = l
  OBVIOUS
<1>3. ToJSON(t) = w
  BY <1>1, <1>2 DEF ToJSON
<1>4. IsObject(w) /\ Names(w) = {"$merge"} /\ w.members["$merge"] = a
  BY <1>1, SortedIs
<1>5. IsArray(a) /\ a.items = items
  BY <1>1, ArrayIs
<1>6. items # << >>
  <2>1. PICK old : old = m.items
    OBVIOUS
  <2>2. old \in Seq(Value) /\ old # << >>
    BY <2>1, ItemsAreValues
  <2>3. 1 \in DOMAIN old
    BY <2>2
  <2>4. 1 \in DOMAIN items
    BY <1>1, <2>1, <2>3 DEF ParseAll
  <2>5. DOMAIN << >> = {}
    OBVIOUS
  <2> QED
    BY <2>4, <2>5
<1>7. WellFormed("$merge", w, topLevel)
  BY <1>4, <1>5, <1>6 DEF WellFormed, Allowed, Required
<1>8. ParseAll(items) = l
  BY <1>1, ItemsRewritten
<1>9. ParseConstruct("$merge", w, topLevel) = t
  <2>1. "$to" \notin Names(w) /\ Absent # Error /\ "$merge" \in ConstructNames
    BY <1>4 DEF Absent, Error, ConstructNames
  <2>2. PICK none : none = Absent
    OBVIOUS
  <2>3. ParseAll(w.members["$merge"].items) = l
    BY <1>4, <1>5, <1>8
  <2>4. Error \notin Range(l)
    OBVIOUS
  <2>5. Constructed("$merge", w, topLevel, l, none)
    BY <1>7, <2>1, <2>2, <2>3, <2>4, ConstructIs
  <2> QED
    BY <2>5 DEF Constructed
<1>10. Parse(w, topLevel) = ParseConstruct("$merge", w, topLevel)
  BY <1>4, ConstructFound DEF ConstructNames
<1> QED
  BY <1>3, <1>9, <1>10 DEF Rewritten

(* the constructs that have only a pointer or a URI,                       *)
LEMMA SingleRewritten ==
    ASSUME NEW c \in {"$count", "$mapper"}, NEW m, NEW t, NEW topLevel,
           c = "$count" => IsPointer(m) /\ t = [op |-> c, ptr |-> m.pointer],
           c = "$mapper" => /\ topLevel /\ IsString(m) /\ m # Pointer(<< >>)
                            /\ t = [op |-> c, uri |-> m]
    PROVE  Rewritten(t, topLevel)
<1>1. PICK n : n = IF c = "$count" THEN Pointer(m.pointer) ELSE m
  OBVIOUS
<1>2. c = "$count" => IsPointer(n) /\ n.pointer = m.pointer
  BY <1>1 DEF IsPointer, Pointer
<1>3. PICK f, w : f = [k \in {c} |-> n] /\ w = Sorted(f)
  OBVIOUS
<1>4. ToJSON(t) = w
  <2>1. CASE c = "$count"
    <3>1. t.op = c /\ t.ptr = m.pointer
      BY <2>1
    <3> QED
      BY <1>1, <1>3, <2>1, <3>1 DEF ToJSON
  <2>2. CASE c = "$mapper"
    <3>1. t.op = c /\ t.uri = m
      BY <2>2
    <3> QED
      BY <1>1, <1>3, <2>2, <3>1 DEF ToJSON
  <2> QED
    BY <2>1, <2>2
<1>5. IsObject(w) /\ Names(w) = {c} /\ w.members[c] = n
  BY <1>3, SortedIs
<1>6. WellFormed(c, w, topLevel)
  <2>1. CASE c = "$count"
    BY <1>2, <1>5, <2>1 DEF WellFormed, Allowed, Required
  <2>2. CASE c = "$mapper"
    BY <1>1, <1>5, <2>2 DEF WellFormed, Allowed, Required
  <2> QED
    BY <2>1, <2>2
<1>7. "$to" \notin Names(w) /\ Absent # Error /\ c \in ConstructNames
  BY <1>5 DEF Absent, Error, ConstructNames
<1>8. PICK none : none = Absent
  OBVIOUS
<1>9. ParseConstruct(c, w, topLevel) = t
  <2>3. Constructed(c, w, topLevel, << >>, none)
    <3>1. c # "$merge"
      OBVIOUS
    <3> QED
      BY <1>6, <1>7, <1>8, <3>1, ConstructIs
  <2>1. CASE c = "$count"
    <3>1. ParseConstruct(c, w, topLevel) = [op |-> c, ptr |-> w.members[c].pointer]
      BY <2>1, <2>3 DEF Constructed
    <3> QED
      BY <1>2, <1>5, <2>1, <3>1
  <2>2. CASE c = "$mapper"
    <3>1. ParseConstruct(c, w, topLevel) = [op |-> c, uri |-> w.members[c]]
      BY <2>2, <2>3 DEF Constructed
    <3> QED
      BY <1>1, <1>5, <2>2, <3>1
  <2> QED
    BY <2>1, <2>2
<1>10. Parse(w, topLevel) = ParseConstruct(c, w, topLevel)
  BY <1>5, <1>7, ConstructFound
<1> QED
  BY <1>4, <1>9, <1>10 DEF Rewritten

(* those that list, with what each result is,                              *)
LEMMA ListingRewritten ==
    ASSUME NEW c \in {"$map", "$entries"}, NEW ptr, NEW to,
           NEW t, t = [op |-> c, ptr |-> ptr, to |-> to],
           to = Absent => c = "$entries", to # Error,
           to # Absent => /\ NestedToJSON(to) # Absent
                          /\ NestedParse(NestedToJSON(to), Nested) = to,
           NEW topLevel
    PROVE  Rewritten(t, topLevel)
<1>1. PICK p, x : p = Pointer(ptr) /\ x = IF to = Absent THEN Absent ELSE NestedToJSON(to)
  OBVIOUS
<1>2. IsPointer(p) /\ p.pointer = ptr /\ p # Absent
  BY <1>1 DEF IsPointer, Pointer, Absent
<1>3. PICK f : f = [k \in {c, "$to"} |-> IF k = "$to" THEN x ELSE p]
  OBVIOUS
<1>4. PICK g, w : g = OmitEmpty(f) /\ w = Sorted(g)
  OBVIOUS
<1>5. ToJSON(t) = w
  <2>1. t.op = c /\ t.ptr = ptr /\ t.to = to
    OBVIOUS
  <2> QED
    BY <1>1, <1>3, <1>4, <2>1 DEF ToJSON
<1>6. /\ IsObject(w) /\ Names(w) = IF to = Absent THEN {c} ELSE {c, "$to"}
      /\ w.members[c] = p
      /\ to # Absent => w.members["$to"] = NestedToJSON(to)
  <2>1. DOMAIN f = {c, "$to"} /\ f[c] = p /\ f["$to"] = x
    BY <1>3
  <2>2. DOMAIN g = {n \in DOMAIN f : f[n] # Absent} /\ \A k \in DOMAIN g : g[k] = f[k]
    BY <1>4, OmitIs
  <2>3. IsObject(w) /\ w.members = g /\ Names(w) = DOMAIN g
    BY <1>4, SortedIs
  <2>4. DOMAIN g = IF to = Absent THEN {c} ELSE {c, "$to"}
    BY <1>1, <1>2, <2>1, <2>2
  <2> QED
    BY <1>1, <2>1, <2>2, <2>3, <2>4
<1>7. Names(w) \subseteq {c, "$to"} /\ c \in Names(w) /\ (c = "$map" => "$to" \in Names(w))
  <2>1. CASE to = Absent
    BY <1>6, <2>1
  <2>2. CASE to # Absent
    BY <1>6, <2>2
  <2> QED
    BY <2>1, <2>2
<1>8. WellFormed(c, w, topLevel)
  <2>1. Allowed(c) = {c, "$to"} /\ Required(c) = IF c = "$map" THEN {c, "$to"} ELSE {c}
    <3>1. CASE c = "$map"
      BY <3>1 DEF Allowed, Required
    <3>2. CASE c = "$entries"
      BY <3>2 DEF Allowed, Required
    <3> QED
      BY <3>1, <3>2
  <2>2. Names(w) \subseteq Allowed(c) \cup Vendor /\ Required(c) \subseteq Names(w)
    BY <1>7, <2>1
  <2>3. IsPointer(w.members[c])
    BY <1>2, <1>6
  <2> QED
    BY <2>2, <2>3 DEF WellFormed
<1>9. c \in ConstructNames /\ c # "$merge" /\ "$to" \notin ConstructNames
  BY DEF ConstructNames
<1>10. to = IF "$to" \in Names(w) THEN NestedParse(w.members["$to"], Nested) ELSE Absent
  <2>1. CASE to = Absent
    <3>1. "$to" \notin Names(w)
      BY <1>6, <1>9, <2>1
    <3> QED
      BY <2>1, <3>1
  <2>2. CASE to # Absent
    <3>1. "$to" \in Names(w)
      BY <1>6, <2>2
    <3>2. w.members["$to"] = NestedToJSON(to)
      BY <1>6, <2>2
    <3> QED
      BY <2>2, <3>1, <3>2
  <2> QED
    BY <2>1, <2>2
<1>11. PICK none : none = << >>
  OBVIOUS
<1>12. ParseConstruct(c, w, topLevel) = [op |-> c, ptr |-> w.members[c].pointer, to |-> to]
  <2>1. Constructed(c, w, topLevel, none, to)
    BY <1>8, <1>9, <1>10, ConstructIs
  <2> QED
    BY <2>1 DEF Constructed
<1>13. ParseConstruct(c, w, topLevel) = t
  BY <1>2, <1>6, <1>12
<1>14. Names(w) \cap ConstructNames = {c}
  BY <1>7, <1>9
<1>15. Parse(w, topLevel) = ParseConstruct(c, w, topLevel)
  BY <1>6, <1>9, <1>14, ConstructFound
<1> QED
  BY <1>5, <1>13, <1>15 DEF Rewritten

(* and $get.                                                               *)
LEMMA DefaultedRewritten ==
    ASSUME NEW ptr, NEW v \in Value,
           NEW t, t = [op |-> "$get", ptr |-> ptr, default |-> Plain(v)],
           NEW topLevel
    PROVE  Rewritten(t, topLevel)
<1>1. PICK p, x : p = Pointer(ptr) /\ x = Marshal(Plain(v))
  OBVIOUS
<1>2. IsPointer(p) /\ p.pointer = ptr /\ p # Absent
  BY <1>1 DEF IsPointer, Pointer, Absent
<1>3. x \in Value /\ Plain(x) = Plain(v)
  BY <1>1, WriteAssumption, PlainWritten
<1>4. x # Absent
  BY <1>3, ValueAssumption DEF Composed, Absent, IsObject, IsArray, Scalars
<1>5. PICK f : f = [k \in {"$get", "$default"} |-> IF k = "$default" THEN x ELSE p]
  OBVIOUS
<1>6. PICK g, w : g = OmitEmpty(f) /\ w = Sorted(g)
  OBVIOUS
<1>7. ToJSON(t) = w
  <2>1. t.op = "$get" /\ t.ptr = ptr /\ t.default = Plain(v)
    OBVIOUS
  <2> QED
    BY <1>1, <1>5, <1>6, <2>1 DEF ToJSON, DefaultMember
<1>8. /\ IsObject(w) /\ Names(w) = {"$get", "$default"}
      /\ w.members["$get"] = p /\ w.members["$default"] = x
  <2>1. DOMAIN f = {"$get", "$default"} /\ f["$get"] = p /\ f["$default"] = x
    BY <1>5
  <2>2. DOMAIN g = {n \in DOMAIN f : f[n] # Absent} /\ \A k \in DOMAIN g : g[k] = f[k]
    BY <1>6, OmitIs
  <2>3. IsObject(w) /\ w.members = g /\ Names(w) = DOMAIN g
    BY <1>6, SortedIs
  <2>4. DOMAIN g = {"$get", "$default"}
    BY <1>2, <1>4, <2>1, <2>2
  <2> QED
    BY <2>1, <2>2, <2>3, <2>4
<1>9. WellFormed("$get", w, topLevel)
  BY <1>2, <1>8 DEF WellFormed, Allowed, Required
<1>10. "$to" \notin Names(w) /\ Absent # Error /\ "$get" \in ConstructNames
  BY <1>8 DEF Absent, Error, ConstructNames
<1>11. PICK none : none = Absent
  OBVIOUS
<1>12. ParseConstruct("$get", w, topLevel)
         = [op |-> "$get", ptr |-> w.members["$get"].pointer,
            default |-> Plain(w.members["$default"])]
  <2>1. Constructed("$get", w, topLevel, << >>, none)
    BY <1>9, <1>10, <1>11, ConstructIs
  <2> QED
    BY <2>1 DEF Constructed
<1>13. Names(w) \cap ConstructNames = {"$get"}
  BY <1>8 DEF ConstructNames
<1>14. Parse(w, topLevel) = ParseConstruct("$get", w, topLevel)
  BY <1>8, <1>10, <1>13, ConstructFound
<1> QED
  BY <1>2, <1>3, <1>7, <1>8, <1>12, <1>14 DEF Rewritten

(* What is parsed is something.                                            *)
LEMMA ParsedIsNotAbsent ==
    ASSUME NEW v \in Value, NEW topLevel, NEW t, t = Parse(v, topLevel), t # Error
    PROVE  t # Absent /\ "op" \in DOMAIN t
<1>1. ParsedFrom(t, v, topLevel)
  BY ParseForms
<1>2. CASE IsPointer(v) /\ t = [op |-> "pointer", ptr |-> v.pointer]
  BY <1>2 DEF Absent
<1>3. CASE IsArray(v) /\ t = [op |-> "list", list |-> ParseAll(v.items)]
  BY <1>3 DEF Absent
<1>4. CASE IsObject(v) /\ t = ParseMapping(v)
  BY <1>4 DEF Absent, ParseMapping
<1>5. ASSUME NEW c \in ConstructNames, IsObject(v), c \in Names(v),
             t = ParseConstruct(c, v, topLevel)
      PROVE  t # Absent /\ "op" \in DOMAIN t
  <2>1. CASE c = "$merge"
    <3>1. t = [op |-> c, list |-> ParseAll(v.members[c].items)]
      BY <1>5, <2>1, ConstructParsed
    <3> QED
      BY <3>1 DEF Absent
  <2>2. CASE c \in {"$map", "$entries"}
    <3>1. \E to : t = [op |-> c, ptr |-> v.members[c].pointer, to |-> to]
      BY <1>5, <2>2, ConstructParsed
    <3> QED
      BY <3>1 DEF Absent
  <2>3. CASE c = "$get"
    <3>1. t = [op |-> c, ptr |-> v.members[c].pointer, default |-> Plain(v.members["$default"])]
      BY <1>5, <2>3, ConstructParsed
    <3> QED
      BY <3>1 DEF Absent
  <2>4. CASE c = "$count"
    <3>1. t = [op |-> c, ptr |-> v.members[c].pointer]
      BY <1>5, <2>4, ConstructParsed
    <3> QED
      BY <3>1 DEF Absent
  <2>5. CASE c = "$mapper"
    <3>1. t = [op |-> c, uri |-> v.members[c]]
      BY <1>5, <2>5, ConstructParsed
    <3> QED
      BY <3>1 DEF Absent
  <2> QED
    BY <2>1, <2>2, <2>3, <2>4, <2>5 DEF ConstructNames
<1> QED
  BY <1>1, <1>2, <1>3, <1>4, <1>5 DEF ParsedFrom

(* So is any transform whose operands are.                                 *)
LEMMA RewrittenStep ==
    ASSUME NEW v \in Value, NEW topLevel, NEW t, t = Parse(v, topLevel), t # Error,
           \A w \in Components(v) \cap Value :
             Parse(w, Nested) # Error => Rewritten(Parse(w, Nested), Nested)
    PROVE  Rewritten(t, topLevel)
<1>1. /\ \A w \in Contents(v) : Parse(w, Nested) # Error => Rewritten(Parse(w, Nested), Nested)
      /\ \A m \in Contents(v) : m \in Value /\ \A w \in Contents(m) :
           Parse(w, Nested) # Error => Rewritten(Parse(w, Nested), Nested)
  <2>1. Contents(v) \subseteq Value
    BY ValueAssumption DEF Composed
  <2>2. \A m \in Contents(v) : Contents(m) \subseteq Value
    BY <2>1, ValueAssumption DEF Composed
  <2> QED
    BY <2>1, <2>2 DEF Components
<1>2. ParsedFrom(t, v, topLevel)
  BY ParseForms
<1>3. CASE IsPointer(v) /\ t = [op |-> "pointer", ptr |-> v.pointer]
  <2>1. PICK w : w = Pointer(v.pointer)
    OBVIOUS
  <2>2. IsPointer(w) /\ w.pointer = v.pointer
    BY <2>1 DEF IsPointer, Pointer
  <2>3. Parse(w, topLevel) = [op |-> "pointer", ptr |-> w.pointer]
    BY <2>2, KindsDiffer DEF Parse
  <2>4. t.op = "pointer" /\ t.ptr = v.pointer
    BY <1>3
  <2>5. ToJSON(t) = w
    BY <2>1, <2>4 DEF ToJSON
  <2> QED
    BY <1>3, <2>2, <2>3, <2>5 DEF Rewritten
<1>4. CASE /\ IsArray(v) /\ t = [op |-> "list", list |-> ParseAll(v.items)]
           /\ Error \notin Range(ParseAll(v.items))
  <2>1. PICK l : l = ParseAll(v.items)
    OBVIOUS
  <2>2. PICK items, w : items = [i \in DOMAIN l |-> NestedToJSON(l[i])] /\ w = Array(items)
    OBVIOUS
  <2>3. t.op = "list" /\ t.list = l
    BY <1>4, <2>1
  <2>4. ToJSON(t) = w
    BY <2>2, <2>3 DEF ToJSON
  <2>5. ParseAll(items) = l
    BY <1>1, <1>4, <2>1, <2>2, ItemsRewritten
  <2>6. IsArray(w) /\ ~IsPointer(w) /\ w.items = items
    BY <2>2, ArrayIs
  <2>7. Parse(w, topLevel) = [op |-> "list", list |-> l]
    BY <1>4, <2>1, <2>5, <2>6, KindsDiffer DEF Parse
  <2> QED
    BY <1>4, <2>1, <2>4, <2>7 DEF Rewritten
<1>5. CASE IsObject(v) /\ Present(v) = {} /\ t = ParseMapping(v)
  BY <1>1, <1>5, MappingRewritten
<1>6. ASSUME NEW c \in ConstructNames, IsObject(v), c \in Names(v),
             t = ParseConstruct(c, v, topLevel)
      PROVE  Rewritten(t, topLevel)
  <2>1. PICK m : m = v.members[c]
    OBVIOUS
  <2>2. m \in Value /\ m \in Contents(v)
    BY <1>6, <2>1, MembersAreValues DEF Contents, Range, Names
  <2>3. WellFormed(c, v, topLevel)
    BY <1>6, ConstructParsed
  <2>4. CASE c = "$merge"
    <3>1. /\ IsArray(m) /\ t = [op |-> c, list |-> ParseAll(m.items)]
          /\ Error \notin Range(ParseAll(m.items))
      BY <1>6, <2>1, <2>4, ConstructParsed
    <3>2. m.items # << >>
      BY <2>1, <2>3, <2>4 DEF WellFormed
    <3> QED
      BY <1>1, <2>2, <2>4, <3>1, <3>2, MergeRewritten
  <2>5. CASE c \in {"$map", "$entries"}
    <3>1. PICK to : /\ t = [op |-> c, ptr |-> m.pointer, to |-> to]
                    /\ IF "$to" \in Names(v)
                       THEN to = Parse(v.members["$to"], Nested) /\ to # Error
                       ELSE to = Absent
      BY <1>6, <2>1, <2>5, ConstructParsed
    <3>2. c = "$map" => "$to" \in Names(v)
      BY <2>3 DEF WellFormed, Required
    <3>3. CASE "$to" \in Names(v)
      <4>1. PICK w : w = v.members["$to"]
        OBVIOUS
      <4>2. w \in Value /\ w \in Contents(v)
        BY <1>6, <3>3, <4>1, MembersAreValues DEF Contents, Range, Names
      <4>3. to = Parse(w, Nested) /\ to # Error
        BY <3>1, <3>3, <4>1
      <4>4. to = NestedParse(w, Nested) /\ Rewritten(Parse(w, Nested), Nested)
        BY <1>1, <4>2, <4>3, ParseAssumption
      <4>5. NestedParse(NestedToJSON(to), Nested) = to
        BY <4>2, <4>3, <4>4, OperandRewritten
      <4>6. NestedToJSON(to) \in Value
        BY <4>2, <4>3, WriteAssumption
      <4>7. NestedToJSON(to) # Absent
        BY <4>6, ValueAssumption DEF Composed, Absent, IsObject, IsArray, Scalars
      <4>8. to # Absent
        BY <4>2, <4>3, ParsedIsNotAbsent
      <4> QED
        BY <2>5, <3>1, <4>3, <4>5, <4>7, <4>8, ListingRewritten
    <3>4. CASE "$to" \notin Names(v)
      <4>1. to = Absent /\ c = "$entries" /\ to # Error
        BY <2>5, <3>1, <3>2, <3>4 DEF Absent, Error
      <4> QED
        BY <2>5, <3>1, <4>1, ListingRewritten
    <3> QED
      BY <3>3, <3>4
  <2>6. CASE c = "$get"
    <3>1. t = [op |-> c, ptr |-> m.pointer, default |-> Plain(v.members["$default"])]
      BY <1>6, <2>1, <2>6, ConstructParsed
    <3>2. "$default" \in Names(v)
      BY <2>3, <2>6 DEF WellFormed, Required
    <3>3. v.members["$default"] \in Value
      BY <1>6, <3>2, MembersAreValues
    <3> QED
      BY <2>6, <3>1, <3>3, DefaultedRewritten
  <2>7. CASE c = "$count"
    <3>1. IsPointer(m) /\ t = [op |-> c, ptr |-> m.pointer]
      BY <1>6, <2>1, <2>7, ConstructParsed
    <3> QED
      BY <2>7, <3>1, SingleRewritten
  <2>8. CASE c = "$mapper"
    <3>1. t = [op |-> c, uri |-> m]
      BY <1>6, <2>1, <2>8, ConstructParsed
    <3>2. topLevel /\ IsString(m) /\ m # Pointer(<< >>)
      BY <2>1, <2>3, <2>8 DEF WellFormed
    <3> QED
      BY <2>8, <3>1, <3>2, SingleRewritten
  <2> QED
    BY <2>4, <2>5, <2>6, <2>7, <2>8 DEF ConstructNames
<1> QED
  BY <1>2, <1>3, <1>4, <1>5, <1>6 DEF ParsedFrom

LEMMA TransformRewritten ==
    ASSUME NEW v \in Value, NEW topLevel, Parse(v, topLevel) # Error
    PROVE  Rewritten(Parse(v, topLevel), topLevel)
<1> DEFINE S == {w \in Value : Parse(w, Nested) # Error => Rewritten(Parse(w, Nested), Nested)}
<1>1. ASSUME NEW w \in Value, Components(w) \subseteq S PROVE w \in S
  BY <1>1, RewrittenStep
<1>2. Value \subseteq S
  <2> HIDE DEF S
  <2> QED
    BY <1>1, ValueInduction
<1> QED
  BY <1>2, RewrittenStep
LEMMA ValueIsPresent == \A v \in Value : v # Absent
BY ValueAssumption DEF Composed, Absent, IsObject, IsArray, Scalars

(* The members that are written.                                           *)
LEMMA MemberWritten ==
    ASSUME NEW f, NEW w, w = Sorted(OmitEmpty(f))
    PROVE  /\ IsObject(w) /\ ~IsArray(w) /\ Names(w) \subseteq DOMAIN f
           /\ \A k \in DOMAIN f : Member(w, k) = f[k]
           /\ \A k : k \notin DOMAIN f => Member(w, k) = Absent
<1>1. PICK g : g = OmitEmpty(f)
  OBVIOUS
<1>2. DOMAIN g = {n \in DOMAIN f : f[n] # Absent} /\ \A k \in DOMAIN g : g[k] = f[k]
  BY <1>1, OmitIs
<1>3. IsObject(w) /\ ~IsArray(w) /\ w.members = g /\ Names(w) = DOMAIN g
  BY <1>1, SortedIs
<1> QED
  BY <1>2, <1>3 DEF Member, Has

(* A slot descriptor is read again as it was, if the inline one is,        *)
Restored(u) == Read(u) # Error => Read(Write(Read(u))) = Read(u)

LEMMA SlotDescriptorRewritten ==
    ASSUME NEW u \in Value, NEW sd, sd = ReadSlotDescriptor(u), sd # Error, Restored(u),
           NEW w, w = WriteSlotDescriptor(sd)
    PROVE  ~IsArray(w) /\ ReadSlotDescriptor(w) = sd
<1>1. PICK ref : ref = Member(u, "descriptor")
  OBVIOUS
<1>2. CASE ref # Absent
  <2>1. sd = Reference(ref) /\ IsString(ref) /\ ref # Empty
    BY <1>1, <1>2 DEF ReadSlotDescriptor
  <2>2. sd.ref = ref
    BY <2>1 DEF Reference
  <2>3. PICK f : f = [k \in {"descriptor"} |-> ref]
    OBVIOUS
  <2>4. w = Sorted(f)
    BY <1>2, <2>2, <2>3 DEF WriteSlotDescriptor
  <2>5. IsObject(w) /\ ~IsArray(w) /\ w.members = f /\ Names(w) = {"descriptor"}
    BY <2>3, <2>4, SortedIs
  <2>6. Member(w, "descriptor") = ref /\ MembersKnown(w, {"descriptor"})
    BY <2>3, <2>5 DEF Member, Has, MembersKnown
  <2>7. ReadSlotDescriptor(w) = Reference(ref)
    BY <1>2, <2>1, <2>6 DEF ReadSlotDescriptor
  <2> QED
    BY <2>1, <2>5, <2>7
<1>3. CASE ref = Absent
  <2>1. PICK vd : vd = Read(u)
    OBVIOUS
  <2>2. vd # Error /\ sd = Inline(vd)
    BY <1>1, <1>3, <2>1, ParseAssumption DEF ReadSlotDescriptor
  <2>3. sd.ref = Absent /\ sd.desc = vd
    BY <2>2 DEF Inline
  <2>4. NestedWrite(vd) = Write(vd) /\ Write(vd) \in Value
    BY <2>1, <2>2, WriteAssumption
  <2>5. w = Write(vd) /\ w \in Value
    BY <2>3, <2>4 DEF WriteSlotDescriptor
  <2>6. ReadView(w) = vd
    BY <2>1, <2>2, <2>5, ParseAssumption DEF Restored
  <2>7. ~IsArray(w) /\ Member(w, "descriptor") = Absent
    <3>1. PICK slots : slots = [s \in DOMAIN vd.slots |-> WriteSlotValue(vd.slots[s])]
      OBVIOUS
    <3>2. PICK f : f =
            [template |-> IF vd.template = Absent THEN Empty ELSE vd.template,
             type |-> vd.type,
             integrity |-> vd.integrity,
             slots |-> IF slots = NoSlots THEN Absent ELSE Sorted(slots),
             transform |-> IF vd.transform = Absent THEN Absent ELSE ToJSON(vd.transform)]
      OBVIOUS
    <3>3. w = Sorted(OmitEmpty(f))
      BY <2>5, <3>1, <3>2 DEF Write
    <3>4. "descriptor" \notin DOMAIN f
      BY <3>2
    <3> QED
      BY <3>3, <3>4, MemberWritten
  <2>8. ReadSlotDescriptor(w) = Inline(vd)
    BY <2>2, <2>6, <2>7 DEF ReadSlotDescriptor
  <2> QED
    BY <2>2, <2>7, <2>8
<1> QED
  BY <1>2, <1>3

(* a slot, if its descriptors are,                                         *)
LEMMA SlotValueRewritten ==
    ASSUME NEW u \in Value, NEW sv, sv = ReadSlotValue(u), sv # Error,
           \A x \in {u} \cup Contents(u) : Restored(x)
    PROVE  ReadSlotValue(WriteSlotValue(sv)) = sv
<1>1. PICK items : items = IF IsArray(u) THEN u.items ELSE << u >>
  OBVIOUS
<1>2. PICK read : read = [i \in DOMAIN items |-> ReadSlotDescriptor(items[i])]
  OBVIOUS
<1>3. read # << >> /\ Error \notin Range(read) /\ sv = [descriptors |-> read, array |-> IsArray(u)]
  BY <1>1, <1>2 DEF ReadSlotValue
<1>4. sv.descriptors = read /\ sv.array = IsArray(u)
  BY <1>3
<1>5. \A i \in DOMAIN items : items[i] \in Value /\ Restored(items[i])
  <2>1. CASE IsArray(u)
    <3>1. \A i \in DOMAIN u.items : u.items[i] \in Value /\ u.items[i] \in Contents(u)
      BY <2>1, ItemsAreValues, KindsDiffer DEF Contents, Range
    <3> QED
      BY <1>1, <2>1, <3>1
  <2>2. CASE ~IsArray(u)
    BY <1>1, <2>2
  <2> QED
    BY <2>1, <2>2
<1>6. PICK written : written = [i \in DOMAIN read |-> WriteSlotDescriptor(read[i])]
  OBVIOUS
<1>7. ASSUME NEW i \in DOMAIN read
      PROVE  ~IsArray(written[i]) /\ ReadSlotDescriptor(written[i]) = read[i]
  <2>1. read[i] = ReadSlotDescriptor(items[i]) /\ items[i] \in Value /\ Restored(items[i])
    BY <1>2, <1>5
  <2>2. read[i] # Error
    BY <1>3 DEF Range
  <2>3. written[i] = WriteSlotDescriptor(read[i])
    BY <1>6
  <2> QED
    BY <2>1, <2>2, <2>3, SlotDescriptorRewritten
<1>8. PICK w : w = WriteSlotValue(sv)
  OBVIOUS
<1>9. CASE IsArray(u)
  <2>1. w = Array(written)
    BY <1>4, <1>6, <1>8, <1>9 DEF WriteSlotValue
  <2>2. IsArray(w) /\ w.items = written
    BY <2>1, ArrayIs
  <2>3. DOMAIN written = DOMAIN read
    BY <1>6
  <2>4. read = [i \in DOMAIN read |-> read[i]]
    BY <1>2
  <2>5. [i \in DOMAIN written |-> ReadSlotDescriptor(written[i])] = read
    BY <1>7, <2>3, <2>4
  <2>6. ReadSlotValue(w) = [descriptors |-> read, array |-> IsArray(w)]
    BY <1>3, <2>2, <2>5 DEF ReadSlotValue
  <2> QED
    BY <1>3, <1>8, <1>9, <2>2, <2>6
<1>10. CASE ~IsArray(u)
  <2>1. items = << u >> /\ DOMAIN items = {1}
    BY <1>1, <1>10
  <2>2. DOMAIN read = {1} /\ read = << read[1] >>
    BY <1>2, <2>1
  <2>3. Head(read) = read[1]
    BY <2>2
  <2>4. w = WriteSlotDescriptor(read[1])
    BY <1>4, <1>8, <1>10, <2>3 DEF WriteSlotValue
  <2>5. ~IsArray(w) /\ ReadSlotDescriptor(w) = read[1]
    BY <1>6, <1>7, <2>2, <2>4
  <2>6. [i \in DOMAIN << w >> |-> ReadSlotDescriptor(<< w >>[i])] = << ReadSlotDescriptor(w) >>
    OBVIOUS
  <2>7. [i \in DOMAIN << w >> |-> ReadSlotDescriptor(<< w >>[i])] = read
    BY <2>2, <2>5, <2>6
  <2>8. ReadSlotValue(w) = [descriptors |-> read, array |-> IsArray(w)]
    BY <1>3, <2>5, <2>7 DEF ReadSlotValue
  <2>9. IsArray(w) = IsArray(u)
    BY <1>10, <2>5 DEF IsArray
  <2>10. ReadSlotValue(w) = sv
    BY <1>3, <2>8, <2>9
  <2> QED
    BY <1>8, <2>10
<1> QED
  BY <1>9, <1>10

(* all slots,                                                              *)
LEMMA SlotsRewritten ==
    ASSUME NEW v \in Value, IsObject(v), NEW read, read = ReadSlots(v), Error \notin Range(read),
           \A u \in Contents(v) : \A x \in {u} \cup Contents(u) : Restored(x),
           NEW members, members = [s \in DOMAIN read |-> WriteSlotValue(read[s])]
    PROVE  ReadSlots(Sorted(members)) = read
<1>1. v # Absent
  BY ValueIsPresent
<1>2. PICK f : f = [s \in Names(v) |-> ReadSlotValue(v.members[s])]
  OBVIOUS
<1>3. read = f /\ DOMAIN read = Names(v)
  BY <1>1, <1>2 DEF ReadSlots
<1>4. PICK w : w = Sorted(members)
  OBVIOUS
<1>5. IsObject(w) /\ w.members = members /\ Names(w) = Names(v)
  BY <1>3, <1>4, SortedIs
<1>6. w # Absent
  BY <1>5 DEF IsObject, Absent
<1>7. ASSUME NEW s \in Names(v) PROVE ReadSlotValue(w.members[s]) = read[s]
  <2>1. v.members[s] \in Value /\ v.members[s] \in Contents(v)
    BY MembersAreValues DEF Contents, Range, Names
  <2>2. read[s] = ReadSlotValue(v.members[s])
    BY <1>2, <1>3
  <2>3. read[s] # Error
    BY <1>3 DEF Range
  <2>4. ReadSlotValue(WriteSlotValue(read[s])) = read[s]
    BY <2>1, <2>2, <2>3, SlotValueRewritten
  <2> QED
    BY <1>3, <1>5, <2>4
<1>8. ReadSlots(w) = [s \in Names(w) |-> ReadSlotValue(w.members[s])]
  BY <1>6 DEF ReadSlots
<1>9. read = [s \in Names(v) |-> read[s]]
  BY <1>2, <1>3
<1> QED
  BY <1>4, <1>5, <1>7, <1>8, <1>9

(* and a descriptor, if those inline in it are.                            *)
LEMMA DescriptorRewritten ==
    ASSUME NEW v \in Value, \A u \in Components(v) : Restored(u)
    PROVE  Restored(v)
<1> SUFFICES ASSUME NEW vd, vd = Read(v), vd # Error PROVE Read(Write(vd)) = vd
  BY DEF Restored
<1>1. PICK old, transform, t, read :
        /\ old = Field(v, "slots")
        /\ transform = Member(v, "transform")
        /\ t = (IF transform = Absent THEN Absent ELSE ParseTransform(transform))
        /\ read = ReadSlots(old)
  OBVIOUS
<1>2. /\ \A k \in {"template", "type", "integrity"} : StringOrAbsent(StringField(v, k))
      /\ old # Absent => IsObject(old)
      /\ Error \notin Range(read)
      /\ t # Error
      /\ vd = [template |-> StringField(v, "template"), type |-> StringField(v, "type"),
               integrity |-> StringField(v, "integrity"), slots |-> read, transform |-> t]
  BY <1>1 DEF Read
<1>3. \A k \in {"template", "type", "integrity"} :
        LET x == StringField(v, k) IN x # Empty /\ x # Null
  <2> SUFFICES ASSUME NEW k \in {"template", "type", "integrity"}, NEW x, x = StringField(v, k)
               PROVE  x # Empty /\ x # Null
    OBVIOUS
  <2>1. x # Empty
    BY DEF StringField, Empty, Pointer, Absent
  <2>2. Null # Absent /\ ~IsString(Null)
    BY DEF Null, Absent, IsString
  <2> QED
    BY <1>2, <2>1, <2>2 DEF StringOrAbsent
<1>4. PICK slots : slots = [s \in DOMAIN read |-> WriteSlotValue(read[s])]
  OBVIOUS
<1>5. PICK f :
        f = [template |-> IF vd.template = Absent THEN Empty ELSE vd.template,
             type |-> vd.type,
             integrity |-> vd.integrity,
             slots |-> IF slots = NoSlots THEN Absent ELSE Sorted(slots),
             transform |-> IF vd.transform = Absent THEN Absent ELSE ToJSON(vd.transform)]
  OBVIOUS
<1>6. PICK w : w = Sorted(OmitEmpty(f))
  OBVIOUS
<1>7. Write(vd) = w
  BY <1>2, <1>4, <1>5, <1>6 DEF Write
<1>8. DOMAIN f = {"template", "type", "integrity", "slots", "transform"}
  BY <1>5
<1>9. IsObject(w) /\ Names(w) \subseteq DOMAIN f /\ \A k \in DOMAIN f : Member(w, k) = f[k]
  BY <1>6, MemberWritten
<1>10. MembersKnown(w, {"template", "type", "integrity", "slots", "transform"})
  BY <1>8, <1>9 DEF MembersKnown
<1>11. /\ StringField(w, "template") = StringField(v, "template")
       /\ StringField(w, "type") = StringField(v, "type")
       /\ StringField(w, "integrity") = StringField(v, "integrity")
  <2>1. Null # Empty /\ Null # Absent /\ Empty # Absent
    BY DEF Null, Empty, Pointer, Absent
  <2>2. ASSUME NEW k \in {"type", "integrity"} PROVE StringField(w, k) = StringField(v, k)
    <3>1. Member(w, k) = StringField(v, k)
      BY <1>2, <1>5, <1>8, <1>9
    <3> QED
      BY <1>3, <2>1, <3>1 DEF StringField, Field
  <2>3. StringField(w, "template") = StringField(v, "template")
    <3>1. PICK x : x = StringField(v, "template")
      OBVIOUS
    <3>2. Member(w, "template") = IF x = Absent THEN Empty ELSE x
      BY <1>2, <1>5, <1>8, <1>9, <3>1
    <3>3. x # Empty /\ x # Null
      BY <1>3, <3>1
    <3> QED
      BY <2>1, <3>1, <3>2, <3>3 DEF StringField, Field
  <2> QED
    BY <2>2, <2>3
<1>12. /\ Field(w, "slots") # Absent => IsObject(Field(w, "slots"))
       /\ ReadSlots(Field(w, "slots")) = read
  <2>1. PICK new : new = Field(w, "slots")
    OBVIOUS
  <2>2. Member(w, "slots") = IF slots = NoSlots THEN Absent ELSE Sorted(slots)
    BY <1>5, <1>8, <1>9
  <2>3. CASE slots = NoSlots
    <3>1. new = Absent
      BY <2>1, <2>2, <2>3 DEF Field
    <3>2. DOMAIN read = {}
      BY <1>4, <2>3 DEF NoSlots
    <3>3. read = NoSlots
      <4>1. CASE old = Absent
        BY <1>1, <4>1 DEF ReadSlots
      <4>2. CASE old # Absent
        BY <1>1, <3>2, <4>2 DEF ReadSlots, NoSlots
      <4> QED
        BY <4>1, <4>2
    <3>4. ReadSlots(new) = NoSlots
      BY <3>1 DEF ReadSlots
    <3> QED
      BY <2>1, <3>1, <3>3, <3>4
  <2>4. CASE slots # NoSlots
    <3>1. PICK object : object = Sorted(slots)
      OBVIOUS
    <3>2. IsObject(object)
      BY <3>1, SortedIs
    <3>3. object # Null
      BY <3>2 DEF IsObject, Null
    <3>4. new = object
      BY <2>1, <2>2, <2>4, <3>1, <3>3 DEF Field
    <3>5. old # Absent
      BY <1>1, <1>4, <2>4 DEF ReadSlots, NoSlots
    <3>6. IsObject(v) /\ "slots" \in Names(v) /\ old = v.members["slots"]
      BY <1>1, <3>5 DEF Field, Member, Has
    <3>7. old \in Value /\ old \in Contents(v) /\ IsObject(old)
      BY <1>2, <3>5, <3>6, MembersAreValues DEF Contents, Range, Names
    <3>8. ASSUME NEW u \in Contents(old) PROVE \A x \in {u} \cup Contents(u) : Restored(x)
      BY <3>7 DEF Components
    <3>9. ReadSlots(object) = read
      BY <1>1, <1>2, <1>4, <3>1, <3>7, <3>8, SlotsRewritten
    <3> QED
      BY <2>1, <3>2, <3>4, <3>9
  <2> QED
    BY <2>3, <2>4
<1>13. (IF Member(w, "transform") = Absent THEN Absent
        ELSE ParseTransform(Member(w, "transform"))) = t
  <2>1. Member(w, "transform") = IF t = Absent THEN Absent ELSE ToJSON(t)
    BY <1>2, <1>5, <1>8, <1>9
  <2>2. CASE t = Absent
    BY <2>1, <2>2
  <2>3. CASE t # Absent
    <3>1. transform # Absent /\ t = Parse(transform, AtTop)
      BY <1>1, <2>3 DEF ParseTransform
    <3>2. transform \in Value
      BY <1>1, <3>1, MembersAreValues DEF Member, Has
    <3>3. ToJSON(t) \in Value
      BY <1>2, <3>1, <3>2, WriteAssumption
    <3>4. Parse(ToJSON(t), AtTop) = t
      BY <1>2, <3>1, <3>2, TransformRewritten DEF Rewritten
    <3> QED
      BY <2>1, <2>3, <3>3, <3>4, ValueIsPresent DEF ParseTransform
  <2> QED
    BY <2>2, <2>3
<1>14. Read(w) = vd
  <2>1. PICK new, back :
          /\ new = Field(w, "slots")
          /\ back = (IF Member(w, "transform") = Absent THEN Absent
                     ELSE ParseTransform(Member(w, "transform")))
    OBVIOUS
  <2>2. \A s \in {StringField(w, k) : k \in {"template", "type", "integrity"}} : StringOrAbsent(s)
    BY <1>2, <1>11
  <2>3. /\ new # Absent => IsObject(new)
        /\ ReadSlots(new) = read /\ Error \notin Range(ReadSlots(new))
        /\ back = t /\ back # Error
    BY <1>2, <1>12, <1>13, <2>1
  <2>4. Read(w) = [template |-> StringField(w, "template"), type |-> StringField(w, "type"),
                   integrity |-> StringField(w, "integrity"), slots |-> ReadSlots(new),
                   transform |-> back]
    BY <1>10, <2>1, <2>2, <2>3 DEF Read
  <2> QED
    BY <1>2, <1>11, <2>3, <2>4
<1> QED
  BY <1>7, <1>14

(* A descriptor that is written back says what it said.                    *)
THEOREM WrittenBack == Spec => []WrittenAsRead
<1>1. Value \subseteq {v \in Value : Restored(v)}
  <2> DEFINE S == {v \in Value : Restored(v)}
  <2>1. ASSUME NEW v \in Value, Components(v) \subseteq S PROVE v \in S
    BY <2>1, DescriptorRewritten
  <2> HIDE DEF S
  <2>2. Value \subseteq S
    BY <2>1, ValueInduction
  <2> QED
    BY <2>2 DEF S
<1>2. WireInv => WrittenAsRead
  <2> SUFFICES ASSUME WireInv, sent.doc \notin Undecodable
               PROVE  Read(Write(Read(sent.doc))) = Read(sent.doc)
    BY DEF WrittenAsRead
  <2>1. sent.doc \in Doc /\ sent.doc \in Value
    BY ValueAssumption DEF WireInv, Origin
  <2>2. Read(sent.doc) # Error
    BY <2>1, ParseAssumption DEF Undecodable
  <2> QED
    BY <1>1, <2>1, <2>2 DEF Restored
<1> QED
  BY <1>2, ResponseKept, PTL
-----------------------------------------------------------------------------
(* What is left when a member is taken out.                                *)

(* The member itself,                                                      *)
Taken(left, v, k) ==
    /\ IsObject(v) /\ IsObject(left) /\ Names(left) = Names(v) \ {k}
    /\ \A n \in Names(left) : left.members[n] = v.members[n]

(* or something in it, or in an item.                                      *)
Put(left, v, k, m) ==
    /\ IsObject(v) /\ IsObject(left) /\ Names(left) = Names(v)
    /\ left.members[k] = m /\ \A n \in Names(v) \ {k} : left.members[n] = v.members[n]
PutAt(left, v, i, m) ==
    /\ IsArray(v) /\ IsArray(left) /\ DOMAIN left.items = DOMAIN v.items
    /\ left.items[i] = m /\ \A j \in DOMAIN v.items \ {i} : left.items[j] = v.items[j]

LEMMA TakenIs ==
    ASSUME NEW v, IsObject(v), NEW k
    PROVE  Taken(Without(v, {k}), v, k)
<1>1. PICK keys : keys = FlattenSeq([i \in DOMAIN v.keys |->
                          IF v.keys[i] \in {k} THEN << >> ELSE << v.keys[i] >>])
  OBVIOUS
<1>2. PICK f : f = [n \in Names(v) \ {k} |-> v.members[n]]
  OBVIOUS
<1>3. Without(v, {k}) = [keys |-> keys, members |-> f]
  BY <1>1, <1>2 DEF Without, Object
<1>4. PICK left : left = Without(v, {k})
  OBVIOUS
<1>5. IsObject(left) /\ left.members = f
  BY <1>3, <1>4 DEF IsObject
<1>6. Names(left) = Names(v) \ {k} /\ \A n \in Names(left) : left.members[n] = v.members[n]
  BY <1>2, <1>5 DEF Names
<1> QED
  BY <1>4, <1>5, <1>6 DEF Taken

LEMMA PutIs ==
    ASSUME NEW v, IsObject(v), NEW k \in Names(v), NEW m
    PROVE  Put([v EXCEPT !.members[k] = m], v, k, m)
<1>1. PICK f : f = [v.members EXCEPT ![k] = m]
  OBVIOUS
<1>2. PICK left : left = [v EXCEPT !.members = f]
  OBVIOUS
<1>3. left = [v EXCEPT !.members[k] = m]
  BY <1>1, <1>2
<1>4. IsObject(left) /\ left.members = f
  BY <1>2 DEF IsObject
<1>5. Names(left) = Names(v)
  BY <1>1, <1>4 DEF Names
<1>6. f[k] = m /\ \A n \in Names(v) \ {k} : f[n] = v.members[n]
  BY <1>1 DEF Names
<1> QED
  BY <1>3, <1>4, <1>5, <1>6 DEF Put

LEMMA PutAtIs ==
    ASSUME NEW v, IsArray(v), NEW i \in DOMAIN v.items, NEW m
    PROVE  PutAt([v EXCEPT !.items[i] = m], v, i, m)
<1>1. PICK f : f = [v.items EXCEPT ![i] = m]
  OBVIOUS
<1>2. PICK left : left = [v EXCEPT !.items = f]
  OBVIOUS
<1>3. left = [v EXCEPT !.items[i] = m]
  BY <1>1, <1>2
<1>4. IsArray(left) /\ left.items = f
  BY <1>2 DEF IsArray
<1>5. DOMAIN f = DOMAIN v.items
  BY <1>1
<1>6. f[i] = m /\ \A j \in DOMAIN v.items \ {i} : f[j] = v.items[j]
  BY <1>1
<1> QED
  BY <1>3, <1>4, <1>5, <1>6 DEF PutAt

LEMMA RemovalForms ==
    ASSUME NEW v \in Value, NEW left \in Removals(v)
    PROVE  \/ \E k \in Telling(v) : Taken(left, v, k)
           \/ \E k \in Telling(v) : \E m \in Removals(v.members[k]) : Put(left, v, k, m)
           \/ \E i \in DOMAIN v.items : \E m \in Removals(v.items[i]) : PutAt(left, v, i, m)
<1>1. CASE IsObject(v)
  <2>1. \/ \E k \in Telling(v) : left = Without(v, {k})
        \/ \E k \in Telling(v) : \E m \in NestedRemovals(v.members[k]) :
             left = [v EXCEPT !.members[k] = m]
    <3>1. PICK R : R = UNION {{[v EXCEPT !.members[k] = m] : m \in NestedRemovals(v.members[k])} :
                                k \in Telling(v)}
      OBVIOUS
    <3>2. Removals(v) = {Without(v, {k}) : k \in Telling(v)} \cup R
      BY <1>1, <3>1, KindsDiffer DEF Removals
    <3>3. CASE left \in R
      BY <3>1, <3>3
    <3> QED
      BY <3>2, <3>3
  <2>2. ASSUME NEW k \in Telling(v), left = Without(v, {k}) PROVE Taken(left, v, k)
    BY <1>1, <2>2, TakenIs
  <2>3. ASSUME NEW k \in Telling(v), NEW m \in NestedRemovals(v.members[k]),
               left = [v EXCEPT !.members[k] = m]
        PROVE  m \in Removals(v.members[k]) /\ Put(left, v, k, m)
    <3>1. k \in Names(v)
      BY DEF Telling
    <3>2. v.members[k] \in Value
      BY <1>1, <3>1, MembersAreValues
    <3>3. m \in Removals(v.members[k])
      BY <3>2, RemovalAssumption
    <3> QED
      BY <1>1, <2>3, <3>1, <3>3, PutIs
  <2> QED
    BY <2>1, <2>2, <2>3
<1>2. CASE IsArray(v) /\ ~IsObject(v)
  <2>1. PICK i \in DOMAIN v.items : \E m \in NestedRemovals(v.items[i]) :
             left = [v EXCEPT !.items[i] = m]
    BY <1>2 DEF Removals
  <2>2. PICK m \in NestedRemovals(v.items[i]) : left = [v EXCEPT !.items[i] = m]
    BY <2>1
  <2>3. v.items[i] \in Value
    BY <1>2, ItemsAreValues
  <2>4. m \in Removals(v.items[i])
    BY <2>3, RemovalAssumption
  <2>5. PutAt(left, v, i, m)
    BY <1>2, <2>2, PutAtIs
  <2> QED
    BY <2>4, <2>5
<1>3. CASE ~IsObject(v) /\ ~IsArray(v)
  BY <1>3 DEF Removals
<1> QED
  BY <1>1, <1>2, <1>3

(* Nothing is left of a scalar.                                            *)
LEMMA StringRemovals ==
    ASSUME NEW v, IsString(v)
    PROVE  Removals(v) = {}
<1>1. ~IsObject(v) /\ ~IsArray(v)
  BY DEF IsString, IsObject, IsArray
<1> QED
  BY <1>1 DEF Removals

(* Plain values differ.                                                    *)
LEMMA PlainTold == \A v \in Value : \A left \in Removals(v) : Plain(left) # Plain(v)
<1> DEFINE S == {v \in Value : \A left \in Removals(v) : Plain(left) # Plain(v)}
<1>1. ASSUME NEW w \in S, NEW m \in Removals(w) PROVE NestedPlain(m) # NestedPlain(w)
  BY ParseAssumption, RemovalAssumption
<1>2. ASSUME NEW v \in Value, Components(v) \subseteq S PROVE v \in S
  <2>1. Contents(v) \subseteq S
    BY <1>2 DEF Components
  <2> SUFFICES ASSUME NEW left \in Removals(v) PROVE Plain(left) # Plain(v)
    OBVIOUS
  <2> HIDE DEF S
  <2>2. ASSUME NEW u, IsObject(u)
        PROVE  Plain(u) = [map |-> [n \in Names(u) |-> NestedPlain(u.members[n])]]
    <3>1. u # Absent
      BY <2>2 DEF IsObject, Absent
    <3> QED
      BY <2>2, <3>1, KindsDiffer DEF Plain
  <2>3. ASSUME NEW u, IsArray(u)
        PROVE  Plain(u) = [slice |-> [n \in DOMAIN u.items |-> NestedPlain(u.items[n])]]
    <3>1. u # Absent /\ ~IsObject(u)
      BY <2>3 DEF IsObject, IsArray, Absent
    <3> QED
      BY <2>3, <3>1 DEF Plain
  <2>4. ASSUME NEW k \in Telling(v), Taken(left, v, k) PROVE Plain(left) # Plain(v)
    <3>1. IsObject(v) /\ IsObject(left) /\ k \in Names(v) /\ k \notin Names(left)
      BY <2>4 DEF Taken, Telling
    <3>2. PICK f, g : /\ f = [n \in Names(v) |-> NestedPlain(v.members[n])]
                      /\ g = [n \in Names(left) |-> NestedPlain(left.members[n])]
      OBVIOUS
    <3>3. f # g
      BY <3>1, <3>2
    <3>4. Plain(v).map = f /\ Plain(left).map = g
      BY <2>2, <3>1, <3>2
    <3> QED
      BY <3>3, <3>4
  <2>5. ASSUME NEW k \in Telling(v), NEW m \in Removals(v.members[k]), Put(left, v, k, m)
        PROVE  Plain(left) # Plain(v)
    <3>1. IsObject(v) /\ IsObject(left) /\ k \in Names(v) /\ k \in Names(left)
          /\ left.members[k] = m
      BY <2>5 DEF Put, Telling
    <3>2. PICK f, g : /\ f = [n \in Names(v) |-> NestedPlain(v.members[n])]
                      /\ g = [n \in Names(left) |-> NestedPlain(left.members[n])]
      OBVIOUS
    <3>3. v.members[k] \in S
      BY <2>1, <3>1 DEF Contents, Range, Names
    <3>4. f[k] # g[k]
      BY <1>1, <3>1, <3>2, <3>3
    <3>5. Plain(v).map = f /\ Plain(left).map = g
      BY <2>2, <3>1, <3>2
    <3> QED
      BY <3>4, <3>5
  <2>6. ASSUME NEW k \in DOMAIN v.items, NEW m \in Removals(v.items[k]), PutAt(left, v, k, m)
        PROVE  Plain(left) # Plain(v)
    <3>1. IsArray(v) /\ IsArray(left) /\ k \in DOMAIN left.items /\ left.items[k] = m
      BY <2>6 DEF PutAt
    <3>2. PICK f, g : /\ f = [n \in DOMAIN v.items |-> NestedPlain(v.items[n])]
                      /\ g = [n \in DOMAIN left.items |-> NestedPlain(left.items[n])]
      OBVIOUS
    <3>3. v.items[k] \in S
      BY <2>1, <3>1, KindsDiffer DEF Contents, Range
    <3>4. f[k] # g[k]
      BY <1>1, <3>1, <3>2, <3>3
    <3>5. Plain(v).slice = f /\ Plain(left).slice = g
      BY <2>3, <3>1, <3>2
    <3> QED
      BY <3>4, <3>5
  <2> QED
    BY <2>4, <2>5, <2>6, RemovalForms
<1>3. Value \subseteq S
  <2> HIDE DEF S
  <2> QED
    BY <1>2, ValueInduction
<1> QED
  BY <1>3

(* No part of a transform is without effect.                               *)
Told(v, topLevel) ==
    Parse(v, topLevel) # Error =>
        \A left \in Removals(v) : Parse(left, topLevel) # Parse(v, topLevel)

LEMMA OperandTold ==
    ASSUME NEW w \in Value, Told(w, Nested), NestedParse(w, Nested) # Error,
           NEW m \in Removals(w)
    PROVE  NestedParse(m, Nested) # NestedParse(w, Nested)
<1>1. NestedParse(w, Nested) = Parse(w, Nested)
  BY ParseAssumption
<1>2. NestedParse(m, Nested) = Parse(m, Nested)
  BY RemovalAssumption
<1> QED
  BY <1>1, <1>2 DEF Told

(* The lists of transforms,                                                *)
LEMMA ListTold ==
    ASSUME NEW v \in Value, IsArray(v), NEW left \in Removals(v),
           Error \notin Range(ParseAll(v.items)), \A w \in Contents(v) : Told(w, Nested)
    PROVE  IsArray(left) /\ ParseAll(left.items) # ParseAll(v.items)
<1>1. ~IsObject(v)
  BY KindsDiffer
<1>2. PICK i \in DOMAIN v.items : \E m \in Removals(v.items[i]) : PutAt(left, v, i, m)
  BY <1>1, RemovalForms DEF Taken, Put
<1>3. PICK m \in Removals(v.items[i]) : PutAt(left, v, i, m)
  BY <1>2
<1>4. IsArray(left) /\ i \in DOMAIN left.items /\ left.items[i] = m
  BY <1>3 DEF PutAt
<1>5. v.items[i] \in Value /\ v.items[i] \in Contents(v)
  BY <1>1, ItemsAreValues DEF Contents, Range
<1>6. PICK l, n : l = ParseAll(v.items) /\ n = ParseAll(left.items)
  OBVIOUS
<1>7. i \in DOMAIN l /\ l[i] = NestedParse(v.items[i], Nested) /\ n[i] = NestedParse(m, Nested)
  BY <1>4, <1>6 DEF ParseAll
<1>8. l[i] # Error
  BY <1>6, <1>7 DEF Range
<1>9. l[i] # n[i]
  BY <1>5, <1>7, <1>8, OperandTold
<1> QED
  BY <1>4, <1>6, <1>9

(* What is parsed of an object, be it a value or what is left of one:      *)
(* mappings                                                                *)
LEMMA MappingForm ==
    ASSUME NEW w, NEW t, t = ParseMapping(w), t # Error
    PROVE  /\ t.op = "mapping" /\ DOMAIN t.to = Names(w)
           /\ \A k \in Names(w) : t.to[k] = NestedParse(w.members[k], Nested) /\ t.to[k] # Error
<1>1. PICK to : to = [k \in Names(w) |-> NestedParse(w.members[k], Nested)]
  OBVIOUS
<1>2. t = [op |-> "mapping", to |-> to] /\ Error \notin Range(to)
  BY <1>1 DEF ParseMapping
<1>3. t.op = "mapping" /\ t.to = to
  BY <1>2
<1> QED
  BY <1>1, <1>2, <1>3 DEF Range

(* and constructs.                                                         *)
LEMMA ConstructForm ==
    ASSUME NEW w, NEW topLevel, NEW c \in ConstructNames, NEW t, t = ParseConstruct(c, w, topLevel),
           t # Error
    PROVE  /\ t.op = c /\ WellFormed(c, w, topLevel)
           /\ c = "$merge" => t.list = ParseAll(w.members[c].items) /\ Error \notin Range(t.list)
           /\ c \in {"$map", "$entries"} =>
                t.to = IF "$to" \in Names(w) THEN NestedParse(w.members["$to"], Nested) ELSE Absent
           /\ c = "$get" => t.default = Plain(w.members["$default"])
<1>1. PICK m : m = w.members[c]
  OBVIOUS
<1>2. PICK items : items = IF c = "$merge" THEN ParseAll(m.items) ELSE << >>
  OBVIOUS
<1>3. PICK to : to = IF "$to" \in Names(w) THEN NestedParse(w.members["$to"], Nested) ELSE Absent
  OBVIOUS
<1>4. /\ WellFormed(c, w, topLevel) /\ Error \notin Range(items) /\ to # Error
      /\ t = CASE c = "$mapper" -> [op |-> c, uri |-> m]
               [] c \in {"$map", "$entries"} -> [op |-> c, ptr |-> m.pointer, to |-> to]
               [] c = "$get" -> [op |-> c, ptr |-> m.pointer,
                                 default |-> Plain(w.members["$default"])]
               [] c = "$count" -> [op |-> c, ptr |-> m.pointer]
               [] c = "$merge" -> [op |-> c, list |-> items]
  BY <1>1, <1>2, <1>3 DEF ParseConstruct
<1>5. CASE c = "$mapper"
  BY <1>4, <1>5
<1>6. CASE c \in {"$map", "$entries"}
  BY <1>3, <1>4, <1>6
<1>7. CASE c = "$get"
  BY <1>4, <1>7
<1>8. CASE c = "$count"
  BY <1>4, <1>8
<1>9. CASE c = "$merge"
  BY <1>1, <1>2, <1>4, <1>9
<1> QED
  BY <1>5, <1>6, <1>7, <1>8, <1>9 DEF ConstructNames

(* mappings,                                                               *)
LEMMA MappingTold ==
    ASSUME NEW v \in Value, IsObject(v), Present(v) = {}, NEW t, t = ParseMapping(v), t # Error,
           NEW left \in Removals(v), \A w \in Contents(v) : Told(w, Nested), NEW topLevel
    PROVE  Parse(left, topLevel) # t
<1> SUFFICES ASSUME Parse(left, topLevel) = t PROVE FALSE
  OBVIOUS
<1>1. /\ DOMAIN t.to = Names(v)
      /\ \A k \in Names(v) : t.to[k] = NestedParse(v.members[k], Nested) /\ t.to[k] # Error
  BY MappingForm
<1>2. ASSUME IsObject(left), Names(left) \subseteq Names(v)
      PROVE  /\ DOMAIN t.to = Names(left)
             /\ \A k \in Names(left) : t.to[k] = NestedParse(left.members[k], Nested)
  <2>1. Present(left) = {}
    BY <1>2 DEF Present
  <2>2. t = ParseMapping(left)
    BY <1>2, <2>1, KindsDiffer DEF Parse
  <2> QED
    BY <2>2, MappingForm
<1>3. ASSUME NEW k \in Telling(v), Taken(left, v, k) PROVE FALSE
  BY <1>1, <1>2, <1>3 DEF Taken, Telling
<1>4. ASSUME NEW k \in Telling(v), NEW m \in Removals(v.members[k]), Put(left, v, k, m)
      PROVE  FALSE
  <2>1. k \in Names(v) /\ IsObject(left) /\ Names(left) = Names(v) /\ left.members[k] = m
    BY <1>4 DEF Put, Telling
  <2>2. v.members[k] \in Value /\ v.members[k] \in Contents(v)
    BY <2>1, MembersAreValues DEF Contents, Range, Names
  <2>3. NestedParse(m, Nested) # NestedParse(v.members[k], Nested)
    BY <1>1, <2>1, <2>2, OperandTold
  <2> QED
    BY <1>1, <1>2, <2>1, <2>3
<1> QED
  BY <1>3, <1>4, RemovalForms, KindsDiffer DEF PutAt

(* the members of constructs                                               *)
LEMMA ConstructTold ==
    ASSUME NEW v \in Value, IsObject(v), NEW topLevel, Present(v) # {},
           NEW c, c = Constructs[Min(Present(v))], NEW t, t = ParseConstruct(c, v, topLevel),
           t # Error, NEW left \in Removals(v),
           \A w \in Contents(v) : Told(w, Nested) /\ \A x \in Contents(w) : Told(x, Nested)
    PROVE  Parse(left, topLevel) # t
<1> SUFFICES ASSUME Parse(left, topLevel) = t PROVE FALSE
  OBVIOUS
<1>1. c \in ConstructNames /\ c \in Names(v)
  BY FirstConstruct
<1>2. /\ t.op = c /\ WellFormed(c, v, topLevel)
      /\ c = "$merge" => t.list = ParseAll(v.members[c].items) /\ Error \notin Range(t.list)
      /\ c \in {"$map", "$entries"} =>
           t.to = IF "$to" \in Names(v) THEN NestedParse(v.members["$to"], Nested) ELSE Absent
      /\ c = "$get" => t.default = Plain(v.members["$default"])
  BY <1>1, ConstructForm
<1>3. ASSUME IsObject(left), Names(left) \cap ConstructNames = Names(v) \cap ConstructNames
      PROVE  t = ParseConstruct(c, left, topLevel)
  <2>1. \A i \in DOMAIN Constructs : Constructs[i] \in ConstructNames
    BY DEF Constructs, ConstructNames
  <2>2. Present(left) = Present(v)
    BY <1>3, <2>1 DEF Present
  <2> QED
    BY <1>3, <2>2, KindsDiffer DEF Parse
<1>4. ASSUME t = ParseConstruct(c, left, topLevel)
      PROVE  /\ WellFormed(c, left, topLevel)
             /\ c = "$merge" => t.list = ParseAll(left.members[c].items)
             /\ c \in {"$map", "$entries"} =>
                  t.to = IF "$to" \in Names(left) THEN NestedParse(left.members["$to"], Nested)
                         ELSE Absent
             /\ c = "$get" => t.default = Plain(left.members["$default"])
  BY <1>1, <1>4, ConstructForm
<1>5. \A k \in Telling(v) : k \in Names(v) /\ k \in Allowed(c)
  BY <1>2 DEF Telling, WellFormed
<1>6. \A k \in Names(v) : v.members[k] \in Value /\ v.members[k] \in Contents(v)
  BY MembersAreValues DEF Contents, Range, Names
<1>7. ASSUME NEW k \in Telling(v), k # c
      PROVE  /\ k \notin ConstructNames
             /\ \/ k = "$to" /\ c \in {"$map", "$entries"}
                \/ k = "$default" /\ c = "$get"
  <2>1. k \in Allowed(c)
    BY <1>5
  <2>2. CASE c \in {"$map", "$entries"}
    BY <1>7, <2>1, <2>2 DEF Allowed, ConstructNames
  <2>3. CASE c = "$get"
    BY <1>7, <2>1, <2>3 DEF Allowed, ConstructNames
  <2>4. CASE c \in {"$mapper", "$count", "$merge"}
    BY <1>7, <2>1, <2>4 DEF Allowed
  <2> QED
    BY <1>1, <2>2, <2>3, <2>4 DEF ConstructNames
<1>8. ASSUME NEW k \in Telling(v), Taken(left, v, k) PROVE FALSE
  <2>1. IsObject(left) /\ Names(left) = Names(v) \ {k}
    BY <1>8 DEF Taken
  <2>2. CASE k = c
    <3>1. ParsedFrom(t, left, topLevel)
      BY ParseForms
    <3>2. CASE t = ParseMapping(left)
      BY <1>1, <1>2, <3>2, MappingForm DEF ConstructNames
    <3>3. ASSUME NEW d \in ConstructNames, d \in Names(left), t = ParseConstruct(d, left, topLevel)
          PROVE  FALSE
      <4>1. t.op = d
        BY <3>3, ConstructForm
      <4> QED
        BY <1>2, <2>1, <2>2, <3>3, <4>1
    <3> QED
      BY <2>1, <3>1, <3>2, <3>3, KindsDiffer DEF ParsedFrom
  <2>3. CASE k # c
    <3>1. Names(left) \cap ConstructNames = Names(v) \cap ConstructNames
      BY <1>7, <2>1, <2>3
    <3>2. t = ParseConstruct(c, left, topLevel)
      BY <1>3, <2>1, <3>1
    <3>3. Required(c) \subseteq Names(left)
      BY <1>4, <3>2 DEF WellFormed
    <3>4. c = "$entries" /\ k = "$to"
      BY <1>7, <2>1, <2>3, <3>3 DEF Required
    <3>5. t.to = Absent
      BY <1>4, <2>1, <3>2, <3>4
    <3>6. PICK w : w = v.members["$to"] /\ w \in Value
      BY <1>5, <1>6, <3>4
    <3>7. t.to = Parse(w, Nested)
      BY <1>2, <1>5, <3>4, <3>6, ParseAssumption
    <3>8. Parse(w, Nested) # Error
      BY <3>5, <3>7 DEF Absent, Error
    <3> QED
      BY <3>5, <3>6, <3>7, <3>8, ParsedIsNotAbsent
  <2> QED
    BY <2>2, <2>3
<1>9. ASSUME NEW k \in Telling(v), NEW m \in Removals(v.members[k]), Put(left, v, k, m)
      PROVE  FALSE
  <2>1. IsObject(left) /\ Names(left) = Names(v) /\ left.members[k] = m /\ k \in Names(v)
    BY <1>9 DEF Put, Telling
  <2>2. t = ParseConstruct(c, left, topLevel)
    BY <1>3, <2>1
  <2>3. CASE k = c
    <3>1. v.members[c] \in Value /\ v.members[c] \in Contents(v)
      BY <1>1, <1>6
    <3>2. CASE c = "$merge"
      <4>1. IsArray(v.members[c])
        BY <1>2, <3>2 DEF WellFormed
      <4>2. ParseAll(m.items) # ParseAll(v.members[c].items)
        BY <1>2, <1>9, <2>3, <3>1, <3>2, <4>1, ListTold
      <4> QED
        BY <1>2, <1>4, <2>1, <2>2, <2>3, <3>2, <4>2
    <3>3. CASE c # "$merge"
      <4>1. IsString(v.members[c])
        <5>1. CASE c = "$mapper"
          BY <1>2, <5>1 DEF WellFormed
        <5>2. CASE c # "$mapper"
          <6>1. IsPointer(v.members[c])
            BY <1>2, <3>3, <5>2 DEF WellFormed
          <6> QED
            BY <6>1 DEF IsPointer, IsString
        <5> QED
          BY <5>1, <5>2
      <4> QED
        BY <1>9, <2>3, <4>1, StringRemovals
    <3> QED
      BY <3>2, <3>3
  <2>4. CASE k # c /\ k = "$to" /\ c \in {"$map", "$entries"}
    <3>1. PICK w : w = v.members["$to"] /\ w \in Value /\ w \in Contents(v)
      BY <1>6, <2>1, <2>4
    <3>2. t.to = NestedParse(w, Nested)
      BY <1>2, <2>1, <2>4, <3>1
    <3>3. t.to = NestedParse(m, Nested)
      BY <1>4, <2>1, <2>2, <2>4
    <3>4. t.to # Error
      BY <1>2, <2>4 DEF ParseConstruct
    <3> QED
      BY <1>9, <2>4, <3>1, <3>2, <3>3, <3>4, OperandTold
  <2>5. CASE k # c /\ k = "$default" /\ c = "$get"
    <3>1. Plain(m) # Plain(v.members["$default"])
      BY <1>6, <1>9, <2>1, <2>5, PlainTold
    <3> QED
      BY <1>2, <1>4, <2>1, <2>2, <2>5, <3>1
  <2> QED
    BY <1>7, <2>3, <2>4, <2>5
<1> QED
  BY <1>8, <1>9, RemovalForms, KindsDiffer DEF PutAt

(* and so any transform.                                                   *)
LEMMA ToldStep ==
    ASSUME NEW v \in Value, NEW topLevel, \A w \in Components(v) : Told(w, Nested)
    PROVE  Told(v, topLevel)
<1> SUFFICES ASSUME NEW t, t = Parse(v, topLevel), t # Error, NEW left \in Removals(v)
             PROVE  Parse(left, topLevel) # t
  BY DEF Told
<1>1. \A w \in Contents(v) : Told(w, Nested) /\ \A x \in Contents(w) : Told(x, Nested)
  BY DEF Components
<1>2. ParsedFrom(t, v, topLevel)
  BY ParseForms
<1>3. CASE IsPointer(v)
  BY <1>3, StringRemovals DEF IsPointer, IsString
<1>4. CASE /\ IsArray(v) /\ t = [op |-> "list", list |-> ParseAll(v.items)]
           /\ Error \notin Range(ParseAll(v.items))
  <2>1. IsArray(left) /\ ParseAll(left.items) # ParseAll(v.items)
    BY <1>1, <1>4, ListTold
  <2>2. Parse(left, topLevel) \in {Error, [op |-> "list", list |-> ParseAll(left.items)]}
    BY <2>1, KindsDiffer DEF Parse
  <2>3. [op |-> "list", list |-> ParseAll(left.items)] # t
    <3>1. PICK u : u = [op |-> "list", list |-> ParseAll(left.items)]
      OBVIOUS
    <3>2. u.list = ParseAll(left.items) /\ t.list = ParseAll(v.items)
      BY <1>4, <3>1
    <3> QED
      BY <2>1, <3>1, <3>2
  <2> QED
    BY <2>2, <2>3
<1>5. CASE IsObject(v) /\ Present(v) = {} /\ t = ParseMapping(v)
  BY <1>1, <1>5, MappingTold
<1>6. ASSUME NEW c, IsObject(v), c = Constructs[Min(Present(v))], Present(v) # {},
             t = ParseConstruct(c, v, topLevel)
      PROVE  Parse(left, topLevel) # t
  BY <1>1, <1>6, ConstructTold
<1> QED
  BY <1>2, <1>3, <1>4, <1>5, <1>6 DEF ParsedFrom

LEMMA TransformTold ==
    ASSUME NEW v \in Value, NEW topLevel
    PROVE  Told(v, topLevel)
<1> DEFINE S == {w \in Value : Told(w, Nested)}
<1>1. ASSUME NEW w \in Value, Components(w) \subseteq S PROVE w \in S
  BY <1>1, ToldStep
<1>2. Value \subseteq S
  <2> HIDE DEF S
  <2> QED
    BY <1>1, ValueInduction
<1>3. Components(v) \subseteq Value
  BY ValueAssumption DEF Composed, Components
<1> QED
  BY <1>2, <1>3, ToldStep

(* Nor is any part of a descriptor: of a slot descriptor,                  *)
Heeded(v) == Read(v) # Error => \A left \in Removals(v) : Read(left) # Read(v)

LEMMA SlotDescriptorTold ==
    ASSUME NEW u \in Value, NEW sd, sd = ReadSlotDescriptor(u), sd # Error, Heeded(u),
           NEW left \in Removals(u)
    PROVE  ReadSlotDescriptor(left) # sd
<1> SUFFICES ASSUME ReadSlotDescriptor(left) = sd PROVE FALSE
  OBVIOUS
<1>1. PICK ref, rest : ref = Member(u, "descriptor") /\ rest = Member(left, "descriptor")
  OBVIOUS
<1>2. rest = Absent => ReadView(left) # Error /\ sd = Inline(ReadView(left))
  BY <1>1 DEF ReadSlotDescriptor
<1>3. CASE ref # Absent
  <2>1. IsObject(u) /\ ref = u.members["descriptor"]
    BY <1>1, <1>3 DEF Member, Has
  <2>2. MembersKnown(u, {"descriptor"}) /\ IsString(ref) /\ sd = Reference(ref)
    BY <1>1, <1>3 DEF ReadSlotDescriptor
  <2>3. u # Null
    BY <2>1 DEF IsObject, Null
  <2>4. \A k \in Telling(u) : k = "descriptor"
    BY <2>2, <2>3 DEF MembersKnown, Telling
  <2>5. Removals(ref) = {}
    BY <2>2, StringRemovals
  <2>6. Taken(left, u, "descriptor")
    <3>1. ~IsArray(u)
      BY <2>1, KindsDiffer
    <3> QED
      BY <2>1, <2>4, <2>5, <3>1, RemovalForms DEF PutAt
  <2>7. rest = Absent
    BY <1>1, <2>6 DEF Taken, Member, Has
  <2>8. sd.ref = ref /\ sd.ref = Absent
    BY <1>2, <2>2, <2>7 DEF Reference, Inline
  <2> QED
    BY <1>3, <2>8
<1>4. CASE ref = Absent
  <2>1. ReadView(u) # Error /\ sd = Inline(ReadView(u))
    BY <1>1, <1>4 DEF ReadSlotDescriptor
  <2>2. "descriptor" \notin Names(u) \/ ~IsObject(u)
    <3>1. IsObject(u) /\ "descriptor" \in Names(u) => u.members["descriptor"] # Absent
      BY MembersAreValues, ValueIsPresent
    <3> QED
      BY <1>1, <1>4, <3>1 DEF Member, Has
  <2>3. "descriptor" \notin Names(left) \/ ~IsObject(left)
    BY <2>2, RemovalForms, KindsDiffer DEF Taken, Put, PutAt
  <2>4. rest = Absent
    BY <1>1, <2>3 DEF Member, Has
  <2>5. ReadView(left) = ReadView(u)
    <3>1. sd.desc = ReadView(left) /\ sd.desc = ReadView(u)
      BY <1>2, <2>1, <2>4 DEF Inline
    <3> QED
      BY <3>1
  <2>6. ReadView(u) = Read(u) /\ ReadView(left) = Read(left)
    BY ParseAssumption, RemovalAssumption
  <2> QED
    BY <2>1, <2>5, <2>6 DEF Heeded
<1> QED
  BY <1>3, <1>4

(* of a slot,                                                              *)
LEMMA SlotValueTold ==
    ASSUME NEW u \in Value, NEW sv, sv = ReadSlotValue(u), sv # Error,
           \A x \in {u} \cup Contents(u) : Heeded(x), NEW left \in Removals(u)
    PROVE  ReadSlotValue(left) # sv
<1> SUFFICES ASSUME ReadSlotValue(left) = sv PROVE FALSE
  OBVIOUS
<1>1. CASE IsArray(u)
  <2>1. ~IsObject(u)
    BY <1>1, KindsDiffer
  <2>2. PICK i \in DOMAIN u.items : \E m \in Removals(u.items[i]) : PutAt(left, u, i, m)
    BY <2>1, RemovalForms DEF Taken, Put
  <2>3. PICK m \in Removals(u.items[i]) : PutAt(left, u, i, m)
    BY <2>2
  <2>4. IsArray(left) /\ i \in DOMAIN left.items /\ left.items[i] = m
    BY <2>3 DEF PutAt
  <2>5. PICK read, rest : /\ read = [j \in DOMAIN u.items |-> ReadSlotDescriptor(u.items[j])]
                          /\ rest = [j \in DOMAIN left.items |-> ReadSlotDescriptor(left.items[j])]
    OBVIOUS
  <2>6. Error \notin Range(read) /\ sv = [descriptors |-> read, array |-> IsArray(u)]
    BY <1>1, <2>5 DEF ReadSlotValue
  <2>7. sv = [descriptors |-> rest, array |-> IsArray(left)]
    BY <2>4, <2>5 DEF ReadSlotValue
  <2>8. read = rest
    <3>1. sv.descriptors = read /\ sv.descriptors = rest
      BY <2>6, <2>7
    <3> QED
      BY <3>1
  <2>9. u.items[i] \in Value /\ Heeded(u.items[i])
    BY <1>1, <2>1, ItemsAreValues DEF Contents, Range
  <2>10. read[i] = ReadSlotDescriptor(u.items[i]) /\ read[i] # Error
    BY <2>5, <2>6 DEF Range
  <2>11. ReadSlotDescriptor(m) # read[i]
    BY <2>9, <2>10, SlotDescriptorTold
  <2>12. rest[i] = ReadSlotDescriptor(m)
    BY <2>4, <2>5
  <2> QED
    BY <2>8, <2>11, <2>12
<1>2. CASE ~IsArray(u)
  <2>1. ~IsArray(left)
    BY <1>2, RemovalForms, KindsDiffer DEF Taken, Put, PutAt
  <2>2. ASSUME NEW w, ~IsArray(w), ReadSlotValue(w) = sv
        PROVE  ReadSlotDescriptor(w) = sv.descriptors[1] /\ ReadSlotDescriptor(w) # Error
    <3>1. PICK one : one = << w >>
      OBVIOUS
    <3>2. PICK read : read = [j \in DOMAIN one |-> ReadSlotDescriptor(one[j])]
      OBVIOUS
    <3>3. Error \notin Range(read) /\ sv = [descriptors |-> read, array |-> IsArray(w)]
      BY <2>2, <3>1, <3>2 DEF ReadSlotValue
    <3>4. 1 \in DOMAIN one /\ one[1] = w
      BY <3>1
    <3>5. 1 \in DOMAIN read /\ read[1] = ReadSlotDescriptor(w)
      BY <3>2, <3>4
    <3>6. sv.descriptors = read
      BY <3>3
    <3> QED
      BY <3>3, <3>5, <3>6 DEF Range
  <2>3. ReadSlotDescriptor(u) = ReadSlotDescriptor(left) /\ ReadSlotDescriptor(u) # Error
    BY <1>2, <2>1, <2>2
  <2> QED
    BY <2>3, SlotDescriptorTold
<1> QED
  BY <1>1, <1>2

(* of the slots,                                                           *)
LEMMA SlotsTold ==
    ASSUME NEW v \in Value, IsObject(v), NEW read, read = ReadSlots(v), Error \notin Range(read),
           \A u \in Contents(v) : \A x \in {u} \cup Contents(u) : Heeded(x),
           NEW left \in Removals(v)
    PROVE  IsObject(left) /\ ReadSlots(left) # read
<1>1. ASSUME NEW w, IsObject(w)
      PROVE  /\ DOMAIN ReadSlots(w) = Names(w)
             /\ \A s \in Names(w) : ReadSlots(w)[s] = ReadSlotValue(w.members[s])
  <2>1. w # Absent
    BY <1>1 DEF IsObject, Absent
  <2>2. PICK f : f = [s \in Names(w) |-> ReadSlotValue(w.members[s])]
    OBVIOUS
  <2>3. ReadSlots(w) = f
    BY <2>1, <2>2 DEF ReadSlots
  <2> QED
    BY <2>2, <2>3
<1>2. ASSUME NEW k \in Telling(v), Taken(left, v, k)
      PROVE  IsObject(left) /\ ReadSlots(left) # read
  <2>1. IsObject(left) /\ k \in Names(v) /\ k \notin Names(left)
    BY <1>2 DEF Taken, Telling
  <2>2. DOMAIN read # DOMAIN ReadSlots(left)
    BY <1>1, <2>1
  <2> QED
    BY <2>1, <2>2
<1>3. ASSUME NEW k \in Telling(v), NEW m \in Removals(v.members[k]), Put(left, v, k, m)
      PROVE  IsObject(left) /\ ReadSlots(left) # read
  <2>1. IsObject(left) /\ k \in Names(v) /\ k \in Names(left) /\ left.members[k] = m
    BY <1>3 DEF Put, Telling
  <2>2. v.members[k] \in Value /\ v.members[k] \in Contents(v)
    BY <2>1, MembersAreValues DEF Contents, Range, Names
  <2>3. read[k] = ReadSlotValue(v.members[k]) /\ read[k] # Error
    BY <1>1, <2>1 DEF Range
  <2>4. ReadSlotValue(m) # read[k]
    BY <2>2, <2>3, SlotValueTold
  <2>5. ReadSlots(left)[k] = ReadSlotValue(m)
    BY <1>1, <2>1
  <2> QED
    BY <2>1, <2>4, <2>5
<1> QED
  BY <1>2, <1>3, RemovalForms, KindsDiffer DEF PutAt

(* What a descriptor that is read has in its fields.                       *)
LEMMA ReadForm ==
    ASSUME NEW v, NEW vd, vd = Read(v), vd # Error
    PROVE  /\ MembersKnown(v, {"template", "type", "integrity", "slots", "transform"})
           /\ vd.template = StringField(v, "template") /\ StringOrAbsent(vd.template)
           /\ vd.type = StringField(v, "type") /\ StringOrAbsent(vd.type)
           /\ vd.integrity = StringField(v, "integrity") /\ StringOrAbsent(vd.integrity)
           /\ Field(v, "slots") # Absent => IsObject(Field(v, "slots"))
           /\ vd.slots = ReadSlots(Field(v, "slots")) /\ Error \notin Range(vd.slots)
           /\ vd.transform = (IF Member(v, "transform") = Absent THEN Absent
                              ELSE ParseTransform(Member(v, "transform")))
           /\ vd.transform # Error
<1>1. PICK a, b, c, slots, read, t :
        /\ a = StringField(v, "template") /\ b = StringField(v, "type")
        /\ c = StringField(v, "integrity")
        /\ slots = Field(v, "slots") /\ read = ReadSlots(slots)
        /\ t = (IF Member(v, "transform") = Absent THEN Absent
                ELSE ParseTransform(Member(v, "transform")))
  OBVIOUS
<1>2. /\ MembersKnown(v, {"template", "type", "integrity", "slots", "transform"})
      /\ StringOrAbsent(a) /\ StringOrAbsent(b) /\ StringOrAbsent(c)
      /\ slots # Absent => IsObject(slots)
      /\ Error \notin Range(read)
      /\ t # Error
      /\ vd = [template |-> a, type |-> b, integrity |-> c, slots |-> read, transform |-> t]
  BY <1>1 DEF Read
<1> QED
  BY <1>1, <1>2

(* and of a descriptor.                                                    *)
LEMMA DescriptorTold ==
    ASSUME NEW v \in Value, \A u \in Components(v) : Heeded(u)
    PROVE  Heeded(v)
<1> SUFFICES ASSUME NEW vd, vd = Read(v), vd # Error, NEW left \in Removals(v), Read(left) = vd
             PROVE  FALSE
  BY DEF Heeded
<1> DEFINE strings == {"template", "type", "integrity"}
<1>1. \A k \in strings : StringField(left, k) = StringField(v, k) /\ StringOrAbsent(StringField(v, k))
  BY ReadForm
<1>2. IsObject(v)
  <2>1. IsObject(v) \/ v = Null
    BY ReadForm DEF MembersKnown
  <2>2. ~IsObject(Null) /\ ~IsArray(Null)
    BY DEF IsObject, IsArray, Null
  <2> QED
    BY <2>1, <2>2, RemovalForms DEF Taken, Put, PutAt
<1>3. \A k \in Telling(v) : k \in strings \cup {"slots", "transform"} /\ k \in Names(v)
  <2>1. v # Null
    BY <1>2 DEF IsObject, Null
  <2> QED
    BY <2>1, ReadForm DEF MembersKnown, Telling
<1>4. ASSUME NEW k \in strings \cap Telling(v)
      PROVE  StringField(v, k) = v.members[k] /\ IsString(v.members[k])
  <2>1. Member(v, k) = v.members[k] /\ v.members[k] \notin {Null, Empty}
    BY <1>2, <1>3 DEF Member, Has, Telling
  <2>2. StringField(v, k) = v.members[k]
    BY <2>1 DEF StringField, Field
  <2>3. v.members[k] # Absent
    BY <1>2, <1>3, MembersAreValues, ValueIsPresent
  <2> QED
    BY <1>1, <2>2, <2>3 DEF StringOrAbsent
<1>5. ASSUME "slots" \in Telling(v)
      PROVE  /\ Field(v, "slots") = v.members["slots"] /\ IsObject(v.members["slots"])
             /\ Names(v.members["slots"]) # {}
             /\ v.members["slots"] \in Value /\ v.members["slots"] \in Contents(v)
  <2>1. PICK x : x = v.members["slots"]
    OBVIOUS
  <2>2. x \in Value /\ x \in Contents(v) /\ x # Absent
    BY <1>2, <1>3, <1>5, <2>1, MembersAreValues, ValueIsPresent DEF Contents, Range, Names
  <2>3. Member(v, "slots") = x /\ x # Null /\ (IsObject(x) => Names(x) # {})
    BY <1>2, <1>3, <1>5, <2>1 DEF Member, Has, Telling
  <2>4. Field(v, "slots") = x
    BY <2>3 DEF Field
  <2>5. IsObject(x)
    BY <2>2, <2>4, ReadForm
  <2> QED
    BY <2>1, <2>2, <2>3, <2>4, <2>5
<1>6. ASSUME "transform" \in Telling(v)
      PROVE  /\ v.members["transform"] \in Value
             /\ vd.transform = Parse(v.members["transform"], AtTop)
             /\ vd.transform # Absent
  <2>1. PICK x : x = v.members["transform"]
    OBVIOUS
  <2>2. x \in Value /\ Member(v, "transform") = x
    BY <1>2, <1>3, <1>6, <2>1, MembersAreValues DEF Member, Has
  <2>3. vd.transform = Parse(x, AtTop) /\ vd.transform # Error
    BY <2>2, ReadForm, ValueIsPresent DEF ParseTransform
  <2> QED
    BY <2>1, <2>2, <2>3, ParsedIsNotAbsent
<1>7. ASSUME NEW k \in Telling(v), Taken(left, v, k) PROVE FALSE
  <2>1. Member(left, k) = Absent
    BY <1>7 DEF Taken, Member, Has
  <2>2. Field(left, k) = Absent
    BY <2>1 DEF Field
  <2>3. CASE k \in strings
    <3>1. StringField(left, k) = Absent
      BY <2>2 DEF StringField
    <3>2. ~IsString(Absent)
      BY DEF IsString, Absent
    <3> QED
      BY <1>1, <1>4, <2>3, <3>1, <3>2
  <2>4. CASE k = "slots"
    <3>1. vd.slots = ReadSlots(Field(left, "slots")) /\ vd.slots = ReadSlots(Field(v, "slots"))
      BY ReadForm
    <3>2. DOMAIN vd.slots = {}
      BY <2>2, <2>4, <3>1 DEF ReadSlots, NoSlots
    <3>3. DOMAIN vd.slots = Names(v.members["slots"])
      <4>1. v.members["slots"] # Absent
        BY <1>5, <2>4, ValueIsPresent
      <4> QED
        BY <1>5, <2>4, <3>1, <4>1 DEF ReadSlots
    <3> QED
      BY <1>5, <2>4, <3>2, <3>3
  <2>5. CASE k = "transform"
    <3>1. vd.transform = Absent
      BY <2>1, <2>5, ReadForm
    <3> QED
      BY <1>6, <2>5, <3>1
  <2> QED
    BY <1>3, <2>3, <2>4, <2>5
<1>8. ASSUME NEW k \in Telling(v), NEW m \in Removals(v.members[k]), Put(left, v, k, m)
      PROVE  FALSE
  <2>1. Member(left, k) = m
    BY <1>3, <1>8 DEF Put, Member, Has
  <2>2. CASE k \in strings
    BY <1>4, <1>8, <2>2, StringRemovals
  <2>3. CASE k = "slots"
    <3>1. PICK x : x = v.members["slots"]
      OBVIOUS
    <3>2. /\ Field(v, "slots") = x /\ IsObject(x) /\ x \in Value /\ x \in Contents(v)
          /\ m \in Removals(x)
      BY <1>5, <1>8, <2>3, <3>1
    <3>3. vd.slots = ReadSlots(x) /\ Error \notin Range(vd.slots)
      BY <3>2, ReadForm
    <3>4. ASSUME NEW u \in Contents(x) PROVE \A y \in {u} \cup Contents(u) : Heeded(y)
      BY <3>2 DEF Components
    <3>5. IsObject(m) /\ ReadSlots(m) # vd.slots
      BY <3>2, <3>3, <3>4, SlotsTold
    <3>6. m # Null
      BY <3>5 DEF IsObject, Null
    <3>7. Field(left, "slots") = m
      BY <2>1, <2>3, <3>6 DEF Field
    <3> QED
      BY <3>5, <3>7, ReadForm
  <2>4. CASE k = "transform"
    <3>1. vd.transform = IF m = Absent THEN Absent ELSE Parse(m, AtTop)
      BY <2>1, <2>4, ReadForm DEF ParseTransform
    <3>2. Parse(v.members["transform"], AtTop) # Error
      BY <1>6, <2>4, ReadForm
    <3>3. Parse(m, AtTop) # vd.transform
      BY <1>6, <1>8, <2>4, <3>2, TransformTold DEF Told
    <3> QED
      BY <1>6, <2>4, <3>1, <3>3
  <2> QED
    BY <1>3, <2>2, <2>3, <2>4
<1> QED
  BY <1>2, <1>7, <1>8, RemovalForms, KindsDiffer DEF PutAt

(* No member of a descriptor that says something is without effect.        *)
THEOREM MembersHeeded == Spec => []NothingIgnored
<1>1. Value \subseteq {v \in Value : Heeded(v)}
  <2> DEFINE S == {v \in Value : Heeded(v)}
  <2>1. ASSUME NEW v \in Value, Components(v) \subseteq S PROVE v \in S
    BY <2>1, DescriptorTold
  <2> HIDE DEF S
  <2>2. Value \subseteq S
    BY <2>1, ValueInduction
  <2> QED
    BY <2>2 DEF S
<1>2. WireInv => NothingIgnored
  <2> SUFFICES ASSUME WireInv, sent.doc \notin Undecodable, NEW left \in Removals(sent.doc)
               PROVE  Read(left) # Read(sent.doc)
    BY DEF NothingIgnored
  <2>1. sent.doc \in Doc /\ sent.doc \in Value
    BY ValueAssumption DEF WireInv, Origin
  <2>2. Read(sent.doc) # Error
    BY <2>1, ParseAssumption DEF Undecodable
  <2> QED
    BY <1>1, <2>1, <2>2 DEF Heeded
<1> QED
  BY <1>2, ResponseKept, PTL
=============================================================================
