------------------------------- MODULE WireProofs -------------------------------
(***************************************************************************)
(* Proofs about a response on its way, for any descriptors and             *)
(* representations, any other entries of the Link header, and whatever it  *)
(* is that a descriptor says.                                              *)
(***************************************************************************)
EXTENDS WireProps, SequenceFacts

-----------------------------------------------------------------------------
(* Scanning a header.                                                      *)

Parts(M) == Seq(Seq(M)) \ {<< >>}
States(M, opening) == [parts: Parts(M), inside: opening \cup {"nothing"}]

(* Appending an empty part, or an element to the last part, gives parts.   *)
LEMMA PartsGrow ==
    ASSUME NEW M, NEW p \in Parts(M), NEW t \in M
    PROVE  /\ Append(p, << >>) \in Parts(M)
           /\ [p EXCEPT ![Len(p)] = Append(@, t)] \in Parts(M)
<1>1. PICK S : S = Seq(M)
  OBVIOUS
<1>2. \A q \in Seq(S) : q # << >> => Len(q) \in 1 .. Len(q)
  OBVIOUS
<1>3. ASSUME NEW q \in Seq(S), NEW x \in S
      PROVE  Append(q, x) \in Seq(S) /\ Append(q, x) # << >>
  <2>1. Append(q, x) \in Seq(S) /\ Len(Append(q, x)) = Len(q) + 1 /\ Len(q) \in Nat
    OBVIOUS
  <2> QED
    BY <2>1
<1>4. \A q \in Seq(S), x \in S : \A i \in 1 .. Len(q) :
         [q EXCEPT ![i] = x] \in Seq(S) /\ Len([q EXCEPT ![i] = x]) = Len(q)
  OBVIOUS
<1>5. \A q \in Seq(S) : \A i \in 1 .. Len(q) : q[i] \in S
  OBVIOUS
<1>6. \A x \in Seq(M) : Append(x, t) \in Seq(M)
  OBVIOUS
<1>7. p \in Seq(S) /\ p # << >> /\ << >> \in S
  BY <1>1, EmptySeq DEF Parts
<1>8. PICK n : n = Len(p) /\ n \in 1 .. Len(p)
  BY <1>2, <1>7
<1>9. PICK x : x = Append(p[n], t)
  OBVIOUS
<1>10. x \in S
  BY <1>1, <1>5, <1>6, <1>7, <1>8, <1>9
<1>11. [p EXCEPT ![n] = Append(@, t)] = [p EXCEPT ![n] = x]
  BY <1>9
<1>12. [p EXCEPT ![n] = x] \in Seq(S) /\ Len([p EXCEPT ![n] = x]) = n
  BY <1>4, <1>7, <1>8, <1>10
<1>13. [p EXCEPT ![n] = x] # << >>
  BY <1>8, <1>12
<1>14. Append(p, << >>) \in Parts(M)
  BY <1>1, <1>3, <1>7 DEF Parts
<1>15. [p EXCEPT ![n] = Append(@, t)] \in Parts(M)
  BY <1>1, <1>11, <1>12, <1>13 DEF Parts
<1> QED
  BY <1>8, <1>14, <1>15

(* A step of the loop leads from state to state.                           *)
LEMMA AdvanceType ==
    ASSUME NEW M, NEW opening, NEW separator,
           NEW st \in States(M, opening), NEW t \in M
    PROVE  Advance(st, t, separator, opening) \in States(M, opening)
<1>1. st.parts \in Parts(M) /\ st.inside \in opening \cup {"nothing"}
  BY DEF States
<1>2. Inside(st.inside, t, opening) \in opening \cup {"nothing"}
  BY <1>1 DEF Inside
<1>3. PICK p, q : p = Append(st.parts, << >>) /\ q = [st.parts EXCEPT ![Len(st.parts)] = Append(@, t)]
  OBVIOUS
<1>4. p \in Parts(M) /\ q \in Parts(M)
  BY <1>1, <1>3, PartsGrow
<1>5. \/ Advance(st, t, separator, opening) = [parts |-> p, inside |-> "nothing"]
      \/ Advance(st, t, separator, opening) = [parts |-> q, inside |-> Inside(st.inside, t, opening)]
  BY <1>3 DEF Advance
<1>6. \A r \in Parts(M), i \in opening \cup {"nothing"} : [parts |-> r, inside |-> i] \in States(M, opening)
  BY DEF States
<1> QED
  BY <1>2, <1>4, <1>5, <1>6

(* g is what the loop goes through on s.                                   *)
IsScan(g, s, separator, opening) ==
    /\ g[0] = Begun
    /\ \A i \in 1 .. Len(s) : g[i] = Advance(g[i - 1], s[i], separator, opening)

(* There is such a g, and its last value is the answer.                    *)
LEMMA ScanExists ==
    ASSUME NEW M, NEW s \in Seq(M), NEW separator, NEW opening
    PROVE  \E g \in [0 .. Len(s) -> States(M, opening)] : IsScan(g, s, separator, opening)
<1>1. PICK n \in Nat : n = Len(s)
  OBVIOUS
<1>2. PICK S : S = States(M, opening)
  OBVIOUS
<1>3. Begun \in S
  <2>1. << >> \in Seq(M) /\ << << >> >> # << >>
    BY EmptySeq
  <2>2. << << >> >> \in Parts(M)
    BY <2>1 DEF Parts
  <2> QED
    BY <1>2, <2>2 DEF Begun, States
<1>4. \A st \in S, t \in M : Advance(st, t, separator, opening) \in S
  BY <1>2, AdvanceType
<1>5. PICK f : f = [x \in (1 .. n) \X S |-> Advance(x[2], s[x[1]], separator, opening)]
  OBVIOUS
<1>6. \A i \in 1 .. n : s[i] \in M
  BY <1>1
<1>7. f \in [(1 .. n) \X S -> S]
  <2>1. ASSUME NEW x \in (1 .. n) \X S
        PROVE  Advance(x[2], s[x[1]], separator, opening) \in S
    <3>1. x[1] \in 1 .. n /\ x[2] \in S
      OBVIOUS
    <3> QED
      BY <1>4, <1>6, <3>1
  <2> QED
    BY <1>5, <2>1
<1>b. PICK b : b = Begun /\ b \in S
  BY <1>3
<1>c. PICK g \in [0 .. n -> S] : Iterated(g, n, b, f)
  BY <1>b, <1>7, Iterates
<1>8. g[0] = b /\ \A i \in 1 .. n : g[i] = f[<< i, g[i - 1] >>]
  BY <1>c DEF Iterated
<1>9. ASSUME NEW i \in 1 .. n PROVE g[i] = Advance(g[i - 1], s[i], separator, opening)
  <2>1. i - 1 \in 0 .. n
    BY <1>1
  <2>2. g[i - 1] \in S
    BY <1>8, <2>1
  <2>3. PICK x : x = << i, g[i - 1] >>
    OBVIOUS
  <2>4. x \in (1 .. n) \X S /\ x[1] = i /\ x[2] = g[i - 1]
    BY <2>2, <2>3
  <2>5. f[x] = Advance(g[i - 1], s[i], separator, opening)
    BY <1>5, <2>4
  <2> QED
    BY <1>8, <2>3, <2>5
<1> QED
  BY <1>1, <1>2, <1>b, <1>8, <1>9 DEF IsScan

(* What an index-recursive definition computes.                            *)
LEMMA ScanIs ==
    ASSUME NEW M, NEW s \in Seq(M), NEW separator, NEW opening,
           NEW g, IsScan(g, s, separator, opening)
    PROVE  Scan(s, separator, opening) = g[Len(s)]
<1>1. PICK n \in Nat : n = Len(s) /\ n \in 0 .. n
  OBVIOUS
<1> DEFINE body(f) == [i \in 0 .. n |-> IF i = 0 THEN Begun
                                        ELSE Advance(f[i - 1], s[i], separator, opening)]
           st == CHOOSE f : f = body(f)
<1>2. Scan(s, separator, opening) = st[n]
  BY <1>1 DEF Scan
<1>3. PICK h : h = [i \in 0 .. n |-> g[i]]
  OBVIOUS
<1> HIDE DEF st
<1>4. h = body(h)
  <2>1. ASSUME NEW i \in 0 .. n
        PROVE  g[i] = IF i = 0 THEN Begun ELSE Advance(h[i - 1], s[i], separator, opening)
    <3>1. CASE i = 0
      BY <3>1 DEF IsScan
    <3>2. CASE i # 0
      <4>1. i \in 1 .. n /\ i - 1 \in 0 .. n
        BY <3>2
      <4>2. h[i - 1] = g[i - 1]
        BY <1>3, <4>1
      <4> QED
        BY <1>1, <3>2, <4>1, <4>2 DEF IsScan
    <3> QED
      BY <3>1, <3>2
  <2> QED
    BY <1>3, <2>1
<1>5. st = body(st)
  <2> HIDE DEF body
  <2> QED
    BY <1>4 DEF st
<1>6. PICK f : f = st
  OBVIOUS
<1>7. f = body(f)
  BY <1>5, <1>6
<1>8. f[0] = g[0]
  <2>1. 0 \in 0 .. n
    BY <1>1
  <2>2. f[0] = Begun
    BY <1>7, <2>1
  <2> QED
    BY <2>2 DEF IsScan
<1>9. ASSUME NEW i \in 1 .. n, f[i - 1] = g[i - 1] PROVE f[i] = g[i]
  <2>1. i \in 0 .. n /\ i # 0
    OBVIOUS
  <2>2. f[i] = Advance(f[i - 1], s[i], separator, opening)
    BY <1>7, <2>1
  <2> QED
    BY <1>1, <1>9, <2>2 DEF IsScan
<1> HIDE DEF body
<1>10. \A i \in 0 .. n : f[i] = g[i]
  <2>1. n \in Nat
    BY <1>1
  <2>2. \A i \in 1 .. n : f[i - 1] = g[i - 1] => f[i] = g[i]
    BY <1>9
  <2> QED
    BY <1>8, <2>1, <2>2, AlikeThroughout, SMTT(30)
<1> QED
  BY <1>1, <1>2, <1>6, <1>10

(* Parts that begin with w.                                                *)
Pad(w, ps) == [i \in DOMAIN ps |-> IF i = 1 THEN w \o ps[i] ELSE ps[i]]

(* They are as many, and only the first differs.                           *)
LEMMA PadType ==
    ASSUME NEW M, NEW w \in Seq(M), NEW ps \in Parts(M)
    PROVE  /\ Pad(w, ps) \in Seq(Seq(M)) /\ Len(Pad(w, ps)) = Len(ps)
           /\ \A i \in 1 .. Len(ps) : Pad(w, ps)[i] = IF i = 1 THEN w \o ps[i] ELSE ps[i]
           /\ Len(ps) \in Nat \ {0} /\ Len(ps) \in 1 .. Len(ps)
<1>1. ps \in Seq(Seq(M)) /\ ps # << >>
  BY DEF Parts
<1>2. \A x \in Seq(M) : w \o x \in Seq(M)
  OBVIOUS
<1>3. PICK S : S = Seq(M)
  OBVIOUS
<1>4. \A q \in Seq(S) : Len(q) \in Nat /\ DOMAIN q = 1 .. Len(q) /\ (q # << >> => Len(q) # 0)
  OBVIOUS
<1>5. \A q \in Seq(S) : \A i \in 1 .. Len(q) : q[i] \in S
  OBVIOUS
<1>6. PICK n : n = Len(ps)
  OBVIOUS
<1>7. n \in Nat /\ DOMAIN ps = 1 .. n /\ n # 0 /\ \A i \in 1 .. n : ps[i] \in S
  BY <1>1, <1>3, <1>4, <1>5, <1>6
<1>8. PICK q : q = Pad(w, ps)
  OBVIOUS
<1>9. q = [i \in 1 .. n |-> IF i = 1 THEN w \o ps[i] ELSE ps[i]]
  BY <1>7, <1>8 DEF Pad
<1>10. \A i \in 1 .. n : (IF i = 1 THEN w \o ps[i] ELSE ps[i]) \in S
  BY <1>2, <1>3, <1>7
<1>11. q \in Seq(S) /\ Len(q) = n
  BY <1>7, <1>9, <1>10, IsASeq
<1> QED
  BY <1>3, <1>6, <1>7, <1>8, <1>9, <1>11

(* Sequences over a set behave; S stands for sequences themselves.         *)
LEMMA SequencesOver ==
    ASSUME NEW S
    PROVE  /\ \A q \in Seq(S) : Len(q) \in Nat
           /\ \A q \in Seq(S) : \A i \in 1 .. Len(q) : q[i] \in S
           /\ \A q \in Seq(S), x \in S :
                /\ Append(q, x) \in Seq(S) /\ Len(Append(q, x)) = Len(q) + 1
                /\ Append(q, x)[Len(q) + 1] = x
                /\ \A i \in 1 .. Len(q) : Append(q, x)[i] = q[i]
           /\ \A q, r \in Seq(S) :
                /\ q \o r \in Seq(S) /\ Len(q \o r) = Len(q) + Len(r)
                /\ \A i \in 1 .. Len(q) : (q \o r)[i] = q[i]
                /\ \A i \in 1 .. Len(r) : (q \o r)[Len(q) + i] = r[i]
           /\ \A q \in Seq(S), x \in S : \A i \in 1 .. Len(q) :
                /\ [q EXCEPT ![i] = x] \in Seq(S) /\ Len([q EXCEPT ![i] = x]) = Len(q)
                /\ [q EXCEPT ![i] = x][i] = x
                /\ \A j \in 1 .. Len(q) \ {i} : [q EXCEPT ![i] = x][j] = q[j]
<1>1. \A q \in Seq(S) : Len(q) \in Nat
  OBVIOUS
<1>2. \A q \in Seq(S) : \A i \in 1 .. Len(q) : q[i] \in S
  OBVIOUS
<1>3. ASSUME NEW q \in Seq(S), NEW x \in S
      PROVE  /\ Append(q, x) \in Seq(S) /\ Len(Append(q, x)) = Len(q) + 1
             /\ Append(q, x)[Len(q) + 1] = x
             /\ \A i \in 1 .. Len(q) : Append(q, x)[i] = q[i]
  BY AppendProperties
<1>4. ASSUME NEW q \in Seq(S), NEW r \in Seq(S)
      PROVE  /\ q \o r \in Seq(S) /\ Len(q \o r) = Len(q) + Len(r)
             /\ \A i \in 1 .. Len(q) : (q \o r)[i] = q[i]
             /\ \A i \in 1 .. Len(r) : (q \o r)[Len(q) + i] = r[i]
  OBVIOUS
<1>5. ASSUME NEW q \in Seq(S), NEW x \in S, NEW i \in 1 .. Len(q)
      PROVE  /\ [q EXCEPT ![i] = x] \in Seq(S) /\ Len([q EXCEPT ![i] = x]) = Len(q)
             /\ [q EXCEPT ![i] = x][i] = x
             /\ \A j \in 1 .. Len(q) \ {i} : [q EXCEPT ![i] = x][j] = q[j]
  BY ExceptSeq
<1> QED
  BY <1>1, <1>2, <1>3, <1>4, <1>5

(* What the loop does to the parts: begin one, go on with the last one.    *)
Opened(ps) == Append(ps, << >>)
Replaced(ps, x) == [ps EXCEPT ![Len(ps)] = x]
Extended(ps, t) == Replaced(ps, Append(Last(ps), t))
Behind(A, ps) == A \o ps

(* One sequence behind another.                                            *)
IsBehind(S, A, P, Q) ==
    /\ Q \in Seq(S) /\ Len(Q) = Len(A) + Len(P)
    /\ \A i \in 1 .. Len(A) : Q[i] = A[i]
    /\ \A i \in 1 .. Len(P) : Q[Len(A) + i] = P[i]

(* Concatenation is that.                                                  *)
LEMMA BehindIs ==
    ASSUME NEW S, NEW A \in Seq(S), NEW P \in Seq(S)
    PROVE  IsBehind(S, A, P, Behind(A, P))
BY DEF Behind, IsBehind

(* Appending to a sequence appends to any sequence it ends,                *)
LEMMA OpenedBehind ==
    ASSUME NEW S, << >> \in S, NEW A \in Seq(S), NEW P \in Seq(S)
    PROVE  Opened(Behind(A, P)) = Behind(A, Opened(P))
BY DEF Opened, Behind

(* and so does replacing its last element.                                 *)
LEMMA ReplacedBehind ==
    ASSUME NEW S, NEW A \in Seq(S), NEW P \in Seq(S), NEW x \in S, P # << >>
    PROVE  /\ Last(Behind(A, P)) = Last(P)
           /\ Replaced(Behind(A, P), x) = Behind(A, Replaced(P, x))
<1>1. PICK n \in Nat, m \in Nat : n = Len(A) /\ m = Len(P) /\ m # 0
  OBVIOUS
<1>2. PICK r : r = [P EXCEPT ![m] = x]
  OBVIOUS
<1>3. PICK u : u = A \o P
  OBVIOUS
<1>l. PICK l : l = [u EXCEPT ![n + m] = x]
  OBVIOUS
<1>4. /\ u \in Seq(S) /\ Len(u) = n + m
      /\ \A i \in 1 .. n : u[i] = A[i]
      /\ \A i \in 1 .. m : u[n + i] = P[i]
  BY <1>1, <1>3
<1>5. /\ r \in Seq(S) /\ Len(r) = m /\ r[m] = x
      /\ \A i \in 1 .. m : i # m => r[i] = P[i]
  BY <1>1, <1>2
<1>6. /\ l \in Seq(S) /\ Len(l) = n + m /\ l[n + m] = x
      /\ \A i \in 1 .. n + m : i # n + m => l[i] = u[i]
  <2>1. n + m \in 1 .. Len(u)
    BY <1>1, <1>4
  <2> QED
    BY <1>4, <1>l, <2>1, SequencesOver
<1>7. PICK v : v = A \o r
  OBVIOUS
<1>8. /\ v \in Seq(S) /\ Len(v) = n + m
      /\ \A i \in 1 .. n : v[i] = A[i]
      /\ \A i \in 1 .. m : v[n + i] = r[i]
  <2>1. r \in Seq(S) /\ Len(r) = m /\ Len(A) = n
    BY <1>1, <1>5
  <2>2. /\ A \o r \in Seq(S) /\ Len(A \o r) = Len(A) + Len(r)
        /\ \A i \in 1 .. Len(A) : (A \o r)[i] = A[i]
        /\ \A i \in 1 .. Len(r) : (A \o r)[Len(A) + i] = r[i]
    BY <2>1
  <2> QED
    BY <1>7, <2>1, <2>2
<1>9. ASSUME NEW i \in 1 .. n + m PROVE l[i] = v[i]
  <2>1. CASE i \in 1 .. n
    <3>1. i # n + m
      BY <1>1, <2>1
    <3>2. l[i] = u[i]
      BY <1>6, <3>1
    <3>3. u[i] = A[i] /\ v[i] = A[i]
      BY <1>4, <1>8, <2>1
    <3> QED
      BY <3>2, <3>3
  <2>2. CASE i \notin 1 .. n
    <3>1. PICK j : j = i - n
      OBVIOUS
    <3>2. j \in 1 .. m /\ i = n + j /\ (j = m <=> i = n + m)
      BY <1>1, <2>2, <3>1
    <3> QED
      BY <1>4, <1>5, <1>6, <1>8, <3>2
  <2> QED
    BY <2>1, <2>2
<1>10. l = v
  BY <1>6, <1>8, <1>9, SeqEqual
<1>11. u[n + m] = P[m]
  BY <1>1, <1>4
<1> QED
  BY <1>1, <1>2, <1>3, <1>l, <1>4, <1>7, <1>10, <1>11 DEF Last, Behind, Replaced

(* Beginning a part, or adding to the last one, does not mind the padding. *)
LEMMA PadAppend ==
    ASSUME NEW M, NEW w \in Seq(M), NEW ps \in Parts(M)
    PROVE  Pad(w, Opened(ps)) = Opened(Pad(w, ps))
<1>x. PICK x : x = << >>
  OBVIOUS
<1>1. PICK S : S = Seq(M) /\ x \in S
  BY <1>x, EmptySeq
<1>2. PICK m : m = Len(ps)
  OBVIOUS
<1>q. PICK qs : qs = Append(ps, x)
  OBVIOUS
<1>3. PICK p : p = Pad(w, ps)
  OBVIOUS
<1>a. PICK q : q = Pad(w, qs)
  OBVIOUS
<1>b. PICK r : r = Append(p, x)
  OBVIOUS
<1>4. /\ p \in Seq(S) /\ Len(p) = m /\ m \in Nat \ {0}
      /\ \A i \in 1 .. m : p[i] = IF i = 1 THEN w \o ps[i] ELSE ps[i]
  <2>1. /\ Pad(w, ps) \in Seq(Seq(M)) /\ Len(Pad(w, ps)) = Len(ps) /\ Len(ps) \in Nat \ {0}
        /\ \A i \in 1 .. Len(ps) : Pad(w, ps)[i] = IF i = 1 THEN w \o ps[i] ELSE ps[i]
    BY PadType
  <2> QED
    BY <1>1, <1>2, <1>3, <2>1
<1>5. /\ qs \in Seq(S) /\ qs # << >> /\ Len(qs) = m + 1 /\ qs[m + 1] = x
      /\ \A i \in 1 .. m : qs[i] = ps[i]
  <2>1. ps \in Seq(S)
    BY <1>1 DEF Parts
  <2> QED
    <3>1. /\ Append(ps, x) \in Seq(S) /\ Append(ps, x) # << >>
          /\ Len(Append(ps, x)) = Len(ps) + 1
          /\ \A i \in 1 .. Len(ps) : Append(ps, x)[i] = ps[i]
          /\ Append(ps, x)[Len(ps) + 1] = x
      BY <1>1, <2>1, AppendProperties
    <3> QED
      BY <1>2, <1>q, <3>1
<1>6. qs \in Parts(M)
  BY <1>1, <1>5 DEF Parts
<1>7. /\ q \in Seq(S) /\ Len(q) = Len(qs)
      /\ \A i \in 1 .. Len(qs) : q[i] = IF i = 1 THEN w \o qs[i] ELSE qs[i]
  <2>1. /\ Pad(w, qs) \in Seq(Seq(M)) /\ Len(Pad(w, qs)) = Len(qs)
        /\ \A i \in 1 .. Len(qs) : Pad(w, qs)[i] = IF i = 1 THEN w \o qs[i] ELSE qs[i]
    BY <1>6, PadType
  <2> QED
    BY <1>1, <1>a, <2>1
<1>8. /\ r \in Seq(S) /\ Len(r) = m + 1 /\ r[m + 1] = x
      /\ \A i \in 1 .. m : r[i] = p[i]
  BY <1>1, <1>b, <1>4, AppendProperties
<1>9. ASSUME NEW i \in 1 .. m + 1 PROVE q[i] = r[i]
  <2>0. q[i] = IF i = 1 THEN w \o qs[i] ELSE qs[i]
    BY <1>5, <1>7
  <2>1. CASE i \in 1 .. m
    <3>1. qs[i] = ps[i] /\ r[i] = p[i]
      BY <1>5, <1>8, <2>1
    <3>2. p[i] = IF i = 1 THEN w \o ps[i] ELSE ps[i]
      BY <1>4, <2>1
    <3> QED
      BY <2>0, <3>1, <3>2
  <2>2. CASE i = m + 1
    <3>1. i # 1
      BY <1>4, <2>2
    <3>2. qs[i] = x /\ r[i] = x
      BY <1>5, <1>8, <2>2
    <3> QED
      BY <2>0, <3>1, <3>2
  <2> QED
    BY <1>4, <2>1, <2>2
<1>10. q = r
  <2>1. Len(q) = Len(r) /\ \A i \in 1 .. Len(q) : q[i] = r[i]
    BY <1>5, <1>7, <1>8, <1>9
  <2> QED
    BY <1>7, <1>8, <2>1, SeqEqual
<1> QED
  BY <1>x, <1>q, <1>3, <1>a, <1>b, <1>10 DEF Opened

(* ... and lengthening its last part.                                      *)
LEMMA PadExcept ==
    ASSUME NEW M, NEW w \in Seq(M), NEW ps \in Parts(M), NEW t \in M
    PROVE  Pad(w, Extended(ps, t)) = Extended(Pad(w, ps), t)
<1>1. PICK S : S = Seq(M)
  OBVIOUS
<1>2. PICK m : m = Len(ps)
  OBVIOUS
<1>3. PICK x : x = Append(ps[m], t)
  OBVIOUS
<1>4. PICK p : p = Pad(w, ps)
  OBVIOUS
<1>5. /\ p \in Seq(S) /\ Len(p) = m /\ m \in Nat \ {0} /\ m \in 1 .. m
      /\ \A i \in 1 .. m : p[i] = IF i = 1 THEN w \o ps[i] ELSE ps[i]
  BY <1>1, <1>2, <1>4, PadType
<1>6. ps \in Seq(S) /\ ps[m] \in S
  BY <1>1, <1>2, <1>5, SequencesOver DEF Parts
<1>7. x \in S /\ Append(w \o ps[m], t) = w \o x /\ w \o x \in S
  <2>1. PICK v \in Seq(M) : v = ps[m]
    BY <1>1, <1>6
  <2>2. w \o v \in Seq(M) /\ << t >> \in Seq(M)
    OBVIOUS
  <2>a. Append(w \o v, t) = (w \o v) \o << t >> /\ Append(v, t) = v \o << t >>
    BY <2>2, AppendIsConcat
  <2>b. Append(w \o v, t) = w \o Append(v, t)
    BY <2>2, <2>a, ConcatAssociative
  <2>3. Append(v, t) \in Seq(M) /\ w \o Append(v, t) \in Seq(M)
    OBVIOUS
  <2> QED
    BY <1>1, <1>3, <2>1, <2>b, <2>3
<1>8. PICK y : y = Append(p[m], t)
  OBVIOUS
<1>9. y = IF m = 1 THEN w \o x ELSE x
  BY <1>3, <1>5, <1>7, <1>8
<1>10. PICK qs : qs = [ps EXCEPT ![m] = x]
  OBVIOUS
<1>r. PICK r : r = [p EXCEPT ![m] = y]
  OBVIOUS
<1>11. /\ qs \in Seq(S) /\ Len(qs) = m /\ qs[m] = x
       /\ \A i \in 1 .. m \ {m} : qs[i] = ps[i]
  BY <1>2, <1>5, <1>6, <1>7, <1>10, SequencesOver
<1>12. /\ r \in Seq(S) /\ Len(r) = m /\ r[m] = y
       /\ \A i \in 1 .. m \ {m} : r[i] = p[i]
  BY <1>5, <1>7, <1>9, <1>r, SequencesOver
<1>13. qs \in Parts(M)
  BY <1>1, <1>5, <1>11 DEF Parts
<1>14. PICK q : q = Pad(w, qs)
  OBVIOUS
<1>15. /\ q \in Seq(S) /\ Len(q) = m
       /\ \A i \in 1 .. m : q[i] = IF i = 1 THEN w \o qs[i] ELSE qs[i]
  <2>1. /\ Pad(w, qs) \in Seq(Seq(M)) /\ Len(Pad(w, qs)) = Len(qs)
        /\ \A i \in 1 .. Len(qs) : Pad(w, qs)[i] = IF i = 1 THEN w \o qs[i] ELSE qs[i]
    BY <1>13, PadType
  <2> QED
    BY <1>1, <1>11, <1>14, <2>1
<1>16. ASSUME NEW i \in 1 .. m PROVE q[i] = r[i]
  <2>1. q[i] = IF i = 1 THEN w \o qs[i] ELSE qs[i]
    BY <1>15
  <2>2. CASE i = m
    <3>1. qs[i] = x /\ r[i] = y
      BY <1>11, <1>12, <2>2
    <3> QED
      BY <1>9, <2>1, <2>2, <3>1
  <2>3. CASE i # m
    <3>1. qs[i] = ps[i] /\ r[i] = p[i]
      BY <1>11, <1>12, <2>3
    <3>2. p[i] = IF i = 1 THEN w \o ps[i] ELSE ps[i]
      BY <1>5
    <3> QED
      BY <2>1, <3>1, <3>2
  <2> QED
    BY <2>2, <2>3
<1>17. q = r
  BY <1>12, <1>15, <1>16, SeqEqual
<1>18. qs = Extended(ps, t)
  BY <1>2, <1>3, <1>10 DEF Extended, Replaced, Last
<1>19. r = Extended(Pad(w, ps), t)
  BY <1>4, <1>5, <1>8, <1>r DEF Extended, Replaced, Last
<1> QED
  BY <1>14, <1>17, <1>18, <1>19

(* The loop goes on in the same way behind other parts.                    *)
Shifted(A, w, st) == [parts |-> Behind(A, Pad(w, st.parts)), inside |-> st.inside]

(* Each step of the loop commutes with that.                               *)
LEMMA ShiftedAdvance ==
    ASSUME NEW M, NEW separator, NEW opening, NEW A \in Seq(Seq(M)), NEW w \in Seq(M),
           NEW st \in States(M, opening), NEW t \in M
    PROVE  Advance(Shifted(A, w, st), t, separator, opening)
             = Shifted(A, w, Advance(st, t, separator, opening))
<1>0. << >> \in Seq(M)
  OBVIOUS
<1>1. PICK S : S = Seq(M) /\ A \in Seq(S) /\ << >> \in S
  BY <1>0, Zenon
<1>2. PICK ps, in : ps = st.parts /\ in = st.inside
  OBVIOUS
<1>3. ps \in Parts(M)
  BY <1>2 DEF States
<1>4. PICK p : p = Pad(w, ps)
  OBVIOUS
<1>5. p \in Seq(S) /\ p # << >>
  <2>1. /\ Pad(w, ps) \in Seq(Seq(M)) /\ Len(Pad(w, ps)) = Len(ps) /\ Len(ps) # 0
    BY <1>3, PadType
  <2> QED
    BY <1>1, <1>4, <2>1
<1>6. PICK u : u = Behind(A, p)
  OBVIOUS
<1>7. Shifted(A, w, st) = [parts |-> u, inside |-> in]
  BY <1>2, <1>4, <1>6 DEF Shifted
<1>8. CASE in = "nothing" /\ t = separator
  <2>1. Advance(st, t, separator, opening) = [parts |-> Opened(ps), inside |-> "nothing"]
    BY <1>2, <1>8 DEF Advance, Opened
  <2>2. Advance(Shifted(A, w, st), t, separator, opening) = [parts |-> Opened(u), inside |-> "nothing"]
    BY <1>7, <1>8 DEF Advance, Opened
  <2>3. Pad(w, Opened(ps)) = Opened(p)
    BY <1>3, <1>4, PadAppend
  <2>4. Opened(u) = Behind(A, Opened(p))
    BY <1>1, <1>5, <1>6, OpenedBehind
  <2> QED
    BY <2>1, <2>2, <2>3, <2>4 DEF Shifted
<1>9. CASE ~(in = "nothing" /\ t = separator)
  <2>1. PICK then : then = Inside(in, t, opening)
    OBVIOUS
  <2>2. Advance(st, t, separator, opening) = [parts |-> Extended(ps, t), inside |-> then]
    BY <1>2, <1>9, <2>1 DEF Advance, Extended, Replaced, Last
  <2>3. Advance(Shifted(A, w, st), t, separator, opening) = [parts |-> Extended(u, t), inside |-> then]
    BY <1>7, <1>9, <2>1 DEF Advance, Extended, Replaced, Last
  <2>4. Pad(w, Extended(ps, t)) = Extended(p, t)
    BY <1>3, <1>4, PadExcept
  <2>5. Extended(u, t) = Behind(A, Extended(p, t))
    <3>1. PICK x : x = Append(Last(p), t)
      OBVIOUS
    <3>2. x \in S
      <4>1. \A z \in Seq(M) : Append(z, t) \in Seq(M)
        OBVIOUS
      <4>2. Last(p) \in S
        BY <1>5 DEF Last
      <4> QED
        BY <1>1, <3>1, <4>1, <4>2
    <3>3. Last(Behind(A, p)) = Last(p) /\ Replaced(Behind(A, p), x) = Behind(A, Replaced(p, x))
      BY <1>1, <1>5, <3>2, ReplacedBehind
    <3> QED
      BY <1>6, <3>1, <3>3 DEF Extended
  <2> QED
    BY <2>2, <2>3, <2>4, <2>5 DEF Shifted
<1> QED
  BY <1>8, <1>9

Glued(a, separator, x, b) == a \o << separator, x >> \o b

(* Two texts joined by a separator and one more element x: the parts of    *)
(* the first, then those of the second, which x begins.                    *)
LEMMA ScanJoined ==
    ASSUME NEW M, NEW a \in Seq(M), NEW b \in Seq(M), NEW separator \in M, NEW x \in M,
           NEW opening, x # separator, x \notin opening,
           Scan(a, separator, opening).inside = "nothing"
    PROVE  /\ Scan(a, separator, opening) \in States(M, opening)
           /\ Scan(b, separator, opening) \in States(M, opening)
           /\ Scan(Glued(a, separator, x, b), separator, opening)
                = Shifted(Scan(a, separator, opening).parts, << x >>, Scan(b, separator, opening))
<1> DEFINE Next_(st, t) == Advance(st, t, separator, opening)
<1>1. PICK n \in Nat, m \in Nat : n = Len(a) /\ m = Len(b) /\ n \in 0 .. n /\ m \in 0 .. m
  OBVIOUS
<1>2. PICK g \in [0 .. n -> States(M, opening)] : IsScan(g, a, separator, opening)
  BY <1>1, ScanExists
<1>3. PICK h \in [0 .. m -> States(M, opening)] : IsScan(h, b, separator, opening)
  BY <1>1, ScanExists
<1>4. Scan(a, separator, opening) = g[n] /\ Scan(b, separator, opening) = h[m]
  BY <1>1, <1>2, <1>3, ScanIs
<1>5. g[n] \in States(M, opening) /\ h[m] \in States(M, opening)
  BY <1>1, <1>2, <1>3
<1>6. PICK A : A = g[n].parts
  OBVIOUS
<1>7. A \in Seq(Seq(M)) /\ g[n].inside = "nothing"
  BY <1>4, <1>5, <1>6 DEF States, Parts
<1>8. PICK w : w = << x >>
  OBVIOUS
<1>9. w \in Seq(M)
  BY <1>8
<1>10. PICK u : u = a \o << separator, x >> \o b
  OBVIOUS
<1>11. /\ u \in Seq(M) /\ Len(u) = n + 2 + m
       /\ \A i \in 1 .. n : u[i] = a[i]
       /\ u[n + 1] = separator /\ u[n + 2] = x
       /\ \A i \in 1 .. m : u[n + 2 + i] = b[i]
  BY <1>1, <1>10
<1>12. PICK cut : cut = [parts |-> Append(A, << >>), inside |-> "nothing"]
  OBVIOUS
<1>13. PICK f : f = [i \in 0 .. n + 2 + m |-> IF i <= n THEN g[i]
                       ELSE IF i = n + 1 THEN cut ELSE Shifted(A, w, h[i - n - 2])]
  OBVIOUS
<1>14. /\ \A i \in 0 .. n : f[i] = g[i]
       /\ f[n + 1] = cut
       /\ \A i \in 0 .. m : f[n + 2 + i] = Shifted(A, w, h[i])
  <2>1. ASSUME NEW i \in 0 .. m PROVE f[n + 2 + i] = Shifted(A, w, h[i])
    <3>1. PICK j : j = n + 2 + i
      OBVIOUS
    <3>2. j \in 0 .. n + 2 + m /\ ~(j <= n) /\ j # n + 1 /\ j - n - 2 = i
      BY <1>1, <3>1
    <3>3. f[j] = Shifted(A, w, h[i])
      BY <1>13, <3>2
    <3> QED
      BY <3>1, <3>3
  <2> QED
    BY <1>1, <1>13, <2>1
<1>15. f[0] = Begun
  BY <1>1, <1>2, <1>14 DEF IsScan
<1>16. Next_(g[n], separator) = cut
  BY <1>6, <1>7, <1>12 DEF Advance
<1>17. Next_(cut, x) = Shifted(A, w, h[0])
  <2>1. PICK p : p = Append(A, << >>)
    OBVIOUS
  <2>2. PICK q : q = [p EXCEPT ![Len(p)] = Append(@, x)]
    OBVIOUS
  <2>3. Next_(cut, x) = [parts |-> q, inside |-> Inside("nothing", x, opening)]
    BY <1>12, <2>1, <2>2 DEF Advance
  <2>4. Inside("nothing", x, opening) = "nothing"
    BY DEF Inside
  <2>5. h[0] = Begun
    BY <1>3 DEF IsScan
  <2>6. Shifted(A, w, h[0]) = [parts |-> A \o Pad(w, << << >> >>), inside |-> "nothing"]
    BY <2>5 DEF Shifted, Begun, Behind
  <2>7. Pad(w, << << >> >>) = << w >>
    <3>1. PICK e : e = << << >> >>
      OBVIOUS
    <3>2. DOMAIN e = 1 .. 1 /\ e[1] = << >>
      BY <3>1
    <3>3. Pad(w, e) = [i \in 1 .. 1 |-> IF i = 1 THEN w \o << >> ELSE e[i]]
      BY <3>2 DEF Pad
    <3>4. w \o << >> = w
      BY <1>8
    <3>5. Pad(w, e) = [i \in 1 .. 1 |-> w]
      BY <3>3, <3>4
    <3> QED
      BY <3>1, <3>5
  <2>8. q = A \o << w >>
    <3>1. PICK S : S = Seq(M) /\ << >> \in S
      OBVIOUS
    <3>2. PICK k \in Nat : k = Len(A)
      BY <1>7
    <3>3. p \in Seq(S) /\ Len(p) = k + 1 /\ p[k + 1] = << >> /\ \A i \in 1 .. k : p[i] = A[i]
      BY <1>7, <2>1, <3>1, <3>2, AppendProperties
    <3>4. Append(<< >>, x) = w
      BY <1>8
    <3>5. q = [p EXCEPT ![k + 1] = w]
      BY <2>2, <3>3, <3>4
    <3>6. q \in Seq(S) /\ Len(q) = k + 1 /\ q[k + 1] = w /\ \A i \in 1 .. k : q[i] = A[i]
      <4>1. k + 1 \in 1 .. Len(p) /\ w \in S
        BY <1>9, <3>1, <3>2, <3>3
      <4>2. /\ q \in Seq(S) /\ Len(q) = k + 1 /\ q[k + 1] = w
            /\ \A i \in 1 .. k + 1 \ {k + 1} : q[i] = p[i]
        BY <3>3, <3>5, <4>1, SequencesOver
      <4>3. ASSUME NEW i \in 1 .. k PROVE q[i] = A[i]
        <5>1. i \in 1 .. k + 1 \ {k + 1}
          BY <3>2
        <5> QED
          BY <3>3, <4>2, <5>1
      <4> QED
        BY <4>2, <4>3
    <3>7. PICK r : r = A \o << w >>
      OBVIOUS
    <3>8. r \in Seq(S) /\ Len(r) = k + 1 /\ r[k + 1] = w /\ \A i \in 1 .. k : r[i] = A[i]
      BY <1>7, <1>9, <3>1, <3>2, <3>7
    <3>9. ASSUME NEW i \in 1 .. k + 1 PROVE q[i] = r[i]
      <4>1. i \in 1 .. k \/ i = k + 1
        BY <3>2
      <4> QED
        BY <3>6, <3>8, <4>1
    <3>10. q = r
      BY <3>6, <3>8, <3>9, SeqEqual
    <3> QED
      BY <3>7, <3>10
  <2> QED
    BY <2>3, <2>4, <2>6, <2>7, <2>8
<1>18. ASSUME NEW i \in 1 .. n + 2 + m PROVE f[i] = Next_(f[i - 1], u[i])
  <2>1. CASE i <= n
    <3>1. i \in 1 .. n /\ i \in 0 .. n /\ i - 1 \in 0 .. n
      BY <1>1, <2>1
    <3>2. g[i] = Next_(g[i - 1], a[i])
      BY <1>1, <1>2, <3>1 DEF IsScan
    <3> QED
      BY <1>11, <1>14, <3>1, <3>2
  <2>2. CASE i = n + 1
    <3>1. i - 1 = n
      BY <1>1, <2>2
    <3> QED
      BY <1>1, <1>11, <1>14, <1>16, <2>2, <3>1
  <2>3. CASE i = n + 2
    <3>1. i - 1 = n + 1 /\ 0 \in 0 .. m /\ n + 2 + 0 = n + 2
      BY <1>1, <2>3
    <3>2. f[n + 2] = Shifted(A, w, h[0])
      BY <1>14, <3>1
    <3> QED
      BY <1>11, <1>14, <1>17, <2>3, <3>1, <3>2
  <2>4. CASE i > n + 2
    <3>1. PICK j : j = i - n - 2
      OBVIOUS
    <3>2. j \in 1 .. m /\ j \in 0 .. m /\ j - 1 \in 0 .. m /\ i = n + 2 + j /\ i - 1 = n + 2 + (j - 1)
      BY <1>1, <2>4, <3>1
    <3>3. h[j] = Next_(h[j - 1], b[j]) /\ b[j] \in M /\ h[j - 1] \in States(M, opening)
      <4>1. h[j] = Next_(h[j - 1], b[j])
        BY <1>1, <1>3, <3>2 DEF IsScan
      <4>2. b[j] \in M
        BY <1>1, <3>2
      <4>3. h[j - 1] \in States(M, opening)
        BY <1>1, <1>3, <3>2
      <4> QED
        BY <4>1, <4>2, <4>3
    <3>4. Next_(Shifted(A, w, h[j - 1]), b[j]) = Shifted(A, w, h[j])
      BY <1>7, <1>9, <3>3, ShiftedAdvance
    <3>5. f[n + 2 + j] = Shifted(A, w, h[j]) /\ f[n + 2 + (j - 1)] = Shifted(A, w, h[j - 1])
      BY <1>14, <3>2
    <3>6. u[n + 2 + j] = b[j]
      BY <1>11, <3>2
    <3> QED
      BY <3>2, <3>4, <3>5, <3>6
  <2> QED
    BY <1>1, <2>1, <2>2, <2>3, <2>4
<1>19. IsScan(f, u, separator, opening)
  BY <1>11, <1>15, <1>18 DEF IsScan
<1>20. Scan(u, separator, opening) = f[n + 2 + m]
  <2>1. u \in Seq(M) /\ Len(u) = n + 2 + m
    BY <1>11
  <2>2. Scan(u, separator, opening) = f[Len(u)]
    BY <1>19, <2>1, ScanIs
  <2> QED
    BY <2>1, <2>2
<1>21. f[n + 2 + m] = Shifted(A, w, h[m])
  BY <1>1, <1>14
<1> QED
  BY <1>4, <1>5, <1>6, <1>8, <1>10, <1>20, <1>21 DEF Glued

-----------------------------------------------------------------------------
(* Blanks around an entry.                                                 *)

(* The least and the greatest of a set of indices.                         *)
LEMMA Bounds ==
    ASSUME NEW n \in Nat, NEW X, X \subseteq 1 .. n, X # {}
    PROVE  /\ Min(X) \in X /\ \A y \in X : Min(X) <= y
           /\ Max(X) \in X /\ \A y \in X : Max(X) >= y
<1>1. \E i \in X : \A y \in X : i <= y
  BY LeastIndex
<1>2. \E i \in X : \A y \in X : i >= y
  <2>1. PICK Y : Y = {n + 1 - y : y \in X}
    OBVIOUS
  <2>2. Y \subseteq 1 .. n /\ Y # {}
    <3>1. \A y \in X : n + 1 - y \in 1 .. n
      <4>1. \A y \in 1 .. n : n + 1 - y \in 1 .. n
        OBVIOUS
      <4> QED
        BY <4>1
    <3> QED
      BY <2>1, <3>1
  <2>3. PICK j \in Y : \A y \in Y : j <= y
    BY <2>2, LeastIndex
  <2>4. PICK i \in X : j = n + 1 - i
    BY <2>1
  <2>5. ASSUME NEW y \in X PROVE i >= y
    <3>1. n + 1 - y \in Y
      BY <2>1
    <3>2. n + 1 - i <= n + 1 - y
      BY <2>3, <2>4, <3>1
    <3>3. i \in 1 .. n /\ y \in 1 .. n
      OBVIOUS
    <3> QED
      BY <3>2, <3>3
  <2> QED
    BY <2>5
<1> QED
  BY <1>1, <1>2 DEF Min, Max

(* And no other is.                                                        *)
LEMMA BoundsAre ==
    ASSUME NEW n \in Nat, NEW X, X \subseteq 1 .. n, NEW a \in X, NEW b \in X,
           \A y \in X : a <= y /\ y <= b
    PROVE  Min(X) = a /\ Max(X) = b
<1>1. /\ Min(X) \in X /\ \A y \in X : Min(X) <= y
      /\ Max(X) \in X /\ \A y \in X : Max(X) >= y
  BY Bounds
<1>2. Min(X) <= a /\ a <= Min(X) /\ Max(X) >= b /\ b >= Max(X)
  BY <1>1
<1>3. Min(X) \in 1 .. n /\ Max(X) \in 1 .. n /\ a \in 1 .. n /\ b \in 1 .. n
  BY <1>1
<1> QED
  BY <1>2, <1>3

(* A part of a sequence, one element of it, and all.                       *)
Cut(s, a, b) == SubSeq(s, a, b)
IsCut(M, s, a, b, v) ==
    /\ v \in Seq(M) /\ Len(v) = b - a + 1
    /\ \A i \in 1 .. b - a + 1 : v[i] = s[a + i - 1]

(* SubSeq cuts within the bounds,                                          *)
LEMMA Slice ==
    ASSUME NEW M, NEW s \in Seq(M), NEW a \in 1 .. Len(s), NEW b \in 1 .. Len(s), a <= b
    PROVE  IsCut(M, s, a, b, Cut(s, a, b))
<1>1. a \in Int /\ b \in Int /\ \A i \in a .. b : s[i] \in M
  OBVIOUS
<1>2. /\ SubSeq(s, a, b) \in Seq(M)
      /\ Len(SubSeq(s, a, b)) = IF a <= b THEN b - a + 1 ELSE 0
      /\ \A i \in 1 .. b - a + 1 : SubSeq(s, a, b)[i] = s[a + i - 1]
  BY <1>1, SubSeqProperties
<1> QED
  BY <1>2 DEF Cut, IsCut

(* down to one element                                                     *)
LEMMA SliceOne ==
    ASSUME NEW M, NEW s \in Seq(M), NEW a \in 1 .. Len(s)
    PROVE  SubSeq(s, a, a) = << s[a] >>
<1>1. PICK v : v = SubSeq(s, a, a)
  OBVIOUS
<1>2. v \in Seq(M) /\ Len(v) = a - a + 1 /\ \A i \in 1 .. a - a + 1 : v[i] = s[a + i - 1]
  <2>1. IsCut(M, s, a, a, Cut(s, a, a))
    BY Slice
  <2> QED
    BY <1>1, <2>1 DEF Cut, IsCut
<1>3. Len(v) = 1 /\ v[1] = s[a]
  BY <1>2
<1>4. v = << v[1] >>
  BY <1>2, <1>3
<1> QED
  BY <1>1, <1>3, <1>4

(* or not at all.                                                          *)
LEMMA SliceAll ==
    ASSUME NEW M, NEW s \in Seq(M), NEW n, n = Len(s)
    PROVE  SubSeq(s, 1, n) = s
OBVIOUS

Solid(s) == {i \in DOMAIN s : s[i] # Blank}

(* TrimSpace cuts from the first to the last that is not a blank,          *)
LEMMA TrimIs ==
    ASSUME NEW M, NEW s \in Seq(M), NEW a \in Solid(s), NEW b \in Solid(s),
           \A y \in Solid(s) : a <= y /\ y <= b
    PROVE  Trim(s) = SubSeq(s, a, b)
<1>1. Len(s) \in Nat /\ Solid(s) \subseteq 1 .. Len(s)
  BY DEF Solid
<1>2. Min(Solid(s)) = a /\ Max(Solid(s)) = b
  BY <1>1, BoundsAre
<1> QED
  BY <1>2 DEF Trim, Solid

(* so that a blank more does not matter.                                   *)
LEMMA TrimShift ==
    ASSUME NEW M, NEW f \in Seq(M), Blank \in M
    PROVE  Trim(<< Blank >> \o f) = Trim(f)
<1>1. PICK n \in Nat : n = Len(f)
  OBVIOUS
<1>2. PICK g : g = << Blank >> \o f
  OBVIOUS
<1>3. g \in Seq(M) /\ Len(g) = n + 1 /\ g[1] = Blank /\ \A i \in 1 .. n : g[i + 1] = f[i]
  BY <1>1, <1>2
<1>4. PICK X : X = Solid(f)
  OBVIOUS
<1>5. X \subseteq 1 .. n
  BY <1>1, <1>4 DEF Solid
<1>6. ASSUME NEW y PROVE y \in Solid(g) <=> \E i \in X : y = i + 1
  <2>1. ASSUME y \in Solid(g) PROVE \E i \in X : y = i + 1
    <3>1. y \in 1 .. n + 1 /\ g[y] # Blank
      BY <1>3, <2>1 DEF Solid
    <3>2. y # 1
      BY <1>3, <3>1
    <3>3. PICK i : i = y - 1
      OBVIOUS
    <3>4. i \in 1 .. n /\ y = i + 1
      BY <3>1, <3>2, <3>3
    <3>5. f[i] # Blank
      BY <1>3, <3>1, <3>4
    <3> QED
      BY <1>1, <1>4, <3>4, <3>5 DEF Solid
  <2>2. ASSUME NEW i \in X, y = i + 1 PROVE y \in Solid(g)
    <3>1. i \in 1 .. n /\ f[i] # Blank
      BY <1>1, <1>4 DEF Solid
    <3>2. y \in 1 .. n + 1 /\ g[y] # Blank
      BY <1>3, <2>2, <3>1
    <3> QED
      BY <1>3, <3>2 DEF Solid
  <2> QED
    BY <2>1, <2>2
<1>7. CASE X = {}
  <2>1. Solid(g) = {}
    BY <1>6, <1>7
  <2> QED
    BY <1>2, <1>4, <1>7, <2>1 DEF Trim, Solid
<1>8. CASE X # {}
  <2>1. PICK a, b : a = Min(X) /\ b = Max(X)
    OBVIOUS
  <2>2. a \in X /\ b \in X /\ \A y \in X : a <= y /\ b >= y
    BY <1>5, <1>8, <2>1, Bounds
  <2>3. a \in 1 .. n /\ b \in 1 .. n
    BY <1>5, <2>2
  <2>4. a + 1 \in Solid(g) /\ b + 1 \in Solid(g)
    BY <1>6, <2>2
  <2>5. ASSUME NEW y \in Solid(g) PROVE a + 1 <= y /\ y <= b + 1
    <3>1. PICK i \in X : y = i + 1
      BY <1>6
    <3>2. i \in 1 .. n
      BY <1>5
    <3> QED
      BY <2>2, <2>3, <3>1, <3>2
  <2>6. Trim(g) = SubSeq(g, a + 1, b + 1)
    BY <1>3, <2>4, <2>5, TrimIs
  <2>7. Trim(f) = SubSeq(f, a, b)
    BY <1>4, <2>1, <1>8 DEF Trim, Solid
  <2>8. SubSeq(g, a + 1, b + 1) = SubSeq(f, a, b)
    <3>1. PICK u, v : u = SubSeq(g, a + 1, b + 1) /\ v = SubSeq(f, a, b)
      OBVIOUS
    <3>2. PICK m \in Nat : m = b - a + 1
      BY <2>2, <2>3
    <3>3. u \in Seq(M) /\ Len(u) = m /\ \A i \in 1 .. m : u[i] = g[i + a]
      <4>1. a + 1 \in Int /\ b + 1 \in Int /\ \A i \in a + 1 .. b + 1 : g[i] \in M
        BY <1>3, <2>3
      <4>2. /\ SubSeq(g, a + 1, b + 1) \in Seq(M)
            /\ Len(SubSeq(g, a + 1, b + 1)) = IF a + 1 <= b + 1 THEN (b + 1) - (a + 1) + 1 ELSE 0
            /\ \A i \in 1 .. (b + 1) - (a + 1) + 1 : SubSeq(g, a + 1, b + 1)[i] = g[(a + 1) + i - 1]
        BY <4>1, SubSeqProperties
      <4>3. (b + 1) - (a + 1) + 1 = m /\ a + 1 <= b + 1 /\ \A i \in 1 .. m : (a + 1) + i - 1 = i + a
        BY <2>2, <2>3, <3>2
      <4> QED
        BY <3>1, <4>2, <4>3
    <3>4. v \in Seq(M) /\ Len(v) = m /\ \A i \in 1 .. m : v[i] = f[i + a - 1]
      <4>1. a \in Int /\ b \in Int /\ \A i \in a .. b : f[i] \in M
        BY <1>1, <2>3
      <4>2. /\ SubSeq(f, a, b) \in Seq(M)
            /\ Len(SubSeq(f, a, b)) = IF a <= b THEN b - a + 1 ELSE 0
            /\ \A i \in 1 .. b - a + 1 : SubSeq(f, a, b)[i] = f[a + i - 1]
        BY <4>1, SubSeqProperties
      <4>3. b - a + 1 = m /\ a <= b /\ \A i \in 1 .. m : a + i - 1 = i + a - 1
        BY <2>2, <2>3, <3>2
      <4> QED
        BY <3>1, <4>2, <4>3
    <3>5. ASSUME NEW i \in 1 .. m PROVE u[i] = v[i]
      <4>1. PICK j : j = i + a - 1
        OBVIOUS
      <4>2. j \in 1 .. n /\ i + a = j + 1
        BY <2>2, <2>3, <3>2, <4>1
      <4>3. g[j + 1] = f[j]
        BY <1>3, <4>2
      <4> QED
        BY <3>3, <3>4, <4>1, <4>2, <4>3
    <3>6. u = v
      BY <3>3, <3>4, <3>5, SeqEqual
    <3> QED
      BY <3>1, <3>6
  <2> QED
    BY <1>2, <2>6, <2>7, <2>8
<1> QED
  BY <1>7, <1>8

-----------------------------------------------------------------------------
(* The links of a header.                                                  *)

(* What is parsed depends on what is left when blanks are cut off.         *)
LEMMA ParseShift ==
    ASSUME NEW M, NEW f \in Seq(M), Blank \in M
    PROVE  ParseLink(<< Blank >> \o f) = ParseLink(f)
BY TrimShift DEF ParseLink

LinkSet == {ParseLink(f)[1] : f \in Seq(Token)}

(* An entry is one link or none.                                           *)
LEMMA ParseLinkType ==
    ASSUME NEW f \in Seq(Token)
    PROVE  ParseLink(f) \in Seq(LinkSet) /\ (ParseLink(f) = << >> \/ ParseLink(f) = << ParseLink(f)[1] >>)
<1>1. PICK p : p = ParseLink(f)
  OBVIOUS
<1>2. p = << >> \/ \E r : p = << r >>
  BY <1>1 DEF ParseLink, LinkIn
<1>3. p = << >> \/ p = << p[1] >>
  BY <1>2
<1>4. p[1] \in LinkSet
  BY <1>1 DEF LinkSet
<1>5. << >> \in Seq(LinkSet) /\ << p[1] >> \in Seq(LinkSet)
  BY <1>4
<1> QED
  BY <1>1, <1>3, <1>5

(* The links of one field of the header, and of several.                   *)
LinksIn(value) == UNION {Range(ParseLink(f)) : f \in Range(SplitLinkFields(value))}
LinksOf(values) == UNION {LinksIn(values[i]) : i \in 1 .. Len(values)}

(* A field is split into entries.                                          *)
LEMMA ScanType ==
    ASSUME NEW M, NEW s \in Seq(M), NEW separator, NEW opening
    PROVE  /\ Scan(s, separator, opening) \in States(M, opening)
           /\ Split(s, separator, opening) \in Parts(M)
<1>1. PICK n \in Nat : n = Len(s)
  OBVIOUS
<1>2. PICK g \in [0 .. n -> States(M, opening)] : IsScan(g, s, separator, opening)
  BY <1>1, ScanExists
<1>3. Scan(s, separator, opening) = g[n]
  BY <1>1, <1>2, ScanIs
<1>4. g[n] \in States(M, opening)
  BY <1>1, <1>2
<1>5. g[n].parts \in Parts(M)
  BY <1>4 DEF States
<1> QED
  BY <1>3, <1>4, <1>5 DEF Split

(* What parseLinks answers are these links.                                *)
LEMMA ParseLinksRange ==
    ASSUME NEW values \in Seq(Seq(Token))
    PROVE  ParseLinks(values) \in Seq(LinkSet) /\ Range(ParseLinks(values)) = LinksOf(values)
<1>1. PICK M, S : M = Token /\ S = Seq(M)
  OBVIOUS
<1>2. PICK n \in Nat : n = Len(values)
  OBVIOUS
<1>3. PICK cut : cut = [i \in DOMAIN values |-> SplitLinkFields(values[i])]
  OBVIOUS
<1>4. DOMAIN values = 1 .. n /\ \A i \in 1 .. n : values[i] \in S
  BY <1>1, <1>2
<1>5. \A i \in 1 .. n : SplitLinkFields(values[i]) \in Seq(S)
  <2>1. ASSUME NEW v \in S PROVE SplitLinkFields(v) \in Seq(S)
    BY <1>1, ScanType DEF SplitLinkFields, Parts
  <2> QED
    BY <1>4, <2>1
<1>6. cut \in Seq(Seq(S)) /\ Len(cut) = n /\ \A i \in 1 .. n : cut[i] = SplitLinkFields(values[i])
  <2>1. cut = [i \in 1 .. n |-> SplitLinkFields(values[i])]
    BY <1>3, <1>4
  <2>2. PICK Q : Q = Seq(S)
    OBVIOUS
  <2>3. cut \in [1 .. n -> Q]
    BY <1>5, <2>1, <2>2
  <2>4. cut \in Seq(Q) /\ Len(cut) = n
    BY <2>1, <1>5, <2>2, IsASeq
  <2> QED
    BY <2>1, <2>2, <2>4
<1>7. PICK fields : fields = FlattenSeq(cut)
  OBVIOUS
<1>8. fields \in Seq(S) /\ Range(fields) = UNION {Range(cut[i]) : i \in 1 .. Len(cut)}
  BY <1>6, <1>7, FlattenType, FlattenRange
<1>9. PICK m \in Nat : m = Len(fields) /\ DOMAIN fields = 1 .. m /\ \A i \in 1 .. m : fields[i] \in S
  <2>1. Len(fields) \in Nat /\ DOMAIN fields = 1 .. Len(fields) /\ \A i \in 1 .. Len(fields) : fields[i] \in S
    BY <1>8
  <2> QED
    BY <2>1
<1>10. PICK L : L = LinkSet
  OBVIOUS
<1>11. PICK parsed : parsed = [i \in DOMAIN fields |-> ParseLink(fields[i])]
  OBVIOUS
<1>12. \A i \in 1 .. m : ParseLink(fields[i]) \in Seq(L)
  BY <1>1, <1>9, <1>10, ParseLinkType
<1>13. parsed \in Seq(Seq(L)) /\ Len(parsed) = m /\ \A i \in 1 .. m : parsed[i] = ParseLink(fields[i])
  <2>1. parsed = [i \in 1 .. m |-> ParseLink(fields[i])]
    BY <1>9, <1>11
  <2>2. PICK Q : Q = Seq(L)
    OBVIOUS
  <2>3. parsed \in Seq(Q) /\ Len(parsed) = m
    BY <2>1, <1>12, <2>2, IsASeq
  <2> QED
    BY <2>1, <2>2, <2>3
<1>14. PICK links : links = FlattenSeq(parsed)
  OBVIOUS
<1>15. links \in Seq(L) /\ Range(links) = UNION {Range(parsed[i]) : i \in 1 .. Len(parsed)}
  BY <1>13, <1>14, FlattenType, FlattenRange
<1>16. links = ParseLinks(values)
  BY <1>3, <1>7, <1>11, <1>14 DEF ParseLinks
<1>17. Range(links) = LinksOf(values)
  <2>1. ASSUME NEW l PROVE l \in Range(links) <=> l \in LinksOf(values)
    <3>1. l \in Range(links) <=> \E i \in 1 .. m : l \in Range(ParseLink(fields[i]))
      BY <1>13, <1>15
    <3>2. Range(fields) = {fields[i] : i \in 1 .. m}
      BY <1>9 DEF Range
    <3>3. l \in Range(links) <=> \E f \in Range(fields) : l \in Range(ParseLink(f))
      BY <3>1, <3>2
    <3>4. \A f : f \in Range(fields) <=> \E i \in 1 .. n : f \in Range(SplitLinkFields(values[i]))
      BY <1>6, <1>8
    <3>5. l \in Range(links) <=> \E i \in 1 .. n : \E f \in Range(SplitLinkFields(values[i])) :
                                   l \in Range(ParseLink(f))
      BY <3>3, <3>4
    <3>6. \A i \in 1 .. n : l \in LinksIn(values[i]) <=>
            \E f \in Range(SplitLinkFields(values[i])) : l \in Range(ParseLink(f))
      BY DEF LinksIn
    <3>7. l \in LinksOf(values) <=> \E i \in 1 .. n : l \in LinksIn(values[i])
      BY <1>2 DEF LinksOf
    <3> QED
      BY <3>5, <3>6, <3>7
  <2> QED
    BY <2>1
<1> QED
  BY <1>10, <1>15, <1>16, <1>17

(* Joining two whole fields joins their links, and gives a whole field.    *)
LEMMA JoinedLinks ==
    ASSUME NEW a \in Seq(Token), NEW b \in Seq(Token), Closed(a), Closed(b),
           NEW joined, joined = OneField(a, b)
    PROVE  /\ joined \in Seq(Token) /\ Closed(joined)
           /\ LinksIn(joined) = LinksIn(a) \cup LinksIn(b)
<1>1. "," \in Token /\ Blank \in Token
  BY DEF Token
<1>2. PICK M : M = Token
  OBVIOUS
<1>3. joined \in Seq(Token)
  <2>1. ASSUME NEW c \in Token, NEW d \in Token PROVE Glued(a, c, d, b) \in Seq(Token)
    BY DEF Glued
  <2>2. joined = Glued(a, ",", Blank, b)
    BY DEF Glued, OneField
  <2> QED
    BY <1>1, <2>1, <2>2
<1>4. PICK opening : opening = {Quote, "<"}
  OBVIOUS
<1>c. PICK comma, blank : comma = "," /\ blank = Blank
  OBVIOUS
<1>5. blank # comma /\ blank \notin opening /\ comma \in M /\ blank \in M
  BY <1>1, <1>2, <1>c, <1>4 DEF Blank, Quote
<1>6. PICK sa, sb : sa = Scan(a, comma, opening) /\ sb = Scan(b, comma, opening)
  OBVIOUS
<1>7. sa.inside = "nothing" /\ sb.inside = "nothing"
  BY <1>4, <1>c, <1>6 DEF Closed
<1>j. joined = Glued(a, comma, blank, b)
  BY <1>c DEF Glued, OneField
<1>13. PICK w \in Seq(M) : w = << blank >>
  <2>1. << blank >> \in Seq(M)
    BY <1>5
  <2> QED
    BY <2>1
<1>8. /\ sa \in States(M, opening) /\ sb \in States(M, opening)
      /\ Scan(joined, comma, opening) = Shifted(sa.parts, w, sb)
  <2>1. a \in Seq(M) /\ b \in Seq(M) /\ Scan(a, comma, opening).inside = "nothing"
    BY <1>2, <1>6, <1>7
  <2>2. /\ Scan(a, comma, opening) \in States(M, opening)
        /\ Scan(b, comma, opening) \in States(M, opening)
        /\ Scan(Glued(a, comma, blank, b), comma, opening)
             = Shifted(Scan(a, comma, opening).parts, << blank >>, Scan(b, comma, opening))
    BY <1>5, <2>1, ScanJoined
  <2> QED
    BY <1>6, <1>j, <1>13, <2>2
<1>9. Closed(joined)
  <2>1. Scan(joined, comma, opening).inside = sb.inside
    BY <1>8 DEF Shifted
  <2> QED
    BY <1>4, <1>c, <1>7, <2>1 DEF Closed
<1>10. PICK ps, qs : ps = sa.parts /\ qs = sb.parts
  OBVIOUS
<1>11. ps \in Parts(M) /\ qs \in Parts(M)
  BY <1>8, <1>10 DEF States
<1>12. /\ SplitLinkFields(a) = ps /\ SplitLinkFields(b) = qs
       /\ SplitLinkFields(joined) = ps \o Pad(w, qs)
  <2>1. \A s : SplitLinkFields(s) = Scan(s, comma, opening).parts
    BY <1>4, <1>c DEF SplitLinkFields, Split
  <2>2. Shifted(ps, w, sb).parts = ps \o Pad(w, qs)
    BY <1>10 DEF Shifted, Behind
  <2> QED
    BY <1>6, <1>8, <1>10, <2>1, <2>2
<1>14. PICK r : r = Pad(w, qs)
  OBVIOUS
<1>15. /\ r \in Seq(Seq(M)) /\ Len(r) = Len(qs)
       /\ \A i \in 1 .. Len(qs) : r[i] = IF i = 1 THEN w \o qs[i] ELSE qs[i]
  <2>1. /\ Pad(w, qs) \in Seq(Seq(M)) /\ Len(Pad(w, qs)) = Len(qs)
        /\ \A i \in 1 .. Len(qs) : Pad(w, qs)[i] = IF i = 1 THEN w \o qs[i] ELSE qs[i]
    BY <1>11, PadType
  <2> QED
    BY <1>14, <2>1
<1>16. Range(ps \o r) = Range(ps) \cup Range(r)
  <2>1. ps \in Seq(Seq(M))
    BY <1>11 DEF Parts
  <2> QED
    BY <1>15, <2>1, RangeConcatenation
<1>17. \A i \in 1 .. Len(qs) : ParseLink(r[i]) = ParseLink(qs[i])
  <2>1. ASSUME NEW f \in Seq(M) PROVE ParseLink(w \o f) = ParseLink(f)
    BY <1>5, <1>c, <1>13, ParseShift
  <2>2. \A i \in 1 .. Len(qs) : qs[i] \in Seq(M)
    BY <1>11 DEF Parts
  <2> QED
    BY <1>15, <2>1, <2>2
<1>18. ASSUME NEW l
       PROVE (\E f \in Range(r) : l \in Range(ParseLink(f)))
               <=> (\E f \in Range(qs) : l \in Range(ParseLink(f)))
  <2>1. Range(r) = {r[i] : i \in 1 .. Len(qs)} /\ Range(qs) = {qs[i] : i \in 1 .. Len(qs)}
    <3>1. DOMAIN r = 1 .. Len(qs) /\ DOMAIN qs = 1 .. Len(qs)
      BY <1>11, <1>15 DEF Parts
    <3> QED
      BY <3>1 DEF Range
  <2> QED
    BY <1>17, <2>1
<1>19. LinksIn(joined) = LinksIn(a) \cup LinksIn(b)
  <2>1. ASSUME NEW l PROVE l \in LinksIn(joined) <=> l \in LinksIn(a) \/ l \in LinksIn(b)
    <3>1. l \in LinksIn(joined) <=> \E f \in Range(ps) \cup Range(r) : l \in Range(ParseLink(f))
      BY <1>12, <1>14, <1>16 DEF LinksIn
    <3>2. l \in LinksIn(a) <=> \E f \in Range(ps) : l \in Range(ParseLink(f))
      BY <1>12 DEF LinksIn
    <3>3. l \in LinksIn(b) <=> \E f \in Range(qs) : l \in Range(ParseLink(f))
      BY <1>12 DEF LinksIn
    <3> QED
      BY <1>18, <3>1, <3>2, <3>3
  <2> QED
    BY <2>1
<1> QED
  BY <1>3, <1>9, <1>19

-----------------------------------------------------------------------------
(* The link of the descriptor itself.                                      *)

(* `in` says where the loop is, and it meets no separator outside.         *)
Uncut(in, s, separator, opening) ==
    /\ in[0] = "nothing"
    /\ \A i \in 1 .. Len(s) :
         /\ in[i] = Inside(in[i - 1], s[i], opening)
         /\ in[i - 1] # "nothing" \/ s[i] # separator

(* Then s is one part.                                                     *)
LEMMA ScanUncut ==
    ASSUME NEW M, NEW s \in Seq(M), NEW separator, NEW opening,
           NEW in, Uncut(in, s, separator, opening)
    PROVE  Scan(s, separator, opening) = [parts |-> << s >>, inside |-> in[Len(s)]]
<1>1. PICK n \in Nat : n = Len(s)
  OBVIOUS
<1>2. PICK pre : pre = [i \in 0 .. n |-> SubSeq(s, 1, i)]
  OBVIOUS
<1>3. PICK g : g = [i \in 0 .. n |-> [parts |-> << pre[i] >>, inside |-> in[i]]]
  OBVIOUS
<1>4. pre[0] = << >> /\ pre[n] = s
  <2>1. 0 \in 0 .. n /\ n \in 0 .. n
    BY <1>1
  <2>2. SubSeq(s, 1, 0) = << >> /\ SubSeq(s, 1, n) = s
    BY <1>1
  <2> QED
    BY <1>2, <2>1, <2>2
<1>5. ASSUME NEW i \in 1 .. n PROVE pre[i] = Append(pre[i - 1], s[i])
  <2>1. i \in 0 .. n /\ i - 1 \in 0 .. n /\ i <= Len(s)
    BY <1>1
  <2>2. SubSeq(s, 1, i) = Append(SubSeq(s, 1, i - 1), s[i])
    <3>1. PICK u : u = SubSeq(s, 1, i)
      OBVIOUS
    <3>2. PICK v : v = SubSeq(s, 1, i - 1)
      OBVIOUS
    <3>3. u \in Seq(M) /\ Len(u) = i /\ \A j \in 1 .. i : u[j] = s[j]
      BY <1>1, <3>1
    <3>4. v \in Seq(M) /\ Len(v) = i - 1 /\ \A j \in 1 .. i - 1 : v[j] = s[j]
      BY <1>1, <3>2
    <3>5. PICK r : r = Append(v, s[i])
      OBVIOUS
    <3>6. r \in Seq(M) /\ Len(r) = i /\ r[i] = s[i] /\ \A j \in 1 .. i - 1 : r[j] = s[j]
      <4>1. s[i] \in M
        BY <1>1
      <4> QED
        BY <3>4, <3>5, <4>1
    <3>7. ASSUME NEW j \in 1 .. i PROVE u[j] = r[j]
      <4>1. j \in 1 .. i - 1 \/ j = i
        OBVIOUS
      <4> QED
        BY <3>3, <3>6, <4>1
    <3>8. u = r
      BY <3>3, <3>6, <3>7, SeqEqual
    <3> QED
      BY <3>1, <3>2, <3>5, <3>8
  <2> QED
    BY <1>2, <2>1, <2>2
<1>6. g[0] = Begun
  <2>1. 0 \in 0 .. n
    BY <1>1
  <2> QED
    BY <1>3, <1>4, <2>1 DEF Begun, Uncut
<1>7. ASSUME NEW i \in 1 .. n PROVE g[i] = Advance(g[i - 1], s[i], separator, opening)
  <2>1. i \in 0 .. n /\ i - 1 \in 0 .. n
    BY <1>1
  <2>2. PICK p, q : p = << pre[i - 1] >> /\ q = << pre[i] >>
    OBVIOUS
  <2>3. g[i - 1] = [parts |-> p, inside |-> in[i - 1]] /\ g[i] = [parts |-> q, inside |-> in[i]]
    BY <1>3, <2>1, <2>2
  <2>4. in[i] = Inside(in[i - 1], s[i], opening) /\ (in[i - 1] # "nothing" \/ s[i] # separator)
    BY <1>1 DEF Uncut
  <2>5. Extended(p, s[i]) = q
    <3>1. PICK x, y : x = pre[i - 1] /\ y = pre[i]
      OBVIOUS
    <3>2. y = Append(x, s[i]) /\ p = << x >> /\ q = << y >>
      BY <1>5, <2>2, <3>1
    <3>3. [<< x >> EXCEPT ![1] = y] = << y >>
      OBVIOUS
    <3>4. Len(p) = 1 /\ p[1] = x
      BY <3>2
    <3> QED
      BY <3>2, <3>3, <3>4 DEF Extended, Replaced, Last
  <2>6. \A t : in[i - 1] # "nothing" \/ t # separator =>
          Advance([parts |-> p, inside |-> in[i - 1]], t, separator, opening)
            = [parts |-> Extended(p, t), inside |-> Inside(in[i - 1], t, opening)]
    BY DEF Advance, Extended, Replaced, Last
  <2> QED
    BY <2>3, <2>4, <2>5, <2>6
<1>8. IsScan(g, s, separator, opening)
  BY <1>1, <1>6, <1>7 DEF IsScan
<1>9. Scan(s, separator, opening) = g[n]
  BY <1>1, <1>8, ScanIs
<1>10. n \in 0 .. n
  BY <1>1
<1> QED
  BY <1>1, <1>3, <1>4, <1>9, <1>10

(* The first of the marks.                                                 *)
LEMMA FirstIs ==
    ASSUME NEW M, NEW s \in Seq(M), NEW mark, NEW a \in 1 .. Len(s), s[a] = mark,
           \A i \in 1 .. a - 1 : s[i] # mark
    PROVE  First(s, mark) = a
<1> DEFINE I == {i \in 1 .. Len(s) : s[i] = mark}
<1>1. Len(s) \in Nat
  OBVIOUS
<1>2. a \in I /\ I \subseteq 1 .. Len(s)
  OBVIOUS
<1>3. Min(I) \in I /\ \A y \in I : Min(I) <= y
  BY <1>1, <1>2, Bounds
<1>4. Min(I) <= a /\ Min(I) \in 1 .. Len(s) /\ s[Min(I)] = mark
  BY <1>2, <1>3
<1>5. Min(I) \notin 1 .. a - 1
  BY <1>4
<1>6. Min(I) = a
  BY <1>1, <1>4, <1>5
<1>7. First(s, mark) = IF I # {} THEN Min(I) ELSE 0
  BY DEF First, SelectInSeq
<1> QED
  BY <1>2, <1>6, <1>7

(* The marks by name, and where the loop is when it is in none of them.    *)
Less == "<"
Greater == ">"
Comma == ","
Semicolon == ";"
Equals == "="
Rel == "rel"
Nothing == "nothing"

(* They are told apart.                                                    *)
LEMMA Marks ==
    /\ \A a \in {Less, Greater, Comma, Semicolon, Equals, Blank, Quote, Rel, ViewRel} :
         a \in Token /\ a # Nothing
    /\ Quote \notin {Less, Greater, Comma, Semicolon, Equals, Blank, Rel, ViewRel}
    /\ Blank \notin {Less, Greater, Comma, Semicolon, Equals, Rel, ViewRel}
    /\ Less \notin {Greater, Comma, Semicolon, Equals, Rel, ViewRel}
    /\ Greater \notin {Comma, Semicolon, Equals, Rel, ViewRel}
    /\ Comma \notin {Semicolon, Equals, Rel, ViewRel}
    /\ Semicolon \notin {Equals, Rel, ViewRel}
    /\ Equals \notin {Rel, ViewRel}
BY DEF Token, Quote, Blank, ViewRel, Less, Greater, Comma, Semicolon, Equals, Rel, Nothing

(* Where the loop is after t.                                              *)
LEMMA InsideIs ==
    ASSUME NEW in, NEW t, NEW opening
    PROVE  Inside(in, t, opening) =
             IF in = Nothing THEN IF t \in opening THEN t ELSE Nothing
             ELSE IF t = (IF in = Less THEN Greater ELSE Quote) THEN Nothing ELSE in
BY DEF Inside, Nothing, Less, Greater

Own == FormatLinkHeader(LinkText)

(* The text of the descriptor's own entry.                                 *)
LEMMA OwnText ==
    ASSUME NEW n, n = Len(LinkText)
    PROVE  /\ n \in Nat /\ Own \in Seq(Token) /\ Len(Own) = n + 9
           /\ Own[1] = Less /\ (\A i \in 1 .. n : Own[i + 1] = LinkText[i] /\ Own[i + 1] # Greater)
           /\ Own[n + 2] = Greater /\ Own[n + 3] = Semicolon /\ Own[n + 4] = Blank /\ Own[n + 5] = Rel
           /\ Own[n + 6] = Equals /\ Own[n + 7] = Quote /\ Own[n + 8] = ViewRel /\ Own[n + 9] = Quote
<1>1. LinkText \in Seq(Token) /\ Greater \notin Range(LinkText)
  BY LinkAssumption DEF Greater
<1>2. n \in Nat /\ \A i \in 1 .. n : LinkText[i] # Greater
  BY <1>1 DEF Range
<1>3. PICK M, url : M = Token /\ url = LinkText
  OBVIOUS
<1>4. /\ Less \in M /\ Greater \in M /\ Semicolon \in M /\ Blank \in M
      /\ Rel \in M /\ Equals \in M /\ Quote \in M /\ ViewRel \in M
  BY <1>3, Marks
<1>5. PICK a : a = << Less >>
  OBVIOUS
<1>6. a \in Seq(M) /\ Len(a) = 1 /\ a[1] = Less
  BY <1>4, <1>5
<1>7. PICK c : c = << Greater, Semicolon, Blank, Rel, Equals, Quote, ViewRel, Quote >>
  OBVIOUS
<1>8. /\ c \in Seq(M) /\ Len(c) = 8
      /\ c[1] = Greater /\ c[2] = Semicolon /\ c[3] = Blank /\ c[4] = Rel
      /\ c[5] = Equals /\ c[6] = Quote /\ c[7] = ViewRel /\ c[8] = Quote
  BY <1>4, <1>7
<1>9. PICK b : b = Behind(a, url)
  OBVIOUS
<1>10. b \in Seq(M) /\ Len(b) = 1 + n /\ b[1] = Less /\ \A i \in 1 .. n : b[1 + i] = url[i]
  <2>1. url \in Seq(M) /\ Len(url) = n
    BY <1>1, <1>3
  <2>2. IsBehind(M, a, url, b)
    BY <1>6, <1>9, <2>1, BehindIs
  <2> QED
    BY <1>6, <2>1, <2>2 DEF IsBehind
<1>11. Own = Behind(b, c)
  BY <1>3, <1>5, <1>7, <1>9 DEF Own, FormatLinkHeader, Behind, Less, Greater, Semicolon, Equals, Rel
<1>12. PICK F : F = Own
  OBVIOUS
<1>13. IsBehind(M, b, c, F)
  BY <1>8, <1>10, <1>11, <1>12, BehindIs
<1>14. /\ F \in Seq(M) /\ Len(F) = n + 9
       /\ \A i \in 1 .. 1 + n : F[i] = b[i]
       /\ \A i \in 1 .. 8 : F[1 + n + i] = c[i]
  BY <1>2, <1>8, <1>10, <1>13 DEF IsBehind
<1>15. /\ F[n + 2] = c[1] /\ F[n + 3] = c[2] /\ F[n + 4] = c[3] /\ F[n + 5] = c[4]
       /\ F[n + 6] = c[5] /\ F[n + 7] = c[6] /\ F[n + 8] = c[7] /\ F[n + 9] = c[8]
  BY <1>2, <1>14
<1>16. F[1] = Less
  BY <1>2, <1>10, <1>14
<1>17. ASSUME NEW i \in 1 .. n PROVE F[i + 1] = LinkText[i] /\ F[i + 1] # Greater
  <2>1. 1 + i \in 1 .. 1 + n /\ 1 + i = i + 1
    BY <1>2
  <2> QED
    BY <1>2, <1>3, <1>10, <1>14, <2>1
<1> QED
  BY <1>2, <1>3, <1>8, <1>12, <1>14, <1>15, <1>16, <1>17

(* It is one entry, and whole.                                             *)
LEMMA OwnEntry ==
    Own \in Seq(Token) /\ Closed(Own) /\ SplitLinkFields(Own) = << Own >>
<1>1. PICK n : n = Len(LinkText)
  OBVIOUS
<1>2. PICK F : F = Own
  OBVIOUS
<1>3. /\ n \in Nat /\ F \in Seq(Token) /\ Len(F) = n + 9
      /\ F[1] = Less /\ (\A i \in 1 .. n : F[i + 1] # Greater)
      /\ F[n + 2] = Greater /\ F[n + 3] = Semicolon /\ F[n + 4] = Blank /\ F[n + 5] = Rel
      /\ F[n + 6] = Equals /\ F[n + 7] = Quote /\ F[n + 8] = ViewRel /\ F[n + 9] = Quote
  BY <1>1, <1>2, OwnText
<1>4. PICK in : in = [i \in 0 .. n + 9 |-> IF i \in 1 .. n + 1 THEN Less
                                           ELSE IF i \in {n + 7, n + 8} THEN Quote ELSE Nothing]
  OBVIOUS
<1>5. /\ in[0] = Nothing /\ (\A i \in 1 .. n + 1 : in[i] = Less)
      /\ (\A i \in n + 2 .. n + 6 : in[i] = Nothing)
      /\ in[n + 7] = Quote /\ in[n + 8] = Quote /\ in[n + 9] = Nothing
  BY <1>3, <1>4
<1>6. PICK opening : opening = {Quote, Less}
  OBVIOUS
<1>n. n \in Nat
  BY <1>3
<1>7. ASSUME NEW i \in 1 .. n + 9
      PROVE  in[i] = Inside(in[i - 1], F[i], opening) /\ (in[i - 1] # Nothing \/ F[i] # Comma)
  <2>1. CASE i = 1
    <3>0. i - 1 = 0 /\ 1 \in 1 .. n + 1
      BY <1>n, <2>1
    <3>1. in[i - 1] = Nothing /\ in[i] = Less /\ F[i] = Less
      BY <1>3, <1>5, <2>1, <3>0
    <3> QED
      BY <1>6, <3>1, Marks, InsideIs
  <2>2. CASE i \in 2 .. n + 1
    <3>1. i - 1 \in 1 .. n /\ i = (i - 1) + 1 /\ i \in 1 .. n + 1 /\ i - 1 \in 1 .. n + 1
      BY <1>3, <2>2
    <3>2. F[i] # Greater /\ in[i] = Less /\ in[i - 1] = Less
      BY <1>3, <1>5, <3>1
    <3> QED
      BY <3>2, Marks, InsideIs
  <2>3. CASE i = n + 2
    <3>0. n + 1 \in 1 .. n + 1 /\ n + 2 \in n + 2 .. n + 6 /\ i - 1 = n + 1
      BY <1>n, <2>3
    <3>1. in[n + 1] = Less /\ in[n + 2] = Nothing /\ i - 1 = n + 1
      BY <1>5, <3>0
    <3> QED
      BY <1>3, <2>3, <3>1, Marks, InsideIs
  <2>4. CASE i \in {n + 3, n + 4, n + 5, n + 6}
    <3>1. i \in n + 2 .. n + 6 /\ i - 1 \in n + 2 .. n + 6
      BY <1>3, <2>4
    <3>2. in[i] = Nothing /\ in[i - 1] = Nothing
      BY <1>5, <3>1
    <3>3. F[i] \in {Semicolon, Blank, Rel, Equals}
      BY <1>3, <2>4
    <3> QED
      BY <1>6, <3>2, <3>3, Marks, InsideIs
  <2>5. CASE i = n + 7
    <3>1. n + 6 \in n + 2 .. n + 6 /\ i - 1 = n + 6
      BY <1>3, <2>5
    <3>2. in[i - 1] = Nothing /\ in[i] = Quote /\ F[i] = Quote
      BY <1>3, <1>5, <2>5, <3>1
    <3> QED
      BY <1>6, <3>2, Marks, InsideIs
  <2>6. CASE i = n + 8
    <3>1. i - 1 = n + 7
      BY <1>3, <2>6
    <3>2. in[i - 1] = Quote /\ in[i] = Quote /\ F[i] = ViewRel
      BY <1>3, <1>5, <2>6, <3>1
    <3> QED
      BY <3>2, Marks, InsideIs
  <2>7. CASE i = n + 9
    <3>1. i - 1 = n + 8
      BY <1>3, <2>7
    <3>2. in[i - 1] = Quote /\ in[i] = Nothing /\ F[i] = Quote
      BY <1>3, <1>5, <2>7, <3>1
    <3> QED
      BY <3>2, Marks, InsideIs
  <2>8. i = 1 \/ i \in 2 .. n + 1 \/ i = n + 2 \/ i \in {n + 3, n + 4, n + 5, n + 6}
          \/ i = n + 7 \/ i = n + 8 \/ i = n + 9
    BY <1>3
  <2> QED
    BY <2>1, <2>2, <2>3, <2>4, <2>5, <2>6, <2>7, <2>8
<1>8. Uncut(in, F, Comma, opening)
  BY <1>3, <1>5, <1>7 DEF Uncut, Nothing
<1>9. Scan(F, Comma, opening) = [parts |-> << F >>, inside |-> Nothing]
  BY <1>3, <1>5, <1>8, ScanUncut
<1> QED
  <2>1. \A s : Closed(s) <=> Scan(s, Comma, opening).inside = Nothing
    BY <1>6 DEF Closed, Comma, Less, Nothing
  <2>2. \A s : SplitLinkFields(s) = Scan(s, Comma, opening).parts
    BY <1>6 DEF SplitLinkFields, Split, Comma, Less
  <2> QED
    BY <1>2, <1>3, <1>9, <2>1, <2>2

(* What follows the URL in it, and the parameter in that.                  *)
OwnRest == << Semicolon, Blank, Rel, Equals, Quote, ViewRel, Quote >>
OwnParam == << Blank, Rel, Equals, Quote, ViewRel, Quote >>

(* The URL is what stands in the angle brackets.                           *)
LEMMA OwnURL ==
    /\ Trim(Own) = Own
    /\ First(Own, Greater) = Len(LinkText) + 2
    /\ SubSeq(Own, 2, Len(LinkText) + 1) = LinkText
    /\ SubSeq(Own, Len(LinkText) + 3, Len(Own)) = OwnRest
<1>1. PICK n : n = Len(LinkText)
  OBVIOUS
<1>2. PICK F : F = Own
  OBVIOUS
<1>3. /\ n \in Nat /\ F \in Seq(Token) /\ Len(F) = n + 9
      /\ F[1] = Less /\ (\A i \in 1 .. n : F[i + 1] = LinkText[i] /\ F[i + 1] # Greater)
      /\ F[n + 2] = Greater /\ F[n + 3] = Semicolon /\ F[n + 4] = Blank /\ F[n + 5] = Rel
      /\ F[n + 6] = Equals /\ F[n + 7] = Quote /\ F[n + 8] = ViewRel /\ F[n + 9] = Quote
  BY <1>1, <1>2, OwnText
<1>n. n \in Nat /\ F \in Seq(Token) /\ Len(F) = n + 9
  BY <1>3
<1>4. Trim(F) = F
  <2>1. 1 \in Solid(F) /\ n + 9 \in Solid(F)
    <3>1. Less # Blank /\ Quote # Blank
      BY Marks
    <3>2. 1 \in 1 .. n + 9 /\ n + 9 \in 1 .. n + 9 /\ DOMAIN F = 1 .. n + 9
      BY <1>n
    <3> QED
      BY <1>3, <3>1, <3>2 DEF Solid
  <2>2. \A y \in Solid(F) : 1 <= y /\ y <= n + 9
    BY <1>n DEF Solid
  <2>3. Trim(F) = SubSeq(F, 1, n + 9)
    BY <1>n, <2>1, <2>2, TrimIs
  <2>4. SubSeq(F, 1, Len(F)) = F
    BY <1>n
  <2> QED
    BY <1>n, <2>3, <2>4
<1>5. First(F, Greater) = n + 2
  <2>1. ASSUME NEW i \in 1 .. (n + 2) - 1 PROVE F[i] # Greater
    <3>1. CASE i = 1
      BY <1>3, <3>1, Marks
    <3>2. CASE i # 1
      <4>1. i - 1 \in 1 .. n /\ (i - 1) + 1 = i
        BY <1>n, <3>2
      <4> QED
        BY <1>3, <4>1
    <3> QED
      BY <3>1, <3>2
  <2>2. n + 2 \in 1 .. Len(F)
    BY <1>n
  <2>3. F[n + 2] = Greater
    BY <1>3
  <2> QED
    BY <1>n, <2>1, <2>2, <2>3, FirstIs
<1>6. SubSeq(F, 2, n + 1) = LinkText
  <2>1. PICK u : u = SubSeq(F, 2, n + 1)
    OBVIOUS
  <2>2. u \in Seq(Token) /\ Len(u) = n /\ \A i \in 1 .. n : u[i] = F[i + 1]
    BY <1>n, <2>1
  <2>3. LinkText \in Seq(Token)
    BY LinkAssumption
  <2>4. \A i \in 1 .. n : u[i] = LinkText[i]
    BY <1>3, <2>2
  <2>5. u = LinkText
    BY <1>1, <2>2, <2>3, <2>4, SeqEqual
  <2> QED
    BY <2>1, <2>5
<1>7. SubSeq(F, n + 3, n + 9) = OwnRest
  <2>1. PICK u : u = SubSeq(F, n + 3, n + 9)
    OBVIOUS
  <2>2. u \in Seq(Token) /\ Len(u) = 7 /\ \A i \in 1 .. 7 : u[i] = F[n + 2 + i]
    BY <1>n, <2>1
  <2>3. /\ u[1] = F[n + 3] /\ u[2] = F[n + 4] /\ u[3] = F[n + 5] /\ u[4] = F[n + 6]
        /\ u[5] = F[n + 7] /\ u[6] = F[n + 8] /\ u[7] = F[n + 9]
    BY <1>n, <2>2
  <2>4. u = << u[1], u[2], u[3], u[4], u[5], u[6], u[7] >>
    BY <2>2
  <2> QED
    BY <1>3, <2>1, <2>3, <2>4 DEF OwnRest
<1> QED
  BY <1>1, <1>2, <1>n, <1>4, <1>5, <1>6, <1>7

(* splitParams cuts what follows the URL before the parameter.             *)
LEMMA OwnSplit == SplitParams(OwnRest) = << << >>, OwnParam >>
<1>1. PICK M : M = Token
  OBVIOUS
<1>2. Rel \in M /\ Equals \in M /\ Quote \in M /\ ViewRel \in M /\ Semicolon \in M /\ Blank \in M
  BY <1>1, Marks
<1>3. PICK b : b = << Rel, Equals, Quote, ViewRel, Quote >>
  OBVIOUS
<1>4. b \in Seq(M) /\ Len(b) = 5 /\ b[1] = Rel /\ b[2] = Equals /\ b[3] = Quote /\ b[4] = ViewRel /\ b[5] = Quote
  BY <1>2, <1>3
<1>5. PICK opening : opening = {Quote}
  OBVIOUS
<1>6. PICK in : in = [i \in 0 .. 5 |-> IF i \in {3, 4} THEN Quote ELSE Nothing]
  OBVIOUS
<1>7. /\ in[0] = Nothing /\ in[1] = Nothing /\ in[2] = Nothing
      /\ in[3] = Quote /\ in[4] = Quote /\ in[5] = Nothing
  BY <1>6
<1>8. Uncut(in, b, Semicolon, opening)
  <2>1. ASSUME NEW i \in 1 .. 5
        PROVE  in[i] = Inside(in[i - 1], b[i], opening) /\ (in[i - 1] # Nothing \/ b[i] # Semicolon)
    <3>1. CASE i = 1
      BY <1>4, <1>5, <1>7, <3>1, Marks, InsideIs
    <3>2. CASE i = 2
      BY <1>4, <1>5, <1>7, <3>2, Marks, InsideIs
    <3>3. CASE i = 3
      BY <1>4, <1>5, <1>7, <3>3, Marks, InsideIs
    <3>4. CASE i = 4
      BY <1>4, <1>5, <1>7, <3>4, Marks, InsideIs
    <3>5. CASE i = 5
      BY <1>4, <1>5, <1>7, <3>5, Marks, InsideIs
    <3> QED
      BY <3>1, <3>2, <3>3, <3>4, <3>5
  <2> QED
    BY <1>4, <1>7, <2>1 DEF Uncut, Nothing
<1>9. Scan(b, Semicolon, opening) = [parts |-> << b >>, inside |-> Nothing]
  <2>1. Scan(b, Semicolon, opening) = [parts |-> << b >>, inside |-> in[Len(b)]]
    BY <1>4, <1>8, ScanUncut
  <2> QED
    BY <1>4, <1>7, <2>1
<1>10. PICK a : a = << >>
  OBVIOUS
<1>11. a \in Seq(M) /\ Len(a) = 0
  BY <1>10
<1>12. Scan(a, Semicolon, opening) = [parts |-> << a >>, inside |-> Nothing]
  <2>1. Uncut(in, a, Semicolon, opening)
    BY <1>7, <1>11 DEF Uncut, Nothing
  <2>2. Scan(a, Semicolon, opening) = [parts |-> << a >>, inside |-> in[Len(a)]]
    BY <1>11, <2>1, ScanUncut
  <2> QED
    BY <1>7, <1>11, <2>2
<1>13. OwnRest = Glued(a, Semicolon, Blank, b)
  BY <1>3, <1>10 DEF OwnRest, Glued
<1>14. PICK w : w = << Blank >>
  OBVIOUS
<1>15. Scan(OwnRest, Semicolon, opening) = Shifted(<< a >>, w, [parts |-> << b >>, inside |-> Nothing])
  <2>1. PICK semi, blank : semi = Semicolon /\ blank = Blank
    OBVIOUS
  <2>2. semi \in M /\ blank \in M /\ blank # semi /\ blank \notin opening
    BY <1>2, <1>5, <2>1, Marks
  <2>3. Scan(a, semi, opening).inside = "nothing"
    BY <1>12, <2>1 DEF Nothing
  <2>4. a \in Seq(M) /\ b \in Seq(M)
    BY <1>4, <1>11
  <2>5. /\ Scan(a, semi, opening) \in States(M, opening)
        /\ Scan(b, semi, opening) \in States(M, opening)
        /\ Scan(Glued(a, semi, blank, b), semi, opening)
             = Shifted(Scan(a, semi, opening).parts, << blank >>, Scan(b, semi, opening))
    BY <2>2, <2>3, <2>4, ScanJoined
  <2>6. Scan(a, semi, opening).parts = << a >>
    BY <1>12, <2>1
  <2> QED
    BY <1>9, <1>13, <1>14, <2>1, <2>5, <2>6
<1>16. Pad(w, << b >>) = << OwnParam >>
  <2>1. PICK e : e = << b >>
    OBVIOUS
  <2>2. DOMAIN e = 1 .. 1 /\ e[1] = b
    BY <2>1
  <2>3. Pad(w, e) = [i \in 1 .. 1 |-> IF i = 1 THEN w \o e[i] ELSE e[i]]
    BY <2>2 DEF Pad
  <2>4. w \o b = OwnParam
    <3>1. PICK z : z = w \o b
      OBVIOUS
    <3>2. w \in Seq(M) /\ Len(w) = 1 /\ w[1] = Blank
      BY <1>2, <1>14
    <3>3. z \in Seq(M) /\ Len(z) = 6 /\ z[1] = w[1] /\ \A i \in 1 .. 5 : z[1 + i] = b[i]
      <4>1. /\ z \in Seq(M) /\ Len(z) = Len(w) + Len(b)
            /\ \A i \in 1 .. Len(w) : z[i] = w[i]
            /\ \A i \in 1 .. Len(b) : z[Len(w) + i] = b[i]
        <5>1. z = Behind(w, b)
          BY <3>1 DEF Behind
        <5>2. IsBehind(M, w, b, Behind(w, b))
          BY <1>4, <3>2, BehindIs
        <5> QED
          BY <5>1, <5>2 DEF IsBehind
      <4> QED
        BY <1>4, <3>2, <4>1
    <3>4. z[2] = b[1] /\ z[3] = b[2] /\ z[4] = b[3] /\ z[5] = b[4] /\ z[6] = b[5]
      BY <3>3
    <3>5. z = << z[1], z[2], z[3], z[4], z[5], z[6] >>
      BY <3>3
    <3> QED
      BY <1>4, <3>1, <3>2, <3>3, <3>4, <3>5 DEF OwnParam
  <2>5. Pad(w, e) = [i \in 1 .. 1 |-> OwnParam]
    BY <2>2, <2>3, <2>4
  <2> QED
    BY <2>1, <2>5
<1>17. Shifted(<< a >>, w, [parts |-> << b >>, inside |-> Nothing]).parts = Behind(<< a >>, Pad(w, << b >>))
  BY DEF Shifted
<1>18. Behind(<< a >>, << OwnParam >>) = << a, OwnParam >>
  <2>1. ASSUME NEW x \in Seq(M), NEW y \in Seq(M) PROVE << x >> \o << y >> = << x, y >>
    <3>1. PICK S : S = Seq(M)
      OBVIOUS
    <3>2. PICK u, v : u = << x >> /\ v = << y >>
      OBVIOUS
    <3>3. u \in Seq(S) /\ Len(u) = 1 /\ u[1] = x /\ v \in Seq(S) /\ Len(v) = 1 /\ v[1] = y
      BY <3>1, <3>2
    <3>4. PICK z : z = u \o v
      OBVIOUS
    <3>5. z \in Seq(S) /\ Len(z) = 2 /\ z[1] = x /\ z[2] = y
      <4>1. /\ z \in Seq(S) /\ Len(z) = Len(u) + Len(v)
            /\ \A i \in 1 .. Len(u) : z[i] = u[i]
            /\ \A i \in 1 .. Len(v) : z[Len(u) + i] = v[i]
        <5>1. z = Behind(u, v)
          BY <3>4 DEF Behind
        <5>2. IsBehind(S, u, v, Behind(u, v))
          BY <3>3, BehindIs
        <5> QED
          BY <5>1, <5>2 DEF IsBehind
      <4>2. z[1] = u[1] /\ z[1 + 1] = v[1]
        BY <3>3, <4>1
      <4> QED
        BY <3>3, <4>1, <4>2
    <3>6. z = << z[1], z[2] >>
      BY <3>5
    <3> QED
      BY <3>2, <3>4, <3>5, <3>6
  <2>2. OwnParam \in Seq(M)
    BY <1>2 DEF OwnParam
  <2>3. << a >> \o << OwnParam >> = << a, OwnParam >>
    BY <1>11, <2>1, <2>2
  <2> QED
    BY <2>3 DEF Behind
<1>19. SplitParams(OwnRest) = Scan(OwnRest, Semicolon, opening).parts
  BY <1>5 DEF SplitParams, Split, Semicolon
<1> QED
  BY <1>10, <1>15, <1>16, <1>17, <1>18, <1>19

(* The parameter says that the link is for a view descriptor.              *)
OwnParams == [k \in {<< Rel >>} |-> << ViewRel >>]

(* AddParam reads it so, and nothing where there is nothing.               *)
LEMMA OwnParamAdded ==
    /\ AddParam(NoParams, << >>) = NoParams
    /\ AddParam(NoParams, OwnParam) = OwnParams
<1>1. PICK M : M = Token
  OBVIOUS
<1>2. Rel \in M /\ Equals \in M /\ Quote \in M /\ ViewRel \in M /\ Blank \in M
  BY <1>1, Marks
<1>3. PICK p : p = OwnParam
  OBVIOUS
<1>4. /\ p \in Seq(M) /\ Len(p) = 6 /\ p[1] = Blank /\ p[2] = Rel /\ p[3] = Equals
      /\ p[4] = Quote /\ p[5] = ViewRel /\ p[6] = Quote
  BY <1>2, <1>3 DEF OwnParam
<1>5. First(p, Equals) = 3
  <2>1. \A i \in 1 .. 3 - 1 : p[i] # Equals
    BY <1>4, Marks
  <2>2. 3 \in 1 .. Len(p)
    BY <1>4
  <2> QED
    BY <1>4, <2>1, <2>2, FirstIs
<1>6. SubSeq(p, 1, 3 - 1) = << Blank, Rel >> /\ SubSeq(p, 3 + 1, Len(p)) = << Quote, ViewRel, Quote >>
  <2>1. PICK u, v : u = SubSeq(p, 1, 2) /\ v = SubSeq(p, 4, 6)
    OBVIOUS
  <2>2. u \in Seq(M) /\ Len(u) = 2 /\ u[1] = p[1] /\ u[2] = p[2]
    <3>1. PICK one, two : one = 1 /\ two = 2
      OBVIOUS
    <3>2. u = Cut(p, one, two)
      BY <2>1, <3>1 DEF Cut
    <3>3. one \in 1 .. Len(p) /\ two \in 1 .. Len(p) /\ one <= two
      BY <1>4, <3>1
    <3>4. IsCut(M, p, one, two, Cut(p, one, two))
      BY <1>4, <3>3, Slice
    <3>5. /\ u \in Seq(M) /\ Len(u) = two - one + 1
          /\ \A i \in 1 .. two - one + 1 : u[i] = p[one + i - 1]
      BY <3>2, <3>4 DEF IsCut
    <3> QED
      BY <3>1, <3>5
  <2>3. v \in Seq(M) /\ Len(v) = 3 /\ v[1] = p[4] /\ v[2] = p[5] /\ v[3] = p[6]
    <3>1. v \in Seq(M) /\ Len(v) = 3 /\ \A i \in 1 .. 3 : v[i] = p[4 + i - 1]
      <4>1. PICK four, six : four = 4 /\ six = 6
        OBVIOUS
      <4>2. four \in 1 .. Len(p) /\ six \in 1 .. Len(p) /\ four <= six
        BY <1>4, <4>1
      <4>3. /\ v \in Seq(M) /\ Len(v) = six - four + 1
            /\ \A i \in 1 .. six - four + 1 : v[i] = p[four + i - 1]
        <5>1. v = Cut(p, four, six)
          BY <2>1, <4>1 DEF Cut
        <5>2. IsCut(M, p, four, six, Cut(p, four, six))
          BY <1>4, <4>2, Slice
        <5> QED
          BY <5>1, <5>2 DEF IsCut
      <4>4. six - four + 1 = 3 /\ \A i \in 1 .. 3 : four + i - 1 = 4 + i - 1
        BY <4>1
      <4> QED
        BY <4>3, <4>4
    <3> QED
      BY <3>1
  <2>4. u = << u[1], u[2] >> /\ v = << v[1], v[2], v[3] >>
    BY <2>2, <2>3
  <2> QED
    BY <1>4, <2>1, <2>2, <2>3, <2>4
<1>7. Trim(<< Blank, Rel >>) = << Rel >>
  <2>1. PICK s : s = << Blank, Rel >>
    OBVIOUS
  <2>2. s \in Seq(M) /\ DOMAIN s = 1 .. 2 /\ s[1] = Blank /\ s[2] = Rel
    BY <1>2, <2>1
  <2>3. Solid(s) = {2}
    BY <2>2, Marks DEF Solid
  <2>4. Trim(s) = SubSeq(s, 2, 2)
    <3>1. 2 \in Solid(s) /\ \A y \in Solid(s) : 2 <= y /\ y <= 2
      BY <2>3
    <3> QED
      BY <2>2, <3>1, TrimIs
  <2>5. SubSeq(s, 2, 2) = << s[2] >>
    BY <2>2, SliceOne
  <2> QED
    BY <2>1, <2>2, <2>4, <2>5
<1>8. Trim(<< Quote, ViewRel, Quote >>) = << Quote, ViewRel, Quote >>
  <2>1. PICK s : s = << Quote, ViewRel, Quote >>
    OBVIOUS
  <2>2. s \in Seq(M) /\ DOMAIN s = 1 .. 3 /\ s[1] = Quote /\ s[2] = ViewRel /\ s[3] = Quote
    BY <1>2, <2>1
  <2>3. Solid(s) = {1, 2, 3}
    BY <2>2, Marks DEF Solid
  <2>4. Trim(s) = SubSeq(s, 1, 3)
    <3>1. 1 \in Solid(s) /\ 3 \in Solid(s) /\ \A y \in Solid(s) : 1 <= y /\ y <= 3
      BY <2>3
    <3> QED
      BY <2>2, <3>1, TrimIs
  <2>5. SubSeq(s, 1, 3) = s
    BY <2>2, SliceAll
  <2> QED
    BY <2>1, <2>4, <2>5
<1>9. Lowered(<< Rel >>) = << Rel >>
  <2>1. PICK s : s = << Rel >>
    OBVIOUS
  <2>2. DOMAIN s = 1 .. 1 /\ s[1] = Rel
    BY <2>1
  <2>3. Rel \in DOMAIN Fold => Fold[Rel] = Rel
    BY LinkAssumption DEF Rel
  <2>4. Lowered(s) = [i \in 1 .. 1 |-> Rel]
    BY <2>2, <2>3 DEF Lowered
  <2> QED
    BY <2>1, <2>4
<1>10. Unquoted(<< Quote, ViewRel, Quote >>) = << ViewRel >>
  <2>1. PICK s : s = << Quote, ViewRel, Quote >>
    OBVIOUS
  <2>2. Len(s) = 3 /\ Head(s) = Quote /\ Last(s) = Quote /\ SubSeq(s, 2, Len(s) - 1) = << ViewRel >>
    <3>1. s \in Seq(M) /\ Len(s) = 3 /\ s[1] = Quote /\ s[2] = ViewRel /\ s[3] = Quote
      BY <1>2, <2>1
    <3>2. SubSeq(s, 2, 2) = << s[2] >>
      BY <3>1, SliceOne
    <3>3. Head(s) = s[1]
      BY <3>1
    <3> QED
      BY <3>1, <3>2, <3>3 DEF Last
  <2> QED
    BY <2>1, <2>2 DEF Unquoted
<1>11. DOMAIN NoParams = {}
  BY DEF NoParams
<1>12. AddParam(NoParams, p) = OwnParams
  <2>1. PICK key, val : key = << Rel >> /\ val = << ViewRel >>
    OBVIOUS
  <2>2. AddParam(NoParams, p) = [k \in DOMAIN NoParams \cup {key} |-> IF k = key THEN val ELSE NoParams[k]]
    <3>1. First(p, "=") = 3
      BY <1>5 DEF Equals
    <3>2. Lowered(Trim(SubSeq(p, 1, 3 - 1))) = key
      BY <1>6, <1>7, <1>9, <2>1
    <3>3. Unquoted(Trim(SubSeq(p, 3 + 1, Len(p)))) = val
      BY <1>6, <1>8, <1>10, <2>1
    <3> QED
      BY <1>11, <3>1, <3>2, <3>3 DEF AddParam
  <2>3. [k \in DOMAIN NoParams \cup {key} |-> IF k = key THEN val ELSE NoParams[k]] = [k \in {key} |-> val]
    BY <1>11
  <2> QED
    BY <2>1, <2>2, <2>3 DEF OwnParams
<1>13. AddParam(NoParams, << >>) = NoParams
  <2>1. First(<< >>, "=") = 0
    BY DEF First, SelectInSeq
  <2> QED
    BY <2>1 DEF AddParam
<1> QED
  BY <1>3, <1>12, <1>13

(* So does the loop over both parts.                                       *)
LEMMA OwnParamsRead == Params(<< << >>, OwnParam >>) = OwnParams
<1>1. PICK given : given = << << >>, OwnParam >>
  OBVIOUS
<1>2. Len(given) = 2 /\ given[1] = << >> /\ given[2] = OwnParam
  BY <1>1
<1> DEFINE body(f) == [i \in 0 .. Len(given) |->
                         IF i = 0 THEN NoParams ELSE AddParam(f[i - 1], given[i])]
           params == CHOOSE f : f = body(f)
<1>3. Params(given) = params[Len(given)]
  BY DEF Params
<1> HIDE DEF params
<1>4. PICK h : h = [i \in 0 .. 2 |-> IF i = 2 THEN OwnParams ELSE NoParams]
  OBVIOUS
<1>5. h[0] = NoParams /\ h[1] = NoParams /\ h[2] = OwnParams
  BY <1>4
<1>6. h = body(h)
  <2>1. ASSUME NEW i \in 0 .. 2
        PROVE  h[i] = IF i = 0 THEN NoParams ELSE AddParam(h[i - 1], given[i])
    <3>1. CASE i = 0
      BY <1>5, <3>1
    <3>2. CASE i = 1
      BY <1>2, <1>5, <3>2, OwnParamAdded
    <3>3. CASE i = 2
      BY <1>2, <1>5, <3>3, OwnParamAdded
    <3> QED
      BY <3>1, <3>2, <3>3
  <2>2. h = [i \in 0 .. 2 |-> h[i]]
    BY <1>4
  <2> QED
    BY <1>2, <2>1, <2>2
<1>7. params = body(params)
  <2> HIDE DEF body
  <2> QED
    BY <1>6 DEF params
<1>8. PICK f : f = params
  OBVIOUS
<1>9. f = body(f)
  BY <1>7, <1>8
<1>10. \A i \in 0 .. 2 : f[i] = IF i = 0 THEN NoParams ELSE AddParam(f[i - 1], given[i])
  BY <1>2, <1>9
<1>11. f[0] = NoParams /\ f[1] = AddParam(f[0], given[1]) /\ f[2] = AddParam(f[1], given[2])
  BY <1>10
<1>12. f[1] = NoParams
  BY <1>2, <1>11, OwnParamAdded
<1>13. f[2] = OwnParams
  BY <1>2, <1>11, <1>12, OwnParamAdded
<1> QED
  BY <1>1, <1>2, <1>3, <1>8, <1>13

(* So the descriptor's own entry is one link, to the descriptor.           *)
OwnLink == [url |-> LinkText, params |-> OwnParams]

(* Its relation is the one the client looks for.                           *)
LEMMA OwnLinkParsed == ParseLink(Own) = << OwnLink >> /\ HasRel(OwnLink, ViewRel)
<1>1. PICK n : n = Len(LinkText)
  OBVIOUS
<1>2. PICK F : F = Own
  OBVIOUS
<1>3. n \in Nat /\ F \in Seq(Token) /\ Len(F) = n + 9 /\ F[1] = Less
  BY <1>1, <1>2, OwnText
<1>4. /\ Trim(F) = F /\ First(F, Greater) = n + 2
      /\ SubSeq(F, 2, n + 1) = LinkText /\ SubSeq(F, n + 3, Len(F)) = OwnRest
  BY <1>1, <1>2, OwnURL
<1>5. F # << >> /\ Head(F) = "<"
  BY <1>3 DEF Less
<1>6. First(F, ">") = n + 2
  BY <1>4 DEF Greater
<1>7. (n + 2) - 1 = n + 1 /\ (n + 2) + 1 = n + 3 /\ n + 2 # 0
  BY <1>3
<1>8. Trim(LinkText) = LinkText
  BY LinkAssumption
<1>9. Params(SplitParams(OwnRest)) = OwnParams
  BY OwnSplit, OwnParamsRead
<1>10. ParseLink(F) = << OwnLink >>
  <2>1. ParseLink(F) = LinkIn(F)
    BY <1>4 DEF ParseLink
  <2>2. LinkIn(F) = << [url |-> Trim(SubSeq(F, 2, (n + 2) - 1)),
                        params |-> Params(SplitParams(SubSeq(F, (n + 2) + 1, Len(F))))] >>
    BY <1>5, <1>6, <1>7 DEF LinkIn
  <2> QED
    BY <1>4, <1>7, <1>8, <1>9, <2>1, <2>2 DEF OwnLink
<1>11. HasRel(OwnLink, ViewRel)
  <2>1. PICK M : M = Token
    OBVIOUS
  <2>2. PICK s : s = << ViewRel >>
    OBVIOUS
  <2>3. s \in Seq(M) /\ Len(s) = 1 /\ s[1] = ViewRel
    BY <2>1, <2>2, Marks
  <2>4. PICK in : in = [i \in 0 .. 1 |-> Nothing]
    OBVIOUS
  <2>5. in[0] = Nothing /\ in[1] = Nothing
    BY <2>4
  <2>6. Uncut(in, s, Blank, {})
    <3>1. Inside(Nothing, ViewRel, {}) = Nothing
      BY DEF Inside, Nothing
    <3>2. ViewRel # Blank
      BY Marks
    <3> QED
      BY <2>3, <2>5, <3>1, <3>2 DEF Uncut, Nothing
  <2>7. Split(s, Blank, {}) = << s >>
    <3>1. Scan(s, Blank, {}) = [parts |-> << s >>, inside |-> in[Len(s)]]
      BY <2>3, <2>6, ScanUncut
    <3> QED
      BY <3>1 DEF Split
  <2>8. Lowered(s) = s
    <3>1. ViewRel \in DOMAIN Fold => Fold[ViewRel] = ViewRel
      BY LinkAssumption
    <3>2. DOMAIN s = 1 .. 1
      BY <2>2
    <3>3. Lowered(s) = [i \in 1 .. 1 |-> ViewRel]
      BY <2>3, <3>1, <3>2 DEF Lowered
    <3> QED
      BY <2>2, <3>3
  <2>9. PICK key : key = << Rel >>
    OBVIOUS
  <2>10. DOMAIN OwnLink.params = {key} /\ OwnLink.params[key] = s
    BY <2>2, <2>9 DEF OwnLink, OwnParams
  <2>11. s \in Range(<< s >>)
    BY DEF Range
  <2>12. << "rel" >> = key
    BY <2>9 DEF Rel
  <2>13. << ViewRel >> \in {Lowered(r) : r \in Range(Split(OwnLink.params[key], Blank, {}))}
    BY <2>2, <2>7, <2>8, <2>10, <2>11
  <2> QED
    BY <2>10, <2>12, <2>13 DEF HasRel
<1> QED
  BY <1>2, <1>10, <1>11

-----------------------------------------------------------------------------
(* The links of a response on its way.                                     *)

(* The fields are whole, and what they say of a descriptor is where it is. *)
Clean(links) ==
    /\ links \in Seq(Seq(Token))
    /\ \A i \in 1 .. Len(links) : Closed(links[i])
    /\ \A l \in LinksOf(links) : HasRel(l, ViewRel) => l.url = LinkText
Findable(links) == Clean(links) /\ \E l \in LinksOf(links) : HasRel(l, ViewRel)

(* Two clean headers together are one, with the links of both.             *)
LEMMA LinksBehind ==
    ASSUME NEW a \in Seq(Seq(Token)), NEW b \in Seq(Seq(Token))
    PROVE  /\ Behind(a, b) \in Seq(Seq(Token))
           /\ LinksOf(Behind(a, b)) = LinksOf(a) \cup LinksOf(b)
           /\ Clean(a) /\ Clean(b) => Clean(Behind(a, b))
<1>1. PICK S : S = Seq(Token)
  OBVIOUS
<1>2. PICK c : c = Behind(a, b)
  OBVIOUS
<1>3. PICK n \in Nat, m \in Nat : n = Len(a) /\ m = Len(b)
  OBVIOUS
<1>4. IsBehind(S, a, b, c)
  BY <1>1, <1>2, BehindIs
<1>5. /\ c \in Seq(S) /\ Len(c) = n + m
      /\ \A i \in 1 .. n : c[i] = a[i]
      /\ \A i \in 1 .. m : c[n + i] = b[i]
  BY <1>3, <1>4 DEF IsBehind
<1>6. \A i \in 1 .. n + m : i \in 1 .. n \/ \E j \in 1 .. m : i = n + j
  <2>1. ASSUME NEW i \in 1 .. n + m, i \notin 1 .. n PROVE \E j \in 1 .. m : i = n + j
    <3>1. i - n \in 1 .. m /\ i = n + (i - n)
      BY <2>1
    <3> QED
      BY <3>1
  <2> QED
    BY <2>1
<1>7. (\A i \in 1 .. n : i \in 1 .. n + m) /\ \A j \in 1 .. m : n + j \in 1 .. n + m
  OBVIOUS
<1>8. LinksOf(c) = LinksOf(a) \cup LinksOf(b)
  <2>1. ASSUME NEW l PROVE l \in LinksOf(c) <=> l \in LinksOf(a) \/ l \in LinksOf(b)
    <3>1. l \in LinksOf(c) <=> \E i \in 1 .. n + m : l \in LinksIn(c[i])
      BY <1>5 DEF LinksOf
    <3>2. l \in LinksOf(a) <=> \E i \in 1 .. n : l \in LinksIn(c[i])
      BY <1>3, <1>5 DEF LinksOf
    <3>3. l \in LinksOf(b) <=> \E j \in 1 .. m : l \in LinksIn(c[n + j])
      BY <1>3, <1>5 DEF LinksOf
    <3> QED
      BY <1>6, <1>7, <3>1, <3>2, <3>3
  <2> QED
    BY <2>1
<1>9. ASSUME Clean(a), Clean(b) PROVE Clean(c)
  <2>1. \A i \in 1 .. Len(c) : Closed(c[i])
    <3>1. (\A i \in 1 .. n : Closed(a[i])) /\ \A j \in 1 .. m : Closed(b[j])
      BY <1>3, <1>9 DEF Clean
    <3>2. (\A i \in 1 .. n : Closed(c[i])) /\ \A j \in 1 .. m : Closed(c[n + j])
      BY <1>5, <3>1
    <3> QED
      BY <1>5, <1>6, <3>2
  <2> QED
    BY <1>1, <1>5, <1>8, <1>9, <2>1 DEF Clean
<1> QED
  BY <1>1, <1>2, <1>5, <1>8, <1>9

(* One field, none.                                                        *)
LEMMA LinksOne ==
    ASSUME NEW v \in Seq(Token)
    PROVE  << v >> \in Seq(Seq(Token)) /\ LinksOf(<< v >>) = LinksIn(v)
<1>1. PICK vs : vs = << v >>
  OBVIOUS
<1>2. Len(vs) = 1 /\ vs[1] = v /\ vs \in Seq(Seq(Token))
  BY <1>1
<1>3. ASSUME NEW l PROVE l \in LinksOf(vs) <=> l \in LinksIn(v)
  <2>1. l \in LinksOf(vs) <=> \E i \in 1 .. 1 : l \in LinksIn(vs[i])
    BY <1>2 DEF LinksOf
  <2> QED
    BY <1>2, <2>1
<1>4. LinksOf(vs) = LinksIn(v)
  BY <1>3
<1> QED
  BY <1>1, <1>2, <1>4

(* No header is clean.                                                     *)
LEMMA LinksNone == Clean(<< >>) /\ LinksOf(<< >>) = {}
<1>1. << >> \in Seq(Seq(Token)) /\ Len(<< >>) = 0
  OBVIOUS
<1>2. LinksOf(<< >>) = {}
  BY <1>1 DEF LinksOf
<1> QED
  BY <1>1, <1>2 DEF Clean

(* No other entry is for a descriptor, and one is.                         *)
LEMMA EntryClean ==
    ASSUME NEW e \in Entry
    PROVE  Clean(<< e >>)
<1>1. e \in Seq(Token) /\ Closed(e) /\ \A l \in Range(ParseLinks(<< e >>)) : ~HasRel(l, ViewRel)
  BY LinkAssumption
<1>2. PICK vs : vs = << e >>
  OBVIOUS
<1>3. vs \in Seq(Seq(Token)) /\ Len(vs) = 1 /\ vs[1] = e
  BY <1>1, <1>2
<1>4. Range(ParseLinks(vs)) = LinksOf(vs)
  BY <1>3, ParseLinksRange
<1>5. \A l \in LinksOf(vs) : ~HasRel(l, ViewRel)
  BY <1>1, <1>2, <1>4
<1> QED
  BY <1>1, <1>2, <1>3, <1>5 DEF Clean

(* The server's own entry can be found.                                    *)
LEMMA OwnFindable == Findable(<< Own >>)
<1>1. PICK F : F = Own
  OBVIOUS
<1>2. F \in Seq(Token) /\ Closed(F) /\ SplitLinkFields(F) = << F >>
  BY <1>1, OwnEntry
<1>3. ParseLink(F) = << OwnLink >> /\ HasRel(OwnLink, ViewRel)
  BY <1>1, OwnLinkParsed
<1>4. \A x : Range(<< x >>) = {x}
  BY DEF Range
<1>5. LinksIn(F) = {OwnLink}
  <2>1. Range(SplitLinkFields(F)) = {F}
    BY <1>2, <1>4
  <2>2. Range(ParseLink(F)) = {OwnLink}
    BY <1>3, <1>4
  <2> QED
    BY <2>1, <2>2 DEF LinksIn
<1>6. << F >> \in Seq(Seq(Token)) /\ LinksOf(<< F >>) = {OwnLink}
  BY <1>2, <1>5, LinksOne
<1>7. PICK vs : vs = << F >>
  OBVIOUS
<1>8. Len(vs) = 1 /\ vs[1] = F
  BY <1>7
<1>9. \A i \in 1 .. Len(vs) : Closed(vs[i])
  BY <1>2, <1>8
<1>10. OwnLink.url = LinkText
  BY DEF OwnLink
<1> QED
  BY <1>1, <1>3, <1>6, <1>7, <1>9, <1>10 DEF Clean, Findable

(* Among others it is found,                                               *)
LEMMA SentFindable ==
    ASSUME NEW before \in {<< >>} \cup {<< e >> : e \in Entry},
           NEW after \in {<< >>} \cup {<< e >> : e \in Entry}
    PROVE  Findable(before \o << Own >> \o after)
<1>1. Clean(before) /\ Clean(after)
  BY LinksNone, EntryClean
<1>2. PICK own : own = << Own >>
  OBVIOUS
<1>3. Findable(own)
  BY <1>2, OwnFindable
<1>4. before \in Seq(Seq(Token)) /\ own \in Seq(Seq(Token)) /\ after \in Seq(Seq(Token))
  BY <1>1, <1>3 DEF Findable, Clean
<1>5. PICK vs : vs = Behind(before, own)
  OBVIOUS
<1>6. /\ vs \in Seq(Seq(Token)) /\ LinksOf(vs) = LinksOf(before) \cup LinksOf(own)
      /\ Clean(before) /\ Clean(own) => Clean(vs)
  BY <1>4, <1>5, LinksBehind
<1>7. /\ LinksOf(Behind(vs, after)) = LinksOf(vs) \cup LinksOf(after)
      /\ Clean(vs) /\ Clean(after) => Clean(Behind(vs, after))
  BY <1>4, <1>6, LinksBehind
<1>8. Findable(Behind(vs, after))
  BY <1>1, <1>3, <1>6, <1>7 DEF Findable
<1> QED
  BY <1>2, <1>5, <1>8 DEF Behind

(* also when two fields are joined.                                        *)
LEMMA JoinFindable ==
    ASSUME NEW vs, Findable(vs), NEW i \in 1 .. Len(vs) - 1,
           NEW joined, joined = OneField(vs[i], vs[i + 1])
    PROVE  Findable(SubSeq(vs, 1, i - 1) \o << joined >> \o SubSeq(vs, i + 2, Len(vs)))
<1>1. PICK S : S = Seq(Token)
  OBVIOUS
<1>2. vs \in Seq(S)
  BY <1>1 DEF Findable, Clean
<1>3. PICK n \in Nat : n = Len(vs) /\ i \in 1 .. n - 1
  BY <1>2
<1>4. i \in 1 .. n /\ i + 1 \in 1 .. n
  BY <1>3
<1>5. vs[i] \in Seq(Token) /\ vs[i + 1] \in Seq(Token) /\ Closed(vs[i]) /\ Closed(vs[i + 1])
  <2>1. \A j \in 1 .. n : vs[j] \in S /\ Closed(vs[j])
    BY <1>2, <1>3 DEF Findable, Clean
  <2> QED
    BY <1>1, <1>4, <2>1
<1>6. /\ joined \in Seq(Token) /\ Closed(joined)
      /\ LinksIn(joined) = LinksIn(vs[i]) \cup LinksIn(vs[i + 1])
  BY <1>5, JoinedLinks
<1>7. PICK a, b, c : a = SubSeq(vs, 1, i - 1) /\ b = << joined >> /\ c = SubSeq(vs, i + 2, n)
  OBVIOUS
<1>8. a \in Seq(S) /\ Len(a) = i - 1 /\ \A j \in 1 .. i - 1 : a[j] = vs[j]
  <2>1. 1 \in Int /\ i - 1 \in Int /\ \A j \in 1 .. i - 1 : vs[j] \in S
    BY <1>2, <1>3
  <2>2. /\ SubSeq(vs, 1, i - 1) \in Seq(S)
        /\ Len(SubSeq(vs, 1, i - 1)) = IF 1 <= i - 1 THEN (i - 1) - 1 + 1 ELSE 0
        /\ \A j \in 1 .. (i - 1) - 1 + 1 : SubSeq(vs, 1, i - 1)[j] = vs[1 + j - 1]
    BY <2>1, SubSeqProperties
  <2>3. (i - 1) - 1 + 1 = i - 1 /\ (~(1 <= i - 1) => i - 1 = 0) /\ \A j \in 1 .. i - 1 : 1 + j - 1 = j
    BY <1>3
  <2> QED
    BY <1>7, <2>2, <2>3
<1>9. c \in Seq(S) /\ Len(c) = n - i - 1 /\ \A j \in 1 .. n - i - 1 : c[j] = vs[i + 1 + j]
  <2>1. i + 2 \in Int /\ n \in Int /\ \A j \in i + 2 .. n : vs[j] \in S
    BY <1>2, <1>3
  <2>2. /\ SubSeq(vs, i + 2, n) \in Seq(S)
        /\ Len(SubSeq(vs, i + 2, n)) = IF i + 2 <= n THEN n - (i + 2) + 1 ELSE 0
        /\ \A j \in 1 .. n - (i + 2) + 1 : SubSeq(vs, i + 2, n)[j] = vs[(i + 2) + j - 1]
    BY <2>1, SubSeqProperties
  <2>3. /\ n - (i + 2) + 1 = n - i - 1 /\ (~(i + 2 <= n) => n - i - 1 = 0)
        /\ \A j \in 1 .. n - i - 1 : (i + 2) + j - 1 = i + 1 + j
    BY <1>3
  <2> QED
    BY <1>7, <2>2, <2>3
<1>10. b \in Seq(S) /\ LinksOf(b) = LinksIn(joined)
  BY <1>1, <1>6, <1>7, LinksOne
<1>11. PICK ab : ab = Behind(a, b)
  OBVIOUS
<1>12. /\ ab \in Seq(Seq(Token)) /\ LinksOf(ab) = LinksOf(a) \cup LinksOf(b)
       /\ Clean(a) /\ Clean(b) => Clean(ab)
  BY <1>1, <1>8, <1>10, <1>11, LinksBehind
<1>13. /\ LinksOf(Behind(ab, c)) = LinksOf(ab) \cup LinksOf(c)
       /\ Clean(ab) /\ Clean(c) => Clean(Behind(ab, c))
  BY <1>1, <1>9, <1>12, LinksBehind
<1>14. LinksOf(Behind(ab, c)) = LinksOf(vs)
  <2>1. ASSUME NEW l PROVE l \in LinksOf(Behind(ab, c)) <=> l \in LinksOf(vs)
    <3>1. l \in LinksOf(a) <=> \E j \in 1 .. i - 1 : l \in LinksIn(vs[j])
      BY <1>8 DEF LinksOf
    <3>2. l \in LinksOf(b) <=> l \in LinksIn(vs[i]) \/ l \in LinksIn(vs[i + 1])
      BY <1>6, <1>10
    <3>3. l \in LinksOf(c) <=> \E j \in 1 .. n - i - 1 : l \in LinksIn(vs[i + 1 + j])
      BY <1>9 DEF LinksOf
    <3>4. l \in LinksOf(vs) <=> \E j \in 1 .. n : l \in LinksIn(vs[j])
      BY <1>3 DEF LinksOf
    <3>5. \A j \in 1 .. n : j \in 1 .. i - 1 \/ j = i \/ j = i + 1
                             \/ \E k \in 1 .. n - i - 1 : j = i + 1 + k
      <4>1. ASSUME NEW j \in 1 .. n, j > i + 1 PROVE \E k \in 1 .. n - i - 1 : j = i + 1 + k
        <5>1. j - i - 1 \in 1 .. n - i - 1 /\ j = i + 1 + (j - i - 1)
          BY <1>3, <4>1
        <5> QED
          BY <5>1
      <4> QED
        BY <1>3, <4>1
    <3>6. /\ \A j \in 1 .. i - 1 : j \in 1 .. n
          /\ \A k \in 1 .. n - i - 1 : i + 1 + k \in 1 .. n
      BY <1>3
    <3> QED
      BY <1>4, <1>12, <1>13, <3>1, <3>2, <3>3, <3>4, <3>5, <3>6
  <2> QED
    BY <2>1
<1>15. LinksOf(a) \subseteq LinksOf(vs) /\ LinksOf(b) \subseteq LinksOf(vs) /\ LinksOf(c) \subseteq LinksOf(vs)
  BY <1>12, <1>13, <1>14
<1>16. Clean(a) /\ Clean(b) /\ Clean(c)
  <2>1. \A l \in LinksOf(vs) : HasRel(l, ViewRel) => l.url = LinkText
    BY DEF Findable, Clean
  <2>2. \A j \in 1 .. n : Closed(vs[j])
    BY <1>3 DEF Findable, Clean
  <2>3. \A j \in 1 .. Len(a) : Closed(a[j])
    <3>1. \A j \in 1 .. i - 1 : j \in 1 .. n
      BY <1>3
    <3> QED
      BY <1>8, <2>2, <3>1
  <2>4. \A j \in 1 .. Len(b) : Closed(b[j])
    <3>1. Len(b) = 1 /\ b[1] = joined
      BY <1>7
    <3> QED
      BY <1>6, <3>1
  <2>5. \A j \in 1 .. Len(c) : Closed(c[j])
    <3>1. \A j \in 1 .. n - i - 1 : i + 1 + j \in 1 .. n
      BY <1>3
    <3> QED
      BY <1>9, <2>2, <3>1
  <2> QED
    BY <1>1, <1>8, <1>9, <1>10, <1>15, <2>1, <2>3, <2>4, <2>5 DEF Clean
<1>17. Findable(Behind(ab, c))
  BY <1>12, <1>13, <1>14, <1>16 DEF Findable
<1> QED
  BY <1>3, <1>7, <1>11, <1>17 DEF Behind

-----------------------------------------------------------------------------
(* Objects, read from their text.                                          *)

NoMembers == Object(<< >>, EmptyMembers)
Objects(K, V) == [keys: Seq(K), members: UNION {[A -> V] : A \in SUBSET K}]

(* A member more.                                                          *)
LEMMA AddMemberType ==
    ASSUME NEW K, NEW V, NEW o \in Objects(K, V), NEW pair, pair[1] \in K, pair[2] \in V
    PROVE  AddMember(o, pair) \in Objects(K, V)
<1>1. PICK k, v : k = pair[1] /\ v = pair[2] /\ k \in K /\ v \in V
  OBVIOUS
<1>2. PICK keys, ms : keys = o.keys /\ ms = o.members
  OBVIOUS
<1>3. keys \in Seq(K) /\ \E A \in SUBSET K : ms \in [A -> V]
  BY <1>2 DEF Objects
<1>4. PICK A \in SUBSET K : ms \in [A -> V]
  BY <1>3
<1>5. Append(keys, k) \in Seq(K)
  BY <1>1, <1>3
<1>6. PICK then : then = [n \in A \cup {k} |-> IF n = k THEN v ELSE ms[n]]
  OBVIOUS
<1>7. then \in [A \cup {k} -> V] /\ A \cup {k} \in SUBSET K
  BY <1>1, <1>4, <1>6
<1>8. PICK more : more \in Seq(K) /\ more = IF k \in A THEN keys ELSE Append(keys, k)
  BY <1>3, <1>5
<1>9. AddMember(o, pair) = [keys |-> more, members |-> then]
  BY <1>1, <1>2, <1>4, <1>6, <1>8 DEF AddMember, Object, Names
<1>10. then \in UNION {[B -> V] : B \in SUBSET K}
  BY <1>7
<1> QED
  BY <1>8, <1>9, <1>10 DEF Objects

(* g is what the loop of decodeFrom goes through.                          *)
IsDecoded(g, pairs) ==
    /\ g[0] = NoMembers
    /\ \A i \in 1 .. Len(pairs) : g[i] = AddMember(g[i - 1], pairs[i])

(* There is such a run for every text,                                     *)
LEMMA DecodedExists ==
    ASSUME NEW K, NEW V, NEW pairs, NEW n \in Nat, n = Len(pairs),
           \A i \in 1 .. n : pairs[i][1] \in K /\ pairs[i][2] \in V
    PROVE  \E g \in [0 .. n -> Objects(K, V)] : IsDecoded(g, pairs)
<1>1. PICK S : S = Objects(K, V)
  OBVIOUS
<1>2. PICK b : b = NoMembers
  OBVIOUS
<1>3. b \in S
  <2>1. EmptyMembers \in [{} -> V]
    BY DEF EmptyMembers
  <2>2. << >> \in Seq(K)
    OBVIOUS
  <2> QED
    BY <1>1, <1>2, <2>1, <2>2 DEF NoMembers, Object, Objects
<1>4. PICK f : f = [x \in (1 .. n) \X S |-> AddMember(x[2], pairs[x[1]])]
  OBVIOUS
<1>5. f \in [(1 .. n) \X S -> S]
  <2>1. ASSUME NEW x \in (1 .. n) \X S PROVE AddMember(x[2], pairs[x[1]]) \in S
    <3>1. x[1] \in 1 .. n /\ x[2] \in S
      OBVIOUS
    <3>2. pairs[x[1]][1] \in K /\ pairs[x[1]][2] \in V
      BY <3>1
    <3> QED
      BY <1>1, <3>1, <3>2, AddMemberType
  <2> QED
    BY <1>4, <2>1
<1>6. PICK g \in [0 .. n -> S] : Iterated(g, n, b, f)
  BY <1>3, <1>5, Iterates
<1>7. g[0] = b /\ \A i \in 1 .. n : g[i] = f[<< i, g[i - 1] >>]
  BY <1>6 DEF Iterated
<1>8. ASSUME NEW i \in 1 .. n PROVE g[i] = AddMember(g[i - 1], pairs[i])
  <2>1. i - 1 \in 0 .. n
    OBVIOUS
  <2>2. g[i - 1] \in S
    BY <1>6, <2>1
  <2>3. PICK x : x = << i, g[i - 1] >>
    OBVIOUS
  <2>4. x \in (1 .. n) \X S /\ x[1] = i /\ x[2] = g[i - 1]
    BY <2>2, <2>3
  <2>5. f[x] = AddMember(g[i - 1], pairs[i])
    BY <1>4, <2>4
  <2> QED
    BY <1>7, <2>3, <2>5
<1> QED
  BY <1>1, <1>2, <1>6, <1>7, <1>8 DEF IsDecoded

(* and Decode is where it ends.                                            *)
LEMMA DecodedIs ==
    ASSUME NEW pairs, Len(pairs) \in Nat, NEW g, IsDecoded(g, pairs)
    PROVE  Decode(pairs) = g[Len(pairs)]
<1>1. PICK n \in Nat : n = Len(pairs) /\ n \in 0 .. n
  OBVIOUS
<1> DEFINE body(f) == [i \in 0 .. n |-> IF i = 0 THEN Object(<< >>, EmptyMembers)
                                        ELSE AddMember(f[i - 1], pairs[i])]
           object == CHOOSE f : f = body(f)
<1>2. Decode(pairs) = object[n]
  BY <1>1 DEF Decode
<1>3. PICK h : h = [i \in 0 .. n |-> g[i]]
  OBVIOUS
<1> HIDE DEF object
<1>4. h = body(h)
  <2>1. ASSUME NEW i \in 0 .. n
        PROVE  g[i] = IF i = 0 THEN Object(<< >>, EmptyMembers) ELSE AddMember(h[i - 1], pairs[i])
    <3>1. CASE i = 0
      BY <3>1 DEF IsDecoded, NoMembers
    <3>2. CASE i # 0
      <4>1. i \in 1 .. n /\ i - 1 \in 0 .. n
        BY <3>2
      <4>2. h[i - 1] = g[i - 1]
        BY <1>3, <4>1
      <4> QED
        BY <1>1, <3>2, <4>1, <4>2 DEF IsDecoded
    <3> QED
      BY <3>1, <3>2
  <2> QED
    BY <1>3, <2>1
<1>5. object = body(object)
  <2> HIDE DEF body
  <2> QED
    BY <1>4 DEF object
<1>6. PICK f : f = object
  OBVIOUS
<1>7. f = body(f)
  BY <1>5, <1>6
<1>8. f[0] = g[0]
  <2>1. f[0] = Object(<< >>, EmptyMembers)
    BY <1>7
  <2> QED
    BY <2>1 DEF IsDecoded, NoMembers
<1>9. ASSUME NEW i \in 1 .. n, f[i - 1] = g[i - 1] PROVE f[i] = g[i]
  <2>1. i \in 0 .. n /\ i # 0
    OBVIOUS
  <2>2. f[i] = AddMember(f[i - 1], pairs[i])
    BY <1>7, <2>1
  <2> QED
    BY <1>1, <1>9, <2>2 DEF IsDecoded
<1> HIDE DEF body
<1>10. \A i \in 0 .. n : f[i] = g[i]
  <2>1. \A i \in 1 .. n : f[i - 1] = g[i - 1] => f[i] = g[i]
    BY <1>9
  <2> QED
    BY <1>8, <2>1, AlikeThroughout
<1> QED
  BY <1>1, <1>2, <1>6, <1>10

(* All of that, of a run of the loop over members with names in K.         *)
Reads(g, pairs, n, K, V) ==
    /\ n \in Nat /\ n = Len(pairs)
    /\ g \in [0 .. n -> Objects(K, V)] /\ IsDecoded(g, pairs)
    /\ \A i \in 1 .. n : pairs[i][1] \in K

(* Every text has one.                                                     *)
LEMMA ReadExists ==
    ASSUME NEW K, NEW V, NEW pairs, NEW n \in Nat, n = Len(pairs),
           \A i \in 1 .. n : pairs[i][1] \in K /\ pairs[i][2] \in V
    PROVE  \E g : Reads(g, pairs, n, K, V)
BY DecodedExists DEF Reads

(* The members are those of the text.                                      *)
LEMMA DecodedNames ==
    ASSUME NEW pairs, NEW n \in Nat, n = Len(pairs), NEW g, IsDecoded(g, pairs)
    PROVE  \A i \in 0 .. n : Names(g[i]) = {pairs[j][1] : j \in 1 .. i}
<1> DEFINE T == {i \in 0 .. n : Names(g[i]) = {pairs[j][1] : j \in 1 .. i}}
<1>1. 0 \in T
  <2>1. g[0] = Object(<< >>, EmptyMembers)
    BY DEF IsDecoded, NoMembers
  <2>2. Names(g[0]) = {}
    BY <2>1 DEF Names, Object, EmptyMembers
  <2>3. {pairs[j][1] : j \in 1 .. 0} = {}
    OBVIOUS
  <2> QED
    BY <2>2, <2>3
<1>2. ASSUME NEW i \in 0 .. n, i \in T, i < n PROVE i + 1 \in T
  <2>1. i + 1 \in 1 .. n /\ i + 1 \in 0 .. n /\ (i + 1) - 1 = i
    BY <1>2
  <2>2. g[i + 1] = AddMember(g[i], pairs[i + 1])
    BY <2>1 DEF IsDecoded
  <2>3. Names(g[i + 1]) = Names(g[i]) \cup {pairs[i + 1][1]}
    BY <2>2 DEF AddMember, Names, Object
  <2>4. \A j : j \in 1 .. i + 1 <=> j \in 1 .. i \/ j = i + 1
    BY <2>1
  <2>5. Names(g[i]) = {pairs[j][1] : j \in 1 .. i}
    BY <1>2
  <2>6. Names(g[i + 1]) = {pairs[j][1] : j \in 1 .. i + 1}
    BY <2>3, <2>4, <2>5
  <2> QED
    BY <2>1, <2>6
<1>3. 0 .. n \subseteq T
  <2> HIDE DEF T
  <2> QED
    BY <1>1, <1>2, IndexInduction
<1> QED
  BY <1>3

(* Of the values of a name the last counts.                                *)
LEMMA DecodedLast ==
    ASSUME NEW pairs, NEW n \in Nat, n = Len(pairs), NEW g, IsDecoded(g, pairs)
    PROVE  \A i \in 0 .. n : \A j \in 1 .. i :
             (\A m \in j + 1 .. i : pairs[m][1] # pairs[j][1])
               => g[i].members[pairs[j][1]] = pairs[j][2]
<1> DEFINE Last_(i, j) == \A m \in j + 1 .. i : pairs[m][1] # pairs[j][1]
           T == {i \in 0 .. n : \A j \in 1 .. i :
                   Last_(i, j) => g[i].members[pairs[j][1]] = pairs[j][2]}
<1>1. 0 \in T
  OBVIOUS
<1>2. ASSUME NEW i \in 0 .. n, i \in T, i < n PROVE i + 1 \in T
  <2>1. i + 1 \in 1 .. n /\ i + 1 \in 0 .. n /\ (i + 1) - 1 = i
    BY <1>2
  <2>2. g[i + 1] = AddMember(g[i], pairs[i + 1])
    BY <2>1 DEF IsDecoded
  <2>3. PICK ms, k, v : ms = g[i].members /\ k = pairs[i + 1][1] /\ v = pairs[i + 1][2]
    OBVIOUS
  <2>4. PICK then : then = [x \in DOMAIN ms \cup {k} |-> IF x = k THEN v ELSE ms[x]]
    OBVIOUS
  <2>5. g[i + 1].members = then
    BY <2>2, <2>3, <2>4 DEF AddMember, Names, Object
  <2>6. DOMAIN ms = {pairs[j][1] : j \in 1 .. i}
    BY <2>3, DecodedNames DEF Names
  <2>7. ASSUME NEW j \in 1 .. i + 1, Last_(i + 1, j)
        PROVE  then[pairs[j][1]] = pairs[j][2]
    <3>1. CASE j = i + 1
      BY <2>3, <2>4, <3>1
    <3>2. CASE j # i + 1
      <4>1. j \in 1 .. i /\ i + 1 \in j + 1 .. i + 1 /\ \A m \in j + 1 .. i : m \in j + 1 .. i + 1
        BY <2>1, <3>2
      <4>2. pairs[j][1] # k
        BY <2>3, <2>7, <4>1
      <4>3. Last_(i, j)
        BY <2>7, <4>1
      <4>4. ms[pairs[j][1]] = pairs[j][2]
        BY <1>2, <2>3, <4>1, <4>3
      <4>5. pairs[j][1] \in DOMAIN ms
        BY <2>6, <4>1
      <4> QED
        BY <2>4, <4>2, <4>4, <4>5
    <3> QED
      BY <3>1, <3>2
  <2> QED
    BY <2>1, <2>5, <2>7
<1>3. 0 .. n \subseteq T
  <2> HIDE DEF T
  <2> QED
    BY <1>1, <1>2, IndexInduction
<1> QED
  BY <1>3

(* The keys that are left without some.                                    *)
Kept(keys, N) ==
    FlattenSeq([i \in DOMAIN keys |-> IF keys[i] \in N THEN << >> ELSE << keys[i] >>])
With(keys, x) == Append(keys, x)

(* A key more is kept unless its name is to go.                            *)
LEMMA KeptWith ==
    ASSUME NEW K, NEW N, NEW keys \in Seq(K), NEW x \in K
    PROVE  /\ Kept(keys, N) \in Seq(K)
           /\ Kept(With(keys, x), N) = IF x \in N THEN Kept(keys, N) ELSE With(Kept(keys, N), x)
<1>1. PICK S : S = Seq(K)
  OBVIOUS
<1>2. PICK n \in Nat : n = Len(keys)
  OBVIOUS
<1>3. PICK one : one = [y \in K |-> IF y \in N THEN << >> ELSE << y >>]
  OBVIOUS
<1>4. ASSUME NEW y \in K PROVE one[y] \in S
  <2>1. << >> \in S /\ << y >> \in S
    BY <1>1
  <2> QED
    BY <1>3, <2>1
<1>5. PICK ss : ss = [i \in 1 .. n |-> one[keys[i]]]
  OBVIOUS
<1>6. ss \in Seq(S) /\ Len(ss) = n
  <2>1. \A i \in 1 .. n : one[keys[i]] \in S
    BY <1>2, <1>4
  <2> QED
    BY <1>5, <2>1, IsASeq
<1>7. Kept(keys, N) = FlattenSeq(ss)
  <2>1. DOMAIN keys = 1 .. n /\ \A i \in 1 .. n : keys[i] \in K
    BY <1>2
  <2>2. [i \in DOMAIN keys |-> IF keys[i] \in N THEN << >> ELSE << keys[i] >>] = ss
    BY <1>3, <1>5, <2>1
  <2> QED
    BY <2>2 DEF Kept
<1>8. PICK more : more = Append(keys, x)
  OBVIOUS
<1>9. more \in Seq(K) /\ Len(more) = n + 1 /\ more[n + 1] = x /\ \A i \in 1 .. n : more[i] = keys[i]
  BY <1>2, <1>8
<1>10. PICK tt : tt = << one[x] >>
  OBVIOUS
<1>11. tt \in Seq(S) /\ Len(tt) = 1 /\ tt[1] = one[x]
  BY <1>4, <1>10
<1>12. PICK u : u = [i \in 1 .. n + 1 |-> one[more[i]]]
  OBVIOUS
<1>13. Kept(more, N) = FlattenSeq(u)
  <2>1. DOMAIN more = 1 .. n + 1 /\ \A i \in 1 .. n + 1 : more[i] \in K
    BY <1>9
  <2>2. [i \in DOMAIN more |-> IF more[i] \in N THEN << >> ELSE << more[i] >>] = u
    BY <1>3, <1>12, <2>1
  <2> QED
    BY <2>2 DEF Kept
<1>14. u = ss \o tt
  <2>1. PICK z : z = Behind(ss, tt)
    OBVIOUS
  <2>2. IsBehind(S, ss, tt, z)
    BY <1>6, <1>11, <2>1, BehindIs
  <2>3. z \in Seq(S) /\ Len(z) = n + 1 /\ z[n + 1] = one[x] /\ \A i \in 1 .. n : z[i] = ss[i]
    BY <1>6, <1>11, <2>2 DEF IsBehind
  <2>4. \A i \in 1 .. n + 1 : one[more[i]] \in S
    BY <1>4, <1>9
  <2>5. u \in Seq(S) /\ Len(u) = n + 1
    <3>1. n + 1 \in Nat
      OBVIOUS
    <3> QED
      BY <1>12, <2>4, <3>1, IsASeq
  <2>6. ASSUME NEW i \in 1 .. n + 1 PROVE u[i] = z[i]
    <3>1. CASE i = n + 1
      BY <1>9, <1>12, <2>3, <3>1
    <3>2. CASE i # n + 1
      <4>1. i \in 1 .. n
        BY <3>2
      <4> QED
        BY <1>5, <1>9, <1>12, <2>3, <4>1
    <3> QED
      BY <3>1, <3>2
  <2>7. u = z
    BY <2>3, <2>5, <2>6, SeqEqual
  <2> QED
    BY <2>1, <2>7 DEF Behind
<1>15. FlattenSeq(ss \o tt) = FlattenSeq(ss) \o FlattenSeq(tt)
  <2>1. ss \in Seq(Seq(K)) /\ tt \in Seq(Seq(K))
    BY <1>1, <1>6, <1>11
  <2> QED
    BY <2>1, FlattenConcat
<1>16. FlattenSeq(tt) = one[x]
  <2>1. one[x] \in Seq(K)
    BY <1>1, <1>4
  <2> QED
    BY <1>10, <2>1, FlattenOne
<1>17. FlattenSeq(ss) \in Seq(K)
  BY <1>1, <1>6, FlattenType
<1>18. \A s \in Seq(K) : s \o << >> = s /\ s \o << x >> = Append(s, x)
  OBVIOUS
<1>19. one[x] = IF x \in N THEN << >> ELSE << x >>
  BY <1>3
<1> QED
  BY <1>7, <1>8, <1>13, <1>14, <1>15, <1>16, <1>17, <1>18, <1>19 DEF With

(* A member that is taken away does not matter, the others stay.           *)
LEMMA WithoutAdd ==
    ASSUME NEW K, NEW V, NEW N, NEW o \in Objects(K, V), NEW pair, pair[1] \in K
    PROVE  Without(AddMember(o, pair), N)
             = IF pair[1] \in N THEN Without(o, N) ELSE AddMember(Without(o, N), pair)
<1>1. PICK k, v : k = pair[1] /\ v = pair[2] /\ k \in K
  OBVIOUS
<1>2. PICK keys, ms : keys = o.keys /\ ms = o.members
  OBVIOUS
<1>3. keys \in Seq(K)
  BY <1>2 DEF Objects
<1>4. PICK kept : kept = Kept(keys, N)
  OBVIOUS
<1>5. Kept(Append(keys, k), N) = IF k \in N THEN kept ELSE Append(kept, k)
  <2>1. Kept(With(keys, k), N) = IF k \in N THEN Kept(keys, N) ELSE With(Kept(keys, N), k)
    BY <1>1, <1>3, KeptWith
  <2> QED
    BY <1>4, <2>1 DEF With
<1>6. PICK left : left = [n \in DOMAIN ms \ N |-> ms[n]]
  OBVIOUS
<1>7. Without(o, N) = Object(kept, left)
  BY <1>2, <1>4, <1>6 DEF Without, Kept, Names
<1>8. PICK then : then = [n \in DOMAIN ms \cup {k} |-> IF n = k THEN v ELSE ms[n]]
  OBVIOUS
<1>9. PICK more : more = IF k \in DOMAIN ms THEN keys ELSE Append(keys, k)
  OBVIOUS
<1>10. AddMember(o, pair) = Object(more, then)
  BY <1>1, <1>2, <1>8, <1>9 DEF AddMember, Names
<1>11. Without(Object(more, then), N) = Object(Kept(more, N), [n \in DOMAIN then \ N |-> then[n]])
  BY DEF Without, Kept, Names, Object
<1>12. DOMAIN then = DOMAIN ms \cup {k}
  BY <1>8
<1>13. CASE k \in N
  <2>1. Kept(more, N) = kept
    BY <1>4, <1>5, <1>9, <1>13
  <2>2. [n \in DOMAIN then \ N |-> then[n]] = left
    BY <1>6, <1>8, <1>12, <1>13
  <2> QED
    BY <1>1, <1>7, <1>10, <1>11, <1>13, <2>1, <2>2
<1>14. CASE k \notin N
  <2>1. DOMAIN left = DOMAIN ms \ N
    BY <1>6
  <2>2. AddMember(Object(kept, left), pair)
          = Object(IF k \in DOMAIN left THEN kept ELSE Append(kept, k),
                   [n \in DOMAIN left \cup {k} |-> IF n = k THEN v ELSE left[n]])
    BY <1>1 DEF AddMember, Names, Object
  <2>3. Kept(more, N) = IF k \in DOMAIN left THEN kept ELSE Append(kept, k)
    BY <1>4, <1>5, <1>9, <1>14, <2>1
  <2>4. [n \in DOMAIN then \ N |-> then[n]] = [n \in DOMAIN left \cup {k} |-> IF n = k THEN v ELSE left[n]]
    <3>1. DOMAIN then \ N = DOMAIN left \cup {k}
      BY <1>12, <1>14, <2>1
    <3>2. ASSUME NEW n \in DOMAIN left \cup {k} PROVE then[n] = IF n = k THEN v ELSE left[n]
      BY <1>6, <1>8, <2>1
    <3> QED
      BY <3>1, <3>2
  <2> QED
    BY <1>1, <1>7, <1>10, <1>11, <1>14, <2>2, <2>3, <2>4
<1> QED
  BY <1>13, <1>14

(* There is nothing to take from the empty object.                         *)
LEMMA WithoutNone == ASSUME NEW N PROVE Without(NoMembers, N) = NoMembers
<1>1. PICK keys : keys = << >>
  OBVIOUS
<1>2. [i \in DOMAIN keys |-> IF keys[i] \in N THEN << >> ELSE << keys[i] >>] = << >>
  BY <1>1
<1>3. Kept(keys, N) = << >>
  <2>1. FlattenSeq(<< >>) = << >>
    BY DEF FlattenSeq
  <2> QED
    BY <1>2, <2>1 DEF Kept
<1>4. [k \in DOMAIN EmptyMembers \ N |-> EmptyMembers[k]] = EmptyMembers
  BY DEF EmptyMembers
<1> QED
  BY <1>1, <1>3, <1>4 DEF Without, NoMembers, Object, Names, Kept

(* Decode of such a text is an object,                                     *)
LEMMA ReadIs ==
    ASSUME NEW K, NEW V, NEW pairs, NEW n, NEW g, Reads(g, pairs, n, K, V)
    PROVE  Decode(pairs) = g[n] /\ g[n] \in Objects(K, V) /\ IsObject(g[n])
<1>1. PICK m \in Nat : m = n /\ m = Len(pairs) /\ m \in 0 .. m
  BY DEF Reads
<1>2. Decode(pairs) = g[Len(pairs)]
  <2>1. Len(pairs) \in Nat /\ IsDecoded(g, pairs)
    BY <1>1 DEF Reads
  <2> QED
    BY <2>1, DecodedIs
<1>3. g[m] \in Objects(K, V)
  BY <1>1 DEF Reads
<1>4. IsObject(g[m])
  BY <1>3 DEF Objects, IsObject
<1> QED
  BY <1>1, <1>2, <1>3, <1>4

(* with the names of the text                                              *)
LEMMA ReadNames ==
    ASSUME NEW K, NEW V, NEW pairs, NEW n, NEW g, Reads(g, pairs, n, K, V)
    PROVE  Names(g[n]) = {pairs[j][1] : j \in 1 .. n}
<1>1. n \in Nat /\ n = Len(pairs) /\ IsDecoded(g, pairs) /\ n \in 0 .. n
  BY DEF Reads
<1>2. \A i \in 0 .. n : Names(g[i]) = {pairs[j][1] : j \in 1 .. i}
  BY <1>1, DecodedNames
<1> QED
  BY <1>1, <1>2

(* and the last value of each.                                             *)
LEMMA ReadLast ==
    ASSUME NEW K, NEW V, NEW pairs, NEW n, NEW g, Reads(g, pairs, n, K, V),
           NEW j \in 1 .. n, \A m \in j + 1 .. n : pairs[m][1] # pairs[j][1]
    PROVE  g[n].members[pairs[j][1]] = pairs[j][2]
<1>1. n \in Nat /\ n = Len(pairs) /\ IsDecoded(g, pairs) /\ n \in 0 .. n
  BY DEF Reads
<1>2. \A i \in 0 .. n : \A k \in 1 .. i :
        (\A m \in k + 1 .. i : pairs[m][1] # pairs[k][1])
          => g[i].members[pairs[k][1]] = pairs[k][2]
  BY <1>1, DecodedLast
<1> QED
  BY <1>1, <1>2

(* The places of names that did not occur before, up to i.                 *)
Firsts(pairs, i) == {j \in 1 .. i : \A m \in 1 .. j - 1 : pairs[m][1] # pairs[j][1]}

(* They are finitely many, and each counts one more than those before it.  *)
LEMMA FirstsCounted ==
    ASSUME NEW pairs, NEW i \in Nat
    PROVE  /\ Cardinality(Firsts(pairs, i)) \in Nat
           /\ \A j \in Firsts(pairs, i) :
                /\ Cardinality(Firsts(pairs, j)) \in 1 .. Cardinality(Firsts(pairs, i))
                /\ Firsts(pairs, j) = {m \in Firsts(pairs, i) : m <= j}
<1>1. PICK F : F = Firsts(pairs, i)
  OBVIOUS
<1>2. IsFiniteSet(F) /\ Cardinality(F) \in Nat
  <2>1. IsFiniteSet(1 .. i) /\ F \subseteq 1 .. i
    BY <1>1, FS_Interval DEF Firsts
  <2> QED
    BY <2>1, FS_Subset, FS_CardinalityType
<1>3. ASSUME NEW j \in F
      PROVE  /\ Cardinality(Firsts(pairs, j)) \in 1 .. Cardinality(F)
             /\ Firsts(pairs, j) = {m \in F : m <= j}
  <2>1. PICK G : G = Firsts(pairs, j)
    OBVIOUS
  <2>2. j \in 1 .. i /\ j \in G
    BY <1>1, <2>1 DEF Firsts
  <2>3. G = {m \in F : m <= j}
    BY <1>1, <2>1, <2>2 DEF Firsts
  <2>4. G \subseteq F /\ G # {}
    BY <2>2, <2>3
  <2>5. IsFiniteSet(G) /\ Cardinality(G) <= Cardinality(F)
    BY <1>2, <2>4, FS_Subset
  <2>6. Cardinality(G) \in Nat /\ Cardinality(G) # 0
    BY <2>4, <2>5, FS_CardinalityType, FS_EmptySet
  <2> QED
    BY <1>2, <2>1, <2>3, <2>5, <2>6
<1> QED
  BY <1>1, <1>2, <1>3

(* One pair more: a new name is one more of them, a known name is not.     *)
LEMMA FirstsNext ==
    ASSUME NEW pairs, NEW i \in Nat
    PROVE  IF pairs[i + 1][1] \in {pairs[j][1] : j \in 1 .. i}
           THEN Firsts(pairs, i + 1) = Firsts(pairs, i)
           ELSE /\ Firsts(pairs, i + 1) = Firsts(pairs, i) \cup {i + 1}
                /\ Cardinality(Firsts(pairs, i + 1)) = Cardinality(Firsts(pairs, i)) + 1
<1>1. PICK m \in Nat : m = i + 1 /\ m - 1 = i
  OBVIOUS
<1>2. \A j : j \in 1 .. m <=> j \in 1 .. i \/ j = m
  BY <1>1
<1>3. m \notin 1 .. i
  BY <1>1
<1>4. CASE pairs[m][1] \in {pairs[j][1] : j \in 1 .. i}
  <2>1. Firsts(pairs, m) = Firsts(pairs, i)
    BY <1>1, <1>2, <1>4 DEF Firsts
  <2> QED
    BY <1>1, <1>4, <2>1
<1>5. CASE pairs[m][1] \notin {pairs[j][1] : j \in 1 .. i}
  <2>1. PICK F : F = Firsts(pairs, i)
    OBVIOUS
  <2>2. Firsts(pairs, m) = F \cup {m}
    BY <1>1, <1>2, <1>5, <2>1 DEF Firsts
  <2>3. m \notin F
    BY <1>3, <2>1 DEF Firsts
  <2>4. IsFiniteSet(F)
    <3>1. F \subseteq 1 .. i /\ IsFiniteSet(1 .. i)
      BY <2>1, FS_Interval DEF Firsts
    <3> QED
      BY <3>1, FS_Subset
  <2>5. Cardinality(F \cup {m}) = Cardinality(F) + 1
    BY <2>3, <2>4, FS_AddElement
  <2> QED
    BY <1>1, <1>5, <2>1, <2>2, <2>5
<1> QED
  BY <1>1, <1>4, <1>5

(* The keys are the names in the order of their first places.              *)
Ranked(keys, pairs, i) ==
    /\ Len(keys) = Cardinality(Firsts(pairs, i))
    /\ \A j \in Firsts(pairs, i) : keys[Cardinality(Firsts(pairs, j))] = pairs[j][1]

(* The loop keeps them so.                                                 *)
LEMMA DecodedKeys ==
    ASSUME NEW K, NEW V, NEW pairs, NEW n, NEW g, Reads(g, pairs, n, K, V)
    PROVE  Ranked(g[n].keys, pairs, n)
<1>0. /\ n \in Nat /\ n = Len(pairs) /\ IsDecoded(g, pairs)
      /\ g \in [0 .. n -> Objects(K, V)] /\ \A i \in 1 .. n : pairs[i][1] \in K
  BY DEF Reads
<1> DEFINE T == {i \in 0 .. n : Ranked(g[i].keys, pairs, i)}
<1>1. 0 \in T
  <2>1. PICK keys : keys = g[0].keys
    OBVIOUS
  <2>2. keys = << >>
    BY <1>0, <2>1 DEF IsDecoded, NoMembers, Object
  <2>3. Firsts(pairs, 0) = {}
    BY DEF Firsts
  <2>4. Ranked(keys, pairs, 0)
    BY <2>2, <2>3, FS_EmptySet DEF Ranked
  <2> QED
    BY <1>0, <2>1, <2>4
<1>2. ASSUME NEW i \in 0 .. n, i \in T, i < n PROVE i + 1 \in T
  <2>1. i + 1 \in 1 .. n /\ i + 1 \in 0 .. n /\ (i + 1) - 1 = i /\ i \in Nat
    BY <1>0, <1>2
  <2>2. g[i + 1] = AddMember(g[i], pairs[i + 1])
    BY <1>0, <2>1 DEF IsDecoded
  <2>3. PICK keys, name, c : keys = g[i].keys /\ name = pairs[i + 1][1] /\ c = Cardinality(Firsts(pairs, i))
    OBVIOUS
  <2>4. keys \in Seq(K) /\ name \in K
    BY <1>0, <2>1, <2>3 DEF Objects
  <2>5. Len(keys) = c /\ \A j \in Firsts(pairs, i) : keys[Cardinality(Firsts(pairs, j))] = pairs[j][1]
    BY <1>2, <2>3 DEF Ranked
  <2>6. Names(g[i]) = {pairs[j][1] : j \in 1 .. i}
    <3>1. \A k \in 0 .. n : Names(g[k]) = {pairs[j][1] : j \in 1 .. k}
      BY <1>0, DecodedNames
    <3> QED
      BY <3>1
  <2>7. PICK then : then = IF name \in Names(g[i]) THEN keys ELSE Append(keys, name)
    OBVIOUS
  <2>8. g[i + 1].keys = then
    BY <2>2, <2>3, <2>7 DEF AddMember, Object
  <2>9. CASE name \in Names(g[i])
    <3>1. Firsts(pairs, i + 1) = Firsts(pairs, i)
      BY <2>1, <2>3, <2>6, <2>9, FirstsNext
    <3>2. Ranked(then, pairs, i + 1)
      BY <2>3, <2>5, <2>7, <2>9, <3>1 DEF Ranked
    <3> QED
      BY <2>1, <2>8, <3>2
  <2>10. CASE name \notin Names(g[i])
    <3>1. /\ Firsts(pairs, i + 1) = Firsts(pairs, i) \cup {i + 1}
          /\ Cardinality(Firsts(pairs, i + 1)) = c + 1
      BY <2>1, <2>3, <2>6, <2>10, FirstsNext
    <3>2. /\ then = Append(keys, name) /\ Len(then) = c + 1 /\ then[c + 1] = name
          /\ \A k \in 1 .. c : then[k] = keys[k]
      BY <2>4, <2>5, <2>7, <2>10
    <3>3. ASSUME NEW j \in Firsts(pairs, i + 1)
          PROVE  then[Cardinality(Firsts(pairs, j))] = pairs[j][1]
      <4>1. CASE j = i + 1
        BY <2>3, <3>1, <3>2, <4>1
      <4>2. CASE j # i + 1
        <5>1. j \in Firsts(pairs, i)
          BY <3>1, <4>2
        <5>2. PICK k : k = Cardinality(Firsts(pairs, j))
          OBVIOUS
        <5>3. k \in 1 .. c
          BY <2>1, <2>3, <5>1, <5>2, FirstsCounted
        <5>4. keys[k] = pairs[j][1]
          BY <2>5, <5>1, <5>2
        <5> QED
          BY <3>2, <5>2, <5>3, <5>4
      <4> QED
        BY <4>1, <4>2
    <3>4. Ranked(then, pairs, i + 1)
      BY <3>1, <3>2, <3>3 DEF Ranked
    <3> QED
      BY <2>1, <2>8, <3>4
  <2> QED
    BY <2>9, <2>10
<1>3. 0 .. n \subseteq T
  <2> HIDE DEF T
  <2> QED
    BY <1>0, <1>1, <1>2, IndexInduction
<1> QED
  BY <1>0, <1>3

(* Taking away what is not there changes nothing,                          *)
LEMMA ReadOthers ==
    ASSUME NEW K, NEW V, NEW pairs, NEW n, NEW g, Reads(g, pairs, n, K, V), NEW N,
           \A i \in 1 .. n : pairs[i][1] \notin N
    PROVE  n \in 0 .. n /\ \A i \in 0 .. n : Without(g[i], N) = g[i]
<1>0. /\ n \in Nat /\ n = Len(pairs) /\ IsDecoded(g, pairs)
      /\ g \in [0 .. n -> Objects(K, V)] /\ \A i \in 1 .. n : pairs[i][1] \in K \ N
  BY DEF Reads
<1> USE <1>0
<1> DEFINE T == {i \in 0 .. n : Without(g[i], N) = g[i]}
<1>1. 0 \in T
  <2>1. g[0] = NoMembers
    BY DEF IsDecoded
  <2>2. Without(NoMembers, N) = NoMembers
    BY WithoutNone
  <2> QED
    BY <2>1, <2>2
<1>2. ASSUME NEW i \in 0 .. n, i \in T, i < n PROVE i + 1 \in T
  <2>1. i + 1 \in 1 .. n /\ i + 1 \in 0 .. n /\ (i + 1) - 1 = i
    BY <1>2
  <2>2. g[i + 1] = AddMember(g[i], pairs[i + 1])
    BY <2>1 DEF IsDecoded
  <2>3. PICK o \in Objects(K, V) : o = g[i]
    OBVIOUS
  <2>4. PICK pair : pair = pairs[i + 1]
    OBVIOUS
  <2>5. pair[1] \in K /\ pair[1] \notin N
    BY <2>1, <2>4
  <2>6. Without(AddMember(o, pair), N) = AddMember(Without(o, N), pair)
    BY <2>5, WithoutAdd
  <2> QED
    BY <1>2, <2>1, <2>2, <2>3, <2>4, <2>6
<1>3. 0 .. n \subseteq T
  <2> HIDE DEF T
  <2> QED
    BY <1>1, <1>2, IndexInduction
<1> QED
  BY <1>3

(* A text with one member more, whose name is one of N; no other's is.     *)
Inserts(with, pairs, n, at, N) ==
    /\ at \in 1 .. n + 1 /\ with[at][1] \in N
    /\ \A i \in 1 .. at - 1 : with[i] = pairs[i]
    /\ \A i \in at .. n : with[i + 1] = pairs[i]
    /\ \A i \in 1 .. n : pairs[i][1] \notin N

(* and taking away what was put in restores the rest.                      *)
LEMMA ReadInserted ==
    ASSUME NEW K, NEW V, NEW pairs, NEW n, NEW g, Reads(g, pairs, n, K, V),
           NEW with, NEW m, m = n + 1, NEW h, Reads(h, with, m, K, V),
           NEW at, NEW N, Inserts(with, pairs, n, at, N)
    PROVE  Without(h[m], N) = g[n]
<1>a. /\ n \in Nat /\ n = Len(pairs) /\ IsDecoded(g, pairs)
      /\ g \in [0 .. n -> Objects(K, V)] /\ \A i \in 1 .. n : pairs[i][1] \in K \ N
  BY DEF Reads, Inserts
<1>b. at \in 1 .. n + 1 /\ Len(with) = n + 1 /\ IsDecoded(h, with) /\ h \in [0 .. n + 1 -> Objects(K, V)]
  BY DEF Reads, Inserts
<1>c. with[at][1] \in K \cap N
  BY DEF Reads, Inserts
<1>d. (\A i \in 1 .. at - 1 : with[i] = pairs[i]) /\ \A i \in at .. n : with[i + 1] = pairs[i]
  BY DEF Inserts
<1> USE <1>a, <1>b, <1>c, <1>d
<1> DEFINE Of(i) == IF i < at THEN i ELSE i - 1
           T == {i \in 0 .. n + 1 : Without(h[i], N) = g[Of(i)]}
<1>1. 0 \in T
  <2>1. h[0] = NoMembers /\ g[0] = NoMembers
    BY DEF IsDecoded
  <2>2. Without(NoMembers, N) = NoMembers
    BY WithoutNone
  <2> QED
    BY <2>1, <2>2
<1>2. ASSUME NEW i \in 0 .. n + 1, i \in T, i < n + 1 PROVE i + 1 \in T
  <2>1. i + 1 \in 1 .. n + 1 /\ i + 1 \in 0 .. n + 1 /\ (i + 1) - 1 = i
    BY <1>2
  <2>2. h[i + 1] = AddMember(h[i], with[i + 1])
    BY <2>1 DEF IsDecoded
  <2>3. PICK o \in Objects(K, V) : o = h[i]
    OBVIOUS
  <2>4. PICK pair : pair = with[i + 1]
    OBVIOUS
  <2>5. Without(o, N) = g[Of(i)]
    BY <1>2, <2>3
  <2>6. CASE i + 1 = at
    <3>1. pair[1] \in K /\ pair[1] \in N
      BY <2>4, <2>6
    <3>2. Without(AddMember(o, pair), N) = Without(o, N)
      BY <3>1, WithoutAdd
    <3>3. Of(i) = Of(i + 1)
      BY <2>6
    <3> QED
      BY <2>1, <2>2, <2>3, <2>4, <2>5, <3>2, <3>3
  <2>7. CASE i + 1 # at
    <3>1. PICK j \in 1 .. n : j = Of(i + 1) /\ pair = pairs[j] /\ Of(i) = j - 1
      <4>1. CASE i + 1 < at
        <5>1. i + 1 \in 1 .. n /\ i + 1 \in 1 .. at - 1 /\ Of(i + 1) = i + 1 /\ Of(i) = (i + 1) - 1
          BY <2>1, <4>1
        <5> QED
          BY <2>4, <5>1
      <4>2. CASE ~(i + 1 < at)
        <5>1. i \in at .. n /\ i \in 1 .. n /\ Of(i + 1) = i /\ Of(i) = i - 1
          BY <2>1, <2>7, <4>2
        <5> QED
          BY <2>4, <5>1
      <4> QED
        BY <4>1, <4>2
    <3>2. pair[1] \in K /\ pair[1] \notin N
      BY <3>1
    <3>3. Without(AddMember(o, pair), N) = AddMember(Without(o, N), pair)
      BY <3>2, WithoutAdd
    <3>4. g[j] = AddMember(g[j - 1], pairs[j])
      BY <3>1 DEF IsDecoded
    <3> HIDE DEF Of
    <3> QED
      BY <2>1, <2>2, <2>3, <2>4, <2>5, <3>1, <3>3, <3>4
  <2> QED
    BY <2>6, <2>7
<1>3. 0 .. n + 1 \subseteq T
  <2>1. n + 1 \in Nat
    OBVIOUS
  <2> HIDE DEF T
  <2> QED
    BY <1>1, <1>2, <2>1, IndexInduction
<1>4. n + 1 \in T /\ Of(n + 1) = n
  BY <1>3
<1> QED
  BY <1>4

(* A sequence with one more element in it.                                 *)
IsInserted(S, s, i, x, z) ==
    /\ z \in Seq(S) /\ Len(z) = Len(s) + 1 /\ z[i] = x
    /\ \A j \in 1 .. i - 1 : z[j] = s[j]
    /\ \A j \in i .. Len(s) : z[j + 1] = s[j]

(* InsertAt makes it.                                                      *)
LEMMA InsertedIs ==
    ASSUME NEW S, NEW s \in Seq(S), NEW i \in 1 .. Len(s) + 1, NEW x \in S
    PROVE  IsInserted(S, s, i, x, InsertAt(s, i, x))
<1>n. PICK n \in Nat : n = Len(s) /\ i \in 1 .. n + 1
  OBVIOUS
<1>z. PICK w : w = InsertAt(s, i, x)
  OBVIOUS
<1>1. PICK a, b, c : a = SubSeq(s, 1, i - 1) /\ b = << x >> /\ c = SubSeq(s, i, n)
  OBVIOUS
<1>2. a \in Seq(S) /\ Len(a) = i - 1 /\ \A j \in 1 .. i - 1 : a[j] = s[j]
  <2>1. 1 \in Int /\ i - 1 \in Int /\ \A j \in 1 .. i - 1 : s[j] \in S
    BY <1>n
  <2>2. /\ SubSeq(s, 1, i - 1) \in Seq(S)
        /\ Len(SubSeq(s, 1, i - 1)) = IF 1 <= i - 1 THEN (i - 1) - 1 + 1 ELSE 0
        /\ \A j \in 1 .. (i - 1) - 1 + 1 : SubSeq(s, 1, i - 1)[j] = s[1 + j - 1]
    BY <2>1, SubSeqProperties
  <2>3. (i - 1) - 1 + 1 = i - 1 /\ (~(1 <= i - 1) => i - 1 = 0) /\ \A j \in 1 .. i - 1 : 1 + j - 1 = j
    BY <1>n
  <2> QED
    BY <1>1, <2>2, <2>3
<1>3. c \in Seq(S) /\ Len(c) = n - i + 1 /\ \A j \in 1 .. n - i + 1 : c[j] = s[i + j - 1]
  <2>1. i \in Int /\ n \in Int /\ \A j \in i .. n : s[j] \in S
    BY <1>n
  <2>2. /\ SubSeq(s, i, n) \in Seq(S)
        /\ Len(SubSeq(s, i, n)) = IF i <= n THEN n - i + 1 ELSE 0
        /\ \A j \in 1 .. n - i + 1 : SubSeq(s, i, n)[j] = s[i + j - 1]
    BY <2>1, SubSeqProperties
  <2>3. ~(i <= n) => n - i + 1 = 0
    BY <1>n
  <2> QED
    BY <1>1, <2>2, <2>3
<1>4. b \in Seq(S) /\ Len(b) = 1 /\ b[1] = x
  BY <1>1
<1>5. PICK ab : ab = Behind(a, b)
  OBVIOUS
<1>6. IsBehind(S, a, b, ab)
  BY <1>2, <1>4, <1>5, BehindIs
<1>7. ab \in Seq(S) /\ Len(ab) = i /\ ab[i] = x /\ \A j \in 1 .. i - 1 : ab[j] = s[j]
  BY <1>2, <1>4, <1>6 DEF IsBehind
<1>8. w = Behind(ab, c)
  BY <1>n, <1>z, <1>1, <1>5 DEF Behind, InsertAt
<1>9. IsBehind(S, ab, c, w)
  BY <1>3, <1>7, <1>8, BehindIs
<1>10. /\ w \in Seq(S) /\ Len(w) = i + (n - i + 1)
       /\ \A j \in 1 .. i : w[j] = ab[j]
       /\ \A j \in 1 .. n - i + 1 : w[i + j] = s[i + j - 1]
  BY <1>3, <1>7, <1>9 DEF IsBehind
<1>11. ASSUME NEW j \in i .. n PROVE w[j + 1] = s[j]
  <2>1. PICK k : k = j - i + 1
    OBVIOUS
  <2>2. k \in 1 .. n - i + 1 /\ i + k = j + 1 /\ i + k - 1 = j
    BY <1>n, <2>1
  <2> QED
    BY <1>10, <2>2
<1>12. i + (n - i + 1) = n + 1 /\ i \in 1 .. i /\ \A j \in 1 .. i - 1 : j \in 1 .. i
  BY <1>n
<1> QED
  BY <1>n, <1>z, <1>7, <1>10, <1>11, <1>12 DEF IsInserted

ViewNames == {"_view", "_views"}

(* A representation has members of its own only,                           *)
LEMMA PayloadText ==
    ASSUME NEW p \in Payload
    PROVE  /\ p \in Seq(Range(p)) /\ Len(p) \in Nat
           /\ \A i \in 1 .. Len(p) : p[i][1] \notin ViewNames
<1>1. p \in Seq(Range(p)) /\ \A i \in DOMAIN p : p[i][1] \notin ViewNames
  BY WireAssumption DEF ViewNames
<1>2. PICK S : S = Range(p)
  OBVIOUS
<1>3. p \in Seq(S)
  BY <1>1, <1>2
<1>4. Len(p) \in Nat /\ DOMAIN p = 1 .. Len(p)
  BY <1>3
<1> QED
  BY <1>1, <1>4

(* so that nothing is stripped from it when it comes without a descriptor, *)
LEMMA PayloadDecoded ==
    ASSUME NEW p \in Payload
    PROVE  /\ IsObject(Decode(p)) /\ Names(Decode(p)) \cap ViewNames = {}
           /\ StripDescriptor(Decode(p)) = Decode(p)
<1>1. PICK n \in Nat : n = Len(p) /\ n \in 0 .. n
  BY PayloadText
<1>2. \A i \in 1 .. n : p[i][1] \notin ViewNames
  BY <1>1, PayloadText
<1>3. PICK K, V : K = {p[i][1] : i \in 1 .. n} /\ V = {p[i][2] : i \in 1 .. n}
  OBVIOUS
<1>4. \A i \in 1 .. n : p[i][1] \in K /\ p[i][2] \in V
  BY <1>3
<1>5. PICK g : Reads(g, p, n, K, V)
  BY <1>1, <1>4, ReadExists
<1>6. Decode(p) = g[n] /\ g[n] \in Objects(K, V) /\ IsObject(g[n])
  BY <1>5, ReadIs
<1>7. PICK o : o = g[n]
  OBVIOUS
<1>8. IsObject(o)
  BY <1>6, <1>7
<1>9. Names(o) = {p[i][1] : i \in 1 .. n}
  BY <1>5, <1>7, ReadNames
<1>10. Without(g[n], ViewNames) = g[n]
  <2>1. \A i \in 0 .. n : Without(g[i], ViewNames) = g[i]
    BY <1>2, <1>5, ReadOthers
  <2> QED
    BY <1>1, <2>1
<1>11. StripDescriptor(o) = Without(o, ViewNames)
  BY <1>8 DEF StripDescriptor, ViewNames
<1> QED
  BY <1>2, <1>6, <1>7, <1>8, <1>9, <1>10, <1>11

(* and gets one for the descriptor.                                        *)
LEMMA CarrierDecoded ==
    ASSUME NEW p \in Payload, NEW name \in ViewNames, NEW v, NEW i \in 1 .. Len(p) + 1,
           NEW q, q = InsertAt(p, i, << name, v >>)
    PROVE  /\ IsObject(Decode(q)) /\ Names(Decode(q)) \cap ViewNames = {name}
           /\ Decode(q).members[name] = v
           /\ StripDescriptor(Decode(q)) = Decode(p)
<1>1. PICK n \in Nat : n = Len(p) /\ n \in 0 .. n
  BY PayloadText
<1>2. p \in Seq(Range(p)) /\ \A j \in 1 .. n : p[j][1] \notin ViewNames
  BY <1>1, PayloadText
<1>3. PICK c : c = << name, v >>
  OBVIOUS
<1>4. c[1] = name /\ c[2] = v
  BY <1>3
<1>5. PICK S : S = Range(p) \cup {c}
  OBVIOUS
<1>6. p \in Seq(S) /\ c \in S
  <2>1. PICK R : R = Range(p)
    OBVIOUS
  <2>2. p \in Seq(R) /\ R \subseteq S
    BY <1>2, <1>5, <2>1
  <2>3. p \in Seq(S)
    BY <2>2
  <2> QED
    BY <1>5, <2>3
<1>7. i \in 1 .. n + 1 /\ q = InsertAt(p, i, c)
  BY <1>1, <1>3
<1>8. /\ q \in Seq(S) /\ Len(q) = n + 1 /\ q[i] = c
      /\ \A j \in 1 .. i - 1 : q[j] = p[j]
      /\ \A j \in i .. n : q[j + 1] = p[j]
  <2>1. IsInserted(S, p, i, c, InsertAt(p, i, c))
    BY <1>6, InsertedIs
  <2> QED
    BY <1>1, <1>7, <2>1 DEF IsInserted
<1>9. PICK K, V : K = {p[j][1] : j \in 1 .. n} \cup {name} /\ V = {p[j][2] : j \in 1 .. n} \cup {v}
  OBVIOUS
<1>10. \A j \in 1 .. n : p[j][1] \in K /\ p[j][2] \in V
  BY <1>9
<1>11. ASSUME NEW j \in 1 .. n + 1
       PROVE \/ j = i
             \/ \E k \in 1 .. n : q[j] = p[k]
  <2>1. CASE j < i
    <3>1. j \in 1 .. i - 1 /\ j \in 1 .. n
      BY <1>7, <2>1
    <3> QED
      BY <1>8, <3>1
  <2>2. CASE j > i
    <3>1. j - 1 \in i .. n /\ j - 1 \in 1 .. n /\ (j - 1) + 1 = j
      BY <1>7, <2>2
    <3> QED
      BY <1>8, <3>1
  <2>3. j < i \/ j > i \/ j = i
    BY <1>7
  <2> QED
    BY <2>1, <2>2, <2>3
<1>12. \A j \in 1 .. n + 1 : q[j][1] \in K /\ q[j][2] \in V
  BY <1>4, <1>8, <1>9, <1>10, <1>11
<1>13. PICK g : Reads(g, p, n, K, V)
  BY <1>1, <1>10, ReadExists
<1>14. PICK m \in Nat : m = n + 1 /\ m \in 0 .. m
  OBVIOUS
<1>15. PICK h : Reads(h, q, m, K, V)
  BY <1>8, <1>12, <1>14, ReadExists
<1>16. Decode(p) = g[n] /\ Decode(q) = h[m]
  BY <1>13, <1>15, ReadIs
<1>17. PICK o : o = h[m]
  OBVIOUS
<1>18. IsObject(o)
  BY <1>15, <1>17, ReadIs
<1>19. Names(o) = {q[j][1] : j \in 1 .. m}
  BY <1>15, <1>17, ReadNames
<1>20. Names(o) \cap ViewNames = {name}
  <2>1. \A j \in 1 .. m : q[j][1] \in ViewNames => q[j][1] = name
    BY <1>2, <1>4, <1>8, <1>11, <1>14
  <2>2. q[i][1] = name /\ i \in 1 .. m
    BY <1>4, <1>7, <1>8, <1>14
  <2> QED
    BY <1>19, <2>1, <2>2
<1>21. o.members[name] = v
  <2>1. ASSUME NEW j \in i + 1 .. m PROVE q[j][1] # name
    <3>1. j - 1 \in i .. n /\ j - 1 \in 1 .. n /\ (j - 1) + 1 = j
      BY <1>7, <1>14
    <3>2. q[j] = p[j - 1]
      BY <1>8, <3>1
    <3> QED
      BY <1>2, <3>1, <3>2
  <2>3. i \in 1 .. m
    BY <1>7, <1>14
  <2>4. \A r \in i + 1 .. m : q[r][1] # q[i][1]
    BY <1>4, <1>8, <2>1
  <2>5. h[m].members[q[i][1]] = q[i][2]
    BY <1>15, <2>3, <2>4, ReadLast
  <2> QED
    BY <1>4, <1>8, <1>17, <2>5
<1>22. Without(h[m], ViewNames) = g[n]
  <2>1. q[i][1] \in ViewNames
    BY <1>4, <1>8
  <2>2. Inserts(q, p, n, i, ViewNames)
    BY <1>2, <1>7, <1>8, <2>1 DEF Inserts
  <2> QED
    BY <1>13, <1>14, <1>15, <2>2, ReadInserted
<1>23. StripDescriptor(o) = Without(o, ViewNames)
  BY <1>18 DEF StripDescriptor, ViewNames
<1> QED
  BY <1>16, <1>17, <1>18, <1>20, <1>21, <1>22, <1>23

(* The text of a body is a finite sequence.                                *)
LEMMA TextIs ==
    ASSUME NEW text \in Texts
    PROVE  Len(text) \in Nat /\ DOMAIN text = 1 .. Len(text)
<1>1. ASSUME NEW p \in Payload PROVE \A R : Range(p) \subseteq R => p \in Seq(R)
  <2>1. PICK S : S = Range(p)
    OBVIOUS
  <2>2. p \in Seq(S)
    BY <2>1, PayloadText
  <2> QED
    BY <2>1, <2>2
<1>2. CASE text \in Payload
  <2>1. PICK S : text \in Seq(S)
    BY <1>1, <1>2
  <2> QED
    BY <2>1
<1>3. CASE text \notin Payload
  <2>1. PICK p \in Payload, d \in Doc : text \in Carrying(p, d)
    BY <1>3 DEF Texts
  <2>2. PICK i \in 1 .. Len(p) + 1, c \in Carriers(d) : text = InsertAt(p, i, c)
    BY <2>1 DEF Carrying
  <2>3. PICK S : S = Range(p) \cup {c}
    OBVIOUS
  <2>4. p \in Seq(S) /\ c \in S
    BY <1>1, <2>3
  <2>5. IsInserted(S, p, i, c, InsertAt(p, i, c))
    BY <2>4, InsertedIs
  <2>6. text \in Seq(S)
    BY <2>2, <2>5 DEF IsInserted
  <2> QED
    BY <2>6
<1> QED
  BY <1>2, <1>3

(* The entries of an object that was read from a text: each name once, in  *)
(* the place of its first occurrence, with the value of its last.          *)
LEMMA EntriesRead ==
    ASSUME NEW text \in Texts, NEW n, n = Len(text), NEW entries, entries = Model(EntriesView, Decode(text)).slice
    PROVE  /\ Len(entries) = Cardinality(Firsts(text, n))
           /\ \A i \in Firsts(text, n), j \in 1 .. n :
                text[j][1] = text[i][1] /\ (\A k \in j + 1 .. n : text[k][1] # text[i][1])
                  => entries[Cardinality(Firsts(text, i))] = Model(WholeView, Pair(text[i][1], text[j][2]))
<1>1. n \in Nat
  BY TextIs
<1>2. PICK K, V : K = {text[i][1] : i \in 1 .. n} /\ V = {text[i][2] : i \in 1 .. n}
  OBVIOUS
<1>3. PICK g : Reads(g, text, n, K, V)
  BY <1>1, <1>2, ReadExists
<1>4. PICK obj, keys, ms, c : obj = g[n] /\ keys = obj.keys /\ ms = obj.members /\ c = Cardinality(Firsts(text, n))
  OBVIOUS
<1>5. Decode(text) = obj /\ obj \in Objects(K, V)
  BY <1>3, <1>4, ReadIs
<1>6. keys \in Seq(K)
  BY <1>4, <1>5 DEF Objects
<1>7. Ranked(keys, text, n)
  BY <1>3, <1>4, DecodedKeys
<1>8. Len(keys) = c /\ \A j \in Firsts(text, n) : keys[Cardinality(Firsts(text, j))] = text[j][1]
  BY <1>4, <1>7 DEF Ranked
<1>9. c \in Nat /\ DOMAIN keys = 1 .. c
  BY <1>6, <1>8
<1>10. entries = [i \in 1 .. c |-> Model(WholeView, Pair(keys[i], ms[keys[i]]))]
  <2>1. Model(EntriesView, obj) = [slice |-> [i \in DOMAIN obj.keys |->
                                     Model(WholeView, Pair(obj.keys[i], obj.members[obj.keys[i]]))]]
    BY <1>5, EntriesAssumption
  <2> QED
    BY <1>4, <1>5, <1>9, <2>1
<1>11. Len(entries) = c
  BY <1>9, <1>10
<1>12. ASSUME NEW i \in Firsts(text, n), NEW j \in 1 .. n, text[j][1] = text[i][1],
              \A k \in j + 1 .. n : text[k][1] # text[i][1]
       PROVE  entries[Cardinality(Firsts(text, i))] = Model(WholeView, Pair(text[i][1], text[j][2]))
  <2>1. PICK r : r = Cardinality(Firsts(text, i))
    OBVIOUS
  <2>2. r \in 1 .. c
    BY <1>1, <1>4, <2>1, FirstsCounted
  <2>3. keys[r] = text[i][1]
    BY <1>8, <2>1
  <2>4. ms[text[j][1]] = text[j][2]
    <3>1. \A k \in j + 1 .. n : text[k][1] # text[j][1]
      BY <1>12
    <3>2. g[n].members[text[j][1]] = text[j][2]
      BY <1>3, <3>1, ReadLast
    <3> QED
      BY <1>4, <3>2
  <2> QED
    BY <1>10, <1>12, <2>1, <2>2, <2>3, <2>4
<1> QED
  BY <1>4, <1>11, <1>12

-----------------------------------------------------------------------------
(* What Extract makes of a response.                                       *)

ResourceURL == [API EXCEPT !.path = Resource.path]

(* A response without a descriptor, and with one by each transport.        *)
Bare == response.pairs = sent.payload /\ response.links = << >> /\ response.header = Absent
Linked == response.pairs = sent.payload /\ Findable(response.links) /\ response.header = Absent
Headed ==
    /\ response.pairs = sent.payload /\ response.links = << >> /\ response.header = sent.doc
    /\ IsObject(sent.doc) /\ Names(sent.doc) = {"template"}
Carried ==
    /\ response.links = << >> /\ response.header = Absent
    /\ response.pairs \in Carrying(sent.payload, sent.doc)

(* Nothing for the transports that the response does not use.              *)
LEMMA NoLinks ==
    ASSUME NEW whole, response.links = << >>
    PROVE  E!ViewLinks(AsExtracted(response, whole)) = {}
<1>1. PICK ls : ls = ParseLinks(response.links)
  OBVIOUS
<1>2. ls \in Seq(LinkSet) /\ Range(ls) = {}
  <2>1. PICK none : none = << >>
    OBVIOUS
  <2>2. none \in Seq(Seq(Token)) /\ LinksOf(none) = {}
    BY <2>1, LinksNone
  <2>3. ParseLinks(none) \in Seq(LinkSet) /\ Range(ParseLinks(none)) = LinksOf(none)
    BY <2>2, ParseLinksRange
  <2> QED
    BY <1>1, <2>1, <2>2, <2>3
<1>3. DOMAIN ls = {}
  BY <1>2 DEF Range
<1>4. DOMAIN AsExtracted(response, whole).links = {}
  BY <1>1, <1>3 DEF AsExtracted
<1> QED
  BY <1>4 DEF E!ViewLinks

(* A representation alone has no view in its body.                         *)
LEMMA NoViews ==
    ASSUME NEW whole, response.pairs \in Payload
    PROVE  AsExtracted(response, whole).view = Absent /\ AsExtracted(response, whole).views = Absent
<1>1. PICK o : o = Decode(response.pairs)
  OBVIOUS
<1>2. Names(o) \cap ViewNames = {}
  BY <1>1, PayloadDecoded
<1>3. ~Has(o, "_view") /\ ~Has(o, "_views")
  BY <1>2 DEF Has, ViewNames
<1>4. Field(o, "_view") = Absent /\ Field(o, "_views") = Absent
  BY <1>3 DEF Field, Member
<1> QED
  BY <1>1, <1>4 DEF AsExtracted

(* The link that is found is the descriptor's.                             *)
LEMMA LinkedExtract ==
    ASSUME NEW whole, response.pairs \in Payload, Findable(response.links)
    PROVE  E!Extract(AsExtracted(response, whole)) = E!Extracted("link", Absent, ResourceURL, ResourceURL)
<1>1. PICK r : r = AsExtracted(response, whole)
  OBVIOUS
<1>2. PICK ls : ls = ParseLinks(response.links)
  OBVIOUS
<1>3. response.links \in Seq(Seq(Token))
  BY DEF Findable, Clean
<1>4. ls \in Seq(LinkSet) /\ Range(ls) = LinksOf(response.links)
  BY <1>2, <1>3, ParseLinksRange
<1>5. PICK n \in Nat : n = Len(ls) /\ DOMAIN ls = 1 .. n
  BY <1>4
<1>6. /\ \A i \in 1 .. n : HasRel(ls[i], ViewRel) => ls[i].url = LinkText
      /\ \E i \in 1 .. n : HasRel(ls[i], ViewRel)
  <2>1. /\ \A l \in Range(ls) : HasRel(l, ViewRel) => l.url = LinkText
        /\ \E l \in Range(ls) : HasRel(l, ViewRel)
    BY <1>4 DEF Findable, Clean
  <2>2. Range(ls) = {ls[i] : i \in 1 .. n}
    BY <1>5 DEF Range
  <2> QED
    BY <2>1, <2>2
<1>7. PICK links : links = [i \in 1 .. n |-> [rel |-> IF HasRel(ls[i], ViewRel) THEN ViewRel ELSE "other",
                                           url |-> IF ls[i].url = LinkText THEN Resource ELSE Absent]]
  OBVIOUS
<1>8. r.links = links /\ r.url = API
  BY <1>1, <1>2, <1>5, <1>7 DEF AsExtracted
<1>9. PICK X : X = E!ViewLinks(r)
  OBVIOUS
<1>10. \A i : i \in X <=> i \in 1 .. n /\ HasRel(ls[i], ViewRel)
  <2>1. \A i \in 1 .. n : links[i].rel = "view-descriptor" <=> HasRel(ls[i], ViewRel)
    BY <1>7 DEF ViewRel
  <2>2. DOMAIN links = 1 .. n
    BY <1>7
  <2> QED
    BY <1>8, <1>9, <2>1, <2>2 DEF E!ViewLinks
<1>11. X \subseteq 1 .. n /\ X # {}
  BY <1>6, <1>10
<1>12. PICK first : first = CHOOSE i \in X : \A j \in X : i <= j
  OBVIOUS
<1>13. first \in X
  <2>1. \E i \in X : \A j \in X : i <= j
    BY <1>11, LeastIndex
  <2> QED
    BY <1>12, <2>1
<1>14. links[first].url = Resource
  BY <1>6, <1>7, <1>10, <1>13
<1>15. Resource # Absent
  BY DEF Resource, Absent
<1>16. E!ResolveRef(Resource, API) = ResourceURL
  <2>1. API # Absent
    BY DEF API, Absent
  <2>2. Resource.form = "rooted"
    BY DEF Resource
  <2> QED
    BY <2>1, <2>2 DEF E!ResolveRef, ResourceURL
<1>17. E!FirstLink(r) = E!Extracted("link", Absent, ResourceURL, ResourceURL)
  BY <1>8, <1>9, <1>12, <1>14, <1>15, <1>16 DEF E!FirstLink
<1>18. r.view = Absent /\ r.views = Absent
  BY <1>1, NoViews
<1> QED
  BY <1>1, <1>9, <1>11, <1>17, <1>18 DEF E!Extract

(* A descriptor in the response itself is the one that was sent: one view, *)
(* which can be read and is valid.                                         *)
Alone == [n \in {"default"} |-> sent.doc]
Legible ==
    /\ ReadView(sent.doc) # Error /\ ValidView(ReadView(sent.doc))
    /\ ~Has(sent.doc, "views")
OwnViews(e) ==
    \/ e = E!Rejected
    \/ e = E!NotFound
    \/ Legible /\ \E transport : e = E!Extracted(transport, Alone, Absent, API)

(* A descriptor that is not malformed is read as one view.                 *)
LEMMA Readable ==
    ASSUME sent.doc \in Doc, sent.doc \notin Malformed
    PROVE  Legible
<1>1. sent.doc \notin Undecodable
  BY DEF Malformed
<1>2. ReadView(sent.doc) # Error
  BY <1>1 DEF Undecodable
<1>3. ValidView(ReadView(sent.doc))
  BY <1>1 DEF Malformed
<1>4. Has(sent.doc, "views") => ReadView(sent.doc) = Error
  BY WireAssumption
<1> QED
  BY <1>2, <1>3, <1>4 DEF Legible

(* The template of the View-Template header stands for the descriptor.     *)
LEMMA HeadedExtract ==
    ASSUME NEW whole, sent.doc \in Doc, sent.payload \in Payload, Headed
    PROVE  OwnViews(E!Extract(AsExtracted(response, whole)))
<1>1. PICK r : r = AsExtracted(response, whole)
  OBVIOUS
<1>2. r.view = Absent /\ r.views = Absent
  BY <1>1, NoViews DEF Headed
<1>3. E!ViewLinks(r) = {}
  BY <1>1, NoLinks DEF Headed
<1>4. r.header = sent.doc /\ r.url = API
  BY <1>1 DEF AsExtracted, Headed
<1>5. E!Extract(r) = E!Shorthand(r) \/ E!Extract(r) = E!NotFound
  BY <1>2, <1>3 DEF E!Extract
<1>6. CASE sent.doc \in Malformed
  BY <1>1, <1>4, <1>5, <1>6 DEF E!Shorthand, OwnViews
<1>7. CASE sent.doc \notin Malformed
  <2>1. E!Shorthand(r) = E!Extracted("View-Template", Alone, Absent, API)
    BY <1>4, <1>7 DEF E!Shorthand, Alone
  <2> QED
    BY <1>1, <1>5, <1>7, <2>1, Readable DEF OwnViews
<1> QED
  BY <1>6, <1>7

(* A body gives the descriptor it carries, and is the representation       *)
(* without it.                                                             *)
LEMMA InlineExtract ==
    ASSUME NEW whole, sent.doc \in Doc, sent.payload \in Payload, Carried
    PROVE  /\ OwnViews(E!Extract(AsExtracted(response, whole)))
           /\ StripDescriptor(Decode(response.pairs)) = Decode(sent.payload)
<1>1. PICK r : r = AsExtracted(response, whole)
  OBVIOUS
<1>2. E!ViewLinks(r) = {} /\ r.header = Absent /\ r.url = API
  BY <1>1, NoLinks DEF AsExtracted, Carried
<1>3. PICK i \in 1 .. Len(sent.payload) + 1, c \in Carriers(sent.doc) :
         response.pairs = InsertAt(sent.payload, i, c)
  BY DEF Carried, Carrying
<1>4. \/ E!Extract(r) = E!InlineView(r) /\ (r.view # Absent \/ r.views # Absent)
      \/ E!Extract(r) = E!NotFound
  BY <1>2 DEF E!Extract
<1>5. PICK p : p = sent.payload /\ p \in Payload
  OBVIOUS
<1>6. PICK q : q = response.pairs
  OBVIOUS
<1>7. PICK o : o = Decode(q)
  OBVIOUS
<1>8. r.view = Field(o, "_view") /\ r.views = IF Field(o, "_views") = Absent THEN Absent ELSE o.members["_views"].members
  BY <1>1, <1>6, <1>7 DEF AsExtracted
<1>9. PICK d : d = sent.doc /\ d \in Doc
  OBVIOUS
<1>10. CASE c = << "_view", d >>
  <2>1. PICK name : name = "_view"
    OBVIOUS
  <2>2. name \in ViewNames /\ q = InsertAt(p, i, << name, d >>)
    BY <1>3, <1>5, <1>6, <1>10, <2>1 DEF ViewNames
  <2>3. /\ IsObject(o) /\ Names(o) \cap ViewNames = {name} /\ o.members[name] = d
        /\ StripDescriptor(o) = Decode(p)
    BY <1>3, <1>5, <1>7, <2>2, CarrierDecoded
  <2>4. Has(o, "_view") /\ ~Has(o, "_views")
    BY <2>1, <2>3 DEF Has, ViewNames
  <2>5. r.view = (IF d = Null THEN Absent ELSE d) /\ r.views = Absent
    BY <1>8, <2>1, <2>3, <2>4 DEF Field, Member
  <2>6. CASE r.view = Absent
    BY <1>1, <1>4, <1>6, <1>7, <1>5, <2>3, <2>5, <2>6 DEF OwnViews
  <2>7. CASE r.view # Absent
    <3>1. r.view = d
      BY <2>5, <2>7
    <3>2. E!InlineView(r) = IF d \in Malformed THEN E!Rejected ELSE E!Extracted("_view", Alone, Absent, API)
      BY <1>2, <1>9, <2>5, <2>7, <3>1 DEF E!InlineView, Alone
    <3>3. OwnViews(E!Extract(r))
      BY <1>4, <1>9, <3>2, Readable DEF OwnViews
    <3> QED
      BY <1>1, <1>5, <1>6, <1>7, <2>3, <3>3
  <2> QED
    BY <2>6, <2>7
<1>11. CASE c = << "_views", Object(<< "default" >>, Alone) >>
  <2>1. PICK name, v : name = "_views" /\ v = Object(<< "default" >>, Alone)
    OBVIOUS
  <2>2. name \in ViewNames /\ q = InsertAt(p, i, << name, v >>)
    BY <1>3, <1>5, <1>6, <1>11, <2>1 DEF ViewNames
  <2>3. /\ IsObject(o) /\ Names(o) \cap ViewNames = {name} /\ o.members[name] = v
        /\ StripDescriptor(o) = Decode(p)
    BY <1>3, <1>5, <1>7, <2>2, CarrierDecoded
  <2>4. ~Has(o, "_view") /\ Has(o, "_views")
    BY <2>1, <2>3 DEF Has, ViewNames
  <2>5. v.members = Alone /\ v # Null /\ v # Absent
    BY <2>1 DEF Object, Null, Absent
  <2>6. r.view = Absent /\ r.views = Alone
    BY <1>8, <2>1, <2>3, <2>4, <2>5 DEF Field, Member
  <2>7. Alone # Absent /\ DOMAIN Alone = {"default"} /\ Alone["default"] = d
    BY <1>9 DEF Alone, Absent
  <2>8. E!ValidViews(Alone) <=> d \notin Malformed
    BY <2>7 DEF E!ValidViews
  <2>9. E!InlineView(r) = IF d \in Malformed THEN E!Rejected ELSE E!Extracted("_views", Alone, Absent, API)
    BY <1>2, <2>6, <2>7, <2>8 DEF E!InlineView
  <2>10. OwnViews(E!Extract(r))
    BY <1>4, <1>9, <2>9, Readable DEF OwnViews
  <2> QED
    BY <1>1, <1>5, <1>6, <1>7, <2>3, <2>10
<1> QED
  BY <1>3, <1>9, <1>10, <1>11 DEF Carriers, Alone

-----------------------------------------------------------------------------
(* The response on its way.                                                *)

Meant == IF Has(sent.doc, "views") THEN sent.doc.members["views"].members["default"] ELSE sent.doc
Content == IF got.whole THEN Decode(sent.payload) ELSE Absent

(* The view that is used can be read, is valid, and is in the document.    *)
Sound(v) ==
    /\ v = ReadView(Meant) /\ v # Error /\ ValidView(v)
    /\ Has(sent.doc, "views") => Has(sent.doc.members["views"], "default")

(* What the response is, what the client has of it, and what it makes of   *)
(* that.  The properties speak of the end of the way; that it gets there   *)
(* rests on the response still being what one of the transports made it.   *)
Origin ==
    /\ sent.doc \in Doc /\ sent.payload \in Payload
    /\ DOMAIN response = {"pairs", "links", "header"}
    /\ stage = "api" => Bare
    /\ stage # "api" => Linked \/ Headed \/ Carried
Obtained ==
    /\ stage \notin {"api", "sent"} /\ response.links # << >>
         => got.transport = "link" /\ got.descriptorURL = ResourceURL
    /\ stage \notin {"api", "sent", "failed"} /\ response.links = << >>
         => got.descriptorURL = Absent /\ got.views = Alone /\ Legible
    /\ stage \notin {"api", "sent", "failed"} => got.input = Content
Used ==
    /\ IF stage \in {"viewed", "done"} THEN Sound(view) ELSE view = Absent
    /\ stage = "done" => model = Model(view, got.input)
WireInv == Origin /\ Obtained /\ Used

(* The record of Receive.                                                  *)
LEMMA GotIs ==
    ASSUME NEW transport, NEW views, NEW url, NEW base, NEW whole, NEW input,
           NEW g, g = Noted(E!Extracted(transport, views, url, base), whole, input)
    PROVE  /\ g.transport = transport /\ g.views = views /\ g.descriptorURL = url
           /\ g.whole = whole /\ g.input = input
<1>1. PICK e : e = E!Extracted(transport, views, url, base)
  OBVIOUS
<1>2. DOMAIN e = {"transport", "views", "descriptorURL", "base"}
  BY <1>1 DEF E!Extracted
<1>3. g.transport = e.transport /\ g.views = e.views /\ g.descriptorURL = e.descriptorURL
  BY <1>1, <1>2 DEF Noted
<1>4. g.whole = whole /\ g.input = input
  BY <1>1, <1>2 DEF Noted
<1> QED
  BY <1>1, <1>3, <1>4 DEF E!Extracted

(* A link that is found is in some field.                                  *)
LEMMA FoundHasLinks == \A links : Findable(links) => links # << >>
<1>1. PICK none : none = << >>
  OBVIOUS
<1>2. LinksOf(none) = {}
  BY <1>1, LinksNone
<1> QED
  BY <1>1, <1>2 DEF Findable

(* What is extracted is of that response,                                  *)
LEMMA ReceiveKeeps == WireInv /\ Receive => WireInv'
<1> SUFFICES ASSUME WireInv, Receive PROVE WireInv'
  OBVIOUS
<1>1. stage = "sent" /\ sent' = sent /\ response' = response /\ view' = view /\ model' = model
  BY DEF Receive
<1>2. PICK whole \in BOOLEAN :
         LET e == E!Extract(AsExtracted(response, whole))
         IN  IF e \in {E!Rejected, E!NotFound}
             THEN got' = e /\ stage' = "failed"
             ELSE /\ got' = Noted(e, whole, TransformInput(response, whole))
                  /\ stage' = "extracted"
  BY DEF Receive
<1>3. PICK e : e = E!Extract(AsExtracted(response, whole))
  OBVIOUS
<1>4. \/ e \in {E!Rejected, E!NotFound} /\ got' = e /\ stage' = "failed"
      \/ /\ e \notin {E!Rejected, E!NotFound} /\ stage' = "extracted"
         /\ got' = Noted(e, whole, TransformInput(response, whole))
  BY <1>2, <1>3
<1>5. /\ sent.doc \in Doc /\ sent.payload \in Payload /\ (Linked \/ Headed \/ Carried)
      /\ DOMAIN response = {"pairs", "links", "header"}
  BY <1>1 DEF WireInv, Origin
<1>6. Origin' /\ Used'
  <2>1. stage' \notin {"api", "viewed", "done"}
    BY <1>4
  <2>2. (Linked' \/ Headed' \/ Carried') <=> (Linked \/ Headed \/ Carried)
    BY <1>1 DEF Linked, Headed, Carried
  <2> QED
    BY <1>1, <1>5, <2>1, <2>2 DEF Origin, Used, WireInv
<1>7. PICK input : input = TransformInput(response, whole)
  OBVIOUS
<1>8. input = IF whole THEN Decode(sent.payload) ELSE Absent
  <2>1. StripDescriptor(Decode(response.pairs)) = Decode(sent.payload)
    <3>1. CASE Carried
      BY <1>5, <3>1, InlineExtract
    <3>2. CASE Linked \/ Headed
      <4>1. response.pairs = sent.payload
        BY <3>2 DEF Linked, Headed
      <4> QED
        BY <1>5, <4>1, PayloadDecoded
    <3> QED
      BY <1>5, <3>1, <3>2
  <2> QED
    BY <1>7, <2>1 DEF TransformInput
<1>9. CASE Linked
  <2>1. response.pairs \in Payload /\ Findable(response.links)
    BY <1>5, <1>9 DEF Linked
  <2>2. e = E!Extracted("link", Absent, ResourceURL, ResourceURL)
    BY <1>3, <2>1, LinkedExtract
  <2>3. e \notin {E!Rejected, E!NotFound}
    BY <2>2 DEF E!Extracted, E!Rejected, E!NotFound
  <2>4. /\ got'.transport = "link" /\ got'.descriptorURL = ResourceURL
        /\ got'.whole = whole /\ got'.input = input
    BY <1>4, <1>7, <2>2, <2>3, GotIs
  <2>5. response.links # << >>
    BY <2>1, FoundHasLinks
  <2>6. Obtained'
    BY <1>1, <1>4, <2>3, <1>8, <2>4, <2>5 DEF Obtained, Content
  <2> QED
    BY <1>6, <2>6 DEF WireInv
<1>10. CASE Headed \/ Carried
  <2>1. OwnViews(e)
    BY <1>3, <1>5, <1>10, HeadedExtract, InlineExtract
  <2>2. response.links = << >>
    BY <1>10 DEF Headed, Carried
  <2>3. CASE stage' = "failed"
    <3>1. Obtained'
      BY <1>1, <2>2, <2>3 DEF Obtained
    <3> QED
      BY <1>6, <3>1 DEF WireInv
  <2>4. CASE stage' # "failed"
    <3>1. /\ e \notin {E!Rejected, E!NotFound} /\ stage' = "extracted"
          /\ got' = Noted(e, whole, input)
      BY <1>4, <1>7, <2>4
    <3>2. Legible
      BY <2>1, <3>1 DEF OwnViews
    <3>3. PICK transport : e = E!Extracted(transport, Alone, Absent, API)
      BY <2>1, <3>1 DEF OwnViews
    <3>4. /\ got'.views = Alone /\ got'.descriptorURL = Absent
          /\ got'.whole = whole /\ got'.input = input
      BY <3>1, <3>3, GotIs
    <3>5. Alone' = Alone /\ Legible' = Legible
      BY <1>1 DEF Alone, Legible
    <3>6. Obtained'
      BY <1>1, <1>8, <2>2, <3>1, <3>2, <3>4, <3>5 DEF Obtained, Content
    <3> QED
      BY <1>6, <3>6 DEF WireInv
  <2> QED
    BY <2>3, <2>4
<1> QED
  BY <1>5, <1>9, <1>10

(* and the view is of what was extracted.                                  *)
LEMMA FetchKeeps == WireInv /\ FetchDescriptor => WireInv'
<1> SUFFICES ASSUME WireInv, FetchDescriptor PROVE WireInv'
  OBVIOUS
<1>1. stage = "extracted" /\ sent' = sent /\ response' = response /\ got' = got /\ model' = model
  BY DEF FetchDescriptor
<1>2. stage' \in {"viewed", "failed"}
  BY DEF FetchDescriptor
<1>3. Origin'
  <2>1. (Linked' \/ Headed' \/ Carried') <=> (Linked \/ Headed \/ Carried)
    BY <1>1 DEF Linked, Headed, Carried
  <2> QED
    BY <1>1, <1>2, <2>1 DEF WireInv, Origin
<1>4. Obtained'
  <2>1. Alone' = Alone /\ Legible' = Legible /\ Content' = Content
    BY <1>1 DEF Alone, Legible, Content
  <2> QED
    BY <1>1, <1>2, <2>1 DEF WireInv, Obtained
<1>5. CASE stage' = "failed"
  <2>1. view' = view /\ view = Absent
    BY <1>1, <1>5 DEF FetchDescriptor, WireInv, Used
  <2>2. Used'
    BY <1>5, <2>1 DEF Used
  <2> QED
    BY <1>3, <1>4, <2>2 DEF WireInv
<1>6. CASE stage' = "viewed"
  <2>1. PICK views :
          /\ views = IF got.descriptorURL = Absent
                     THEN [n \in DOMAIN got.views |-> ReadView(got.views[n])]
                     ELSE ParseViews(sent.doc)
          /\ views # Error /\ "default" \in DOMAIN views /\ view' = views["default"]
    BY <1>6 DEF FetchDescriptor
  <2>2. sent.doc \in Doc
    BY DEF WireInv, Origin
  <2>3. ASSUME response.links = << >> PROVE Sound(view')
    <3>1. got.descriptorURL = Absent /\ got.views = Alone /\ Legible
      BY <1>1, <2>3 DEF WireInv, Obtained
    <3>2. views["default"] = ReadView(sent.doc)
      BY <2>1, <3>1 DEF Alone
    <3> QED
      BY <2>1, <3>1, <3>2 DEF Legible, Meant, Sound
  <2>4. ASSUME response.links # << >> PROVE Sound(view')
    <3>1. got.descriptorURL = ResourceURL
      BY <1>1, <2>4 DEF WireInv, Obtained
    <3>2. ResourceURL # Absent
      BY DEF ResourceURL, API, Absent
    <3>3. views = ParseViews(sent.doc)
      BY <2>1, <3>1, <3>2
    <3>4. PICK vs : vs = Member(sent.doc, "views")
      OBVIOUS
    <3>5. CASE Has(sent.doc, "views")
      <4>1. vs = sent.doc.members["views"] /\ vs # Absent
        <5>1. vs = sent.doc.members["views"]
          BY <3>4, <3>5 DEF Member
        <5>2. vs \in Range(sent.doc.members)
          BY <3>5, <5>1 DEF Has, Names, Range
        <5>3. IsObject(sent.doc) => Absent \notin Range(sent.doc.members)
          BY <2>2, WireAssumption
        <5> QED
          BY <3>5, <5>1, <5>2, <5>3 DEF Has
      <4>2. PICK read : read = [n \in Names(vs) |-> ReadView(vs.members[n])]
        OBVIOUS
      <4>3. views = read /\ IsObject(vs) /\ Error \notin Range(read) /\ AllValid(read)
        BY <2>1, <3>3, <3>4, <4>1, <4>2 DEF ParseViews
      <4>4. "default" \in Names(vs) /\ view' = ReadView(vs.members["default"])
        BY <2>1, <4>2, <4>3
      <4>5. view' # Error /\ ValidView(view')
        BY <2>1, <4>2, <4>3, <4>4 DEF AllValid, Range
      <4>6. Meant = vs.members["default"]
        BY <3>5, <4>1 DEF Meant
      <4> QED
        BY <4>1, <4>3, <4>4, <4>5, <4>6 DEF Sound, Has
    <3>6. CASE ~Has(sent.doc, "views")
      <4>1. vs = Absent
        BY <3>4, <3>6 DEF Member
      <4>2. /\ views = [n \in {"default"} |-> ReadView(sent.doc)]
            /\ ReadView(sent.doc) # Error /\ ValidView(ReadView(sent.doc))
        BY <2>1, <3>3, <3>4, <4>1 DEF ParseViews
      <4>3. view' = ReadView(sent.doc)
        BY <2>1, <4>2
      <4> QED
        BY <3>6, <4>2, <4>3 DEF Meant, Sound
    <3> QED
      BY <3>5, <3>6
  <2>5. Sound(view')
    BY <2>3, <2>4
  <2>6. Sound(view)'
    BY <1>1, <2>5 DEF Sound, Meant
  <2>7. Used'
    BY <1>6, <2>6 DEF Used
  <2> QED
    BY <1>3, <1>4, <2>7 DEF WireInv
<1> QED
  BY <1>2, <1>5, <1>6

(* The body is one of the texts that can come about.                       *)
LEMMA ResponseText == Origin => response.pairs \in Texts
<1> SUFFICES ASSUME Origin PROVE response.pairs \in Texts
  OBVIOUS
<1>1. sent.doc \in Doc /\ sent.payload \in Payload /\ (Bare \/ Linked \/ Headed \/ Carried)
  BY DEF Origin
<1>2. CASE Bare \/ Linked \/ Headed
  BY <1>1, <1>2 DEF Bare, Linked, Headed, Texts
<1>3. CASE Carried
  BY <1>1, <1>3 DEF Carried, Texts
<1> QED
  BY <1>1, <1>2, <1>3

(* The invariant of a response on its way.                                 *)
THEOREM ResponseKept == Spec => []WireInv
<1>1. Init => WireInv
  <2> SUFFICES ASSUME Init PROVE WireInv
    OBVIOUS
  <2>1. PICK d \in Doc, p \in Payload :
          /\ sent = [doc |-> d, payload |-> p]
          /\ response = [pairs |-> p, links |-> << >>, header |-> Absent]
    BY DEF Init
  <2>2. stage = "api" /\ view = Absent
    BY DEF Init
  <2>3. sent.doc = d /\ sent.payload = p
    BY <2>1
  <2>4. /\ response.pairs = p /\ response.links = << >> /\ response.header = Absent
        /\ DOMAIN response = {"pairs", "links", "header"}
    BY <2>1
  <2>5. Origin
    BY <2>2, <2>3, <2>4 DEF Origin, Bare
  <2> QED
    BY <2>2, <2>5 DEF WireInv, Obtained, Used
<1>2. WireInv /\ [Next]_vars => WireInv'
  <2> SUFFICES ASSUME WireInv, [Next]_vars PROVE WireInv'
    OBVIOUS
  <2>0. DOMAIN response = {"pairs", "links", "header"}
    BY DEF WireInv, Origin
  <2>1. CASE SendInline
    <3>1. stage = "api" /\ stage' = "sent" /\ sent' = sent /\ view' = Absent
      BY <2>1 DEF SendInline, WireInv, Used
    <3>2. Origin /\ Bare
      BY <3>1 DEF WireInv, Origin
    <3>3. PICK text \in Carrying(sent.payload, sent.doc) : response' = [response EXCEPT !.pairs = text]
      BY <2>1 DEF SendInline
    <3>4. /\ response'.pairs = text
          /\ response'.links = response.links /\ response'.header = response.header
          /\ DOMAIN response' = DOMAIN response
      BY <2>0, <3>3
    <3>5. Carried'
      BY <3>1, <3>2, <3>4 DEF Bare, Carried
    <3>6. Origin'
      BY <2>0, <3>1, <3>2, <3>4, <3>5 DEF Origin
    <3> QED
      BY <3>1, <3>6 DEF WireInv, Obtained, Used
  <2>2. CASE SendLink
    <3>1. stage = "api" /\ stage' = "sent" /\ sent' = sent /\ view' = Absent
      BY <2>2 DEF SendLink, WireInv, Used
    <3>2. Origin /\ Bare
      BY <3>1 DEF WireInv, Origin
    <3>3. PICK before \in {<< >>} \cup {<< e >> : e \in Entry},
               after \in {<< >>} \cup {<< e >> : e \in Entry} :
             response' = [response EXCEPT !.links = before \o << Own >> \o after]
      BY <2>2 DEF SendLink, Own
    <3>4. PICK links : links = before \o << Own >> \o after
      OBVIOUS
    <3>5. /\ response'.links = links
          /\ response'.pairs = response.pairs /\ response'.header = response.header
          /\ DOMAIN response' = DOMAIN response
      BY <2>0, <3>3, <3>4
    <3>6. Findable(links)
      BY <3>4, SentFindable
    <3>7. Linked'
      BY <3>1, <3>2, <3>5, <3>6 DEF Bare, Linked
    <3>8. Origin'
      BY <2>0, <3>1, <3>2, <3>5, <3>7 DEF Origin
    <3> QED
      BY <3>1, <3>8 DEF WireInv, Obtained, Used
  <2>3. CASE SendHeader
    <3>1. stage = "api" /\ stage' = "sent" /\ sent' = sent /\ view' = Absent
      BY <2>3 DEF SendHeader, WireInv, Used
    <3>2. Origin /\ Bare
      BY <3>1 DEF WireInv, Origin
    <3>3. /\ IsObject(sent.doc) /\ Names(sent.doc) = {"template"}
          /\ response' = [response EXCEPT !.header = sent.doc]
      BY <2>3 DEF SendHeader
    <3>4. /\ response'.header = sent.doc
          /\ response'.pairs = response.pairs /\ response'.links = response.links
          /\ DOMAIN response' = DOMAIN response
      BY <2>0, <3>3
    <3>5. Headed'
      BY <3>1, <3>2, <3>3, <3>4 DEF Bare, Headed
    <3>6. Origin'
      BY <2>0, <3>1, <3>2, <3>4, <3>5 DEF Origin
    <3> QED
      BY <3>1, <3>6 DEF WireInv, Obtained, Used
  <2>4. CASE JoinLinks
    <3>1. stage = "sent" /\ stage' = "sent" /\ sent' = sent /\ view' = Absent
      BY <2>4 DEF JoinLinks, WireInv, Used
    <3>2. PICK l : l = response.links
      OBVIOUS
    <3>3. PICK i \in 1 .. Len(l) - 1 :
             response' = [response EXCEPT !.links =
               SubSeq(l, 1, i - 1) \o << OneField(l[i], l[i + 1]) >> \o SubSeq(l, i + 2, Len(l))]
      BY <2>4, <3>2 DEF JoinLinks
    <3>4. PICK joined : joined = OneField(l[i], l[i + 1])
      OBVIOUS
    <3>5. PICK links : links = SubSeq(l, 1, i - 1) \o << joined >> \o SubSeq(l, i + 2, Len(l))
      OBVIOUS
    <3>6. /\ response'.links = links
          /\ response'.pairs = response.pairs /\ response'.header = response.header
          /\ DOMAIN response' = DOMAIN response
      BY <2>0, <3>3, <3>4, <3>5
    <3>7. Origin /\ (Linked \/ Headed \/ Carried)
      BY <3>1 DEF WireInv, Origin
    <3>8. l # << >>
      <4>1. ASSUME l = << >> PROVE FALSE
        <5>1. Len(l) = 0
          BY <4>1
        <5> QED
          BY <5>1
      <4> QED
        BY <4>1
    <3>9. Linked
      BY <3>2, <3>7, <3>8 DEF Headed, Carried
    <3>10. Findable(links)
      BY <3>2, <3>4, <3>5, <3>9, JoinFindable DEF Linked
    <3>11. Linked'
      BY <3>1, <3>6, <3>9, <3>10 DEF Linked
    <3>12. Origin'
      BY <2>0, <3>1, <3>6, <3>7, <3>11 DEF Origin
    <3> QED
      BY <3>1, <3>12 DEF WireInv, Obtained, Used
  <2>5. CASE Receive
    BY <2>5, ReceiveKeeps
  <2>6. CASE FetchDescriptor
    BY <2>6, FetchKeeps
  <2>7. CASE Project
    <3>1. /\ stage = "viewed" /\ stage' = "done" /\ model' = Model(view, got.input)
          /\ sent' = sent /\ response' = response /\ got' = got /\ view' = view
      BY <2>7 DEF Project
    <3>2. /\ Linked' = Linked /\ Headed' = Headed /\ Carried' = Carried
          /\ Alone' = Alone /\ Legible' = Legible /\ Content' = Content /\ Meant' = Meant
      BY <3>1 DEF Linked, Headed, Carried, Alone, Legible, Content, Meant
    <3>3. Origin'
      BY <3>1, <3>2 DEF WireInv, Origin
    <3>4. Obtained'
      BY <3>1, <3>2 DEF WireInv, Obtained
    <3>5. Used'
      BY <3>1, <3>2 DEF WireInv, Used, Sound
    <3> QED
      BY <3>3, <3>4, <3>5 DEF WireInv
  <2>8. CASE UNCHANGED vars
    <3>1. /\ stage' = stage /\ model' = model /\ sent' = sent /\ response' = response
          /\ got' = got /\ view' = view
      BY <2>8 DEF vars
    <3>2. /\ Bare' = Bare /\ Linked' = Linked /\ Headed' = Headed /\ Carried' = Carried
          /\ Alone' = Alone /\ Legible' = Legible /\ Content' = Content /\ Meant' = Meant
      BY <3>1 DEF Bare, Linked, Headed, Carried, Alone, Legible, Content, Meant
    <3>3. Origin'
      BY <3>1, <3>2 DEF WireInv, Origin
    <3>4. Obtained'
      BY <3>1, <3>2 DEF WireInv, Obtained
    <3>5. Used'
      BY <3>1, <3>2 DEF WireInv, Used, Sound
    <3> QED
      BY <3>3, <3>4, <3>5 DEF WireInv
  <2> QED
    BY <2>1, <2>2, <2>3, <2>4, <2>5, <2>6, <2>7, <2>8 DEF Next
<1> QED
  BY <1>1, <1>2, PTL DEF Spec

(* The server's link is found, whatever stands beside it and however the   *)
(* fields are joined.                                                      *)
THEOREM LinkFound == Spec => []LinkSurvives
<1>1. WireInv => LinkSurvives
  <2>1. ResourceURL = [scheme |-> "https", host |-> "app", path |-> << "views" >>]
    BY DEF ResourceURL, API, Resource
  <2> QED
    BY <2>1 DEF WireInv, Obtained, LinkSurvives
<1> QED
  BY <1>1, ResponseKept, PTL

(* The same descriptor and representation give the same model on every     *)
(* transport.                                                              *)
THEOREM ModelKept == Spec => []SameModelOnEveryTransport
<1>1. WireInv => SameModelOnEveryTransport
  <2> SUFFICES ASSUME WireInv, stage = "done"
               PROVE  model = Model(ReadView(Meant), Content)
    BY DEF SameModelOnEveryTransport, Meant, Content
  <2>1. model = Model(view, got.input) /\ view = ReadView(Meant)
    BY DEF WireInv, Used, Sound
  <2>2. got.input = Content
    BY DEF WireInv, Obtained
  <2> QED
    BY <2>1, <2>2
<1> QED
  BY <1>1, ResponseKept, PTL

(* A reference and a link read one view alike.                             *)
THEOREM ParsedAlike == Spec => []ReferenceOrLink
<1>1. WireInv => ReferenceOrLink
  <2> SUFFICES ASSUME WireInv PROVE ReferenceOrLink
    OBVIOUS
  <2>1. PICK d \in Doc : d = sent.doc
    BY DEF WireInv, Origin
  <2>2. Has(d, "views") <=> Member(d, "views") # Absent
    <3>1. IsObject(d) => Absent \notin Range(d.members)
      BY WireAssumption
    <3>2. Has(d, "views") => d.members["views"] \in Range(d.members)
      BY DEF Has, Names, Range
    <3> QED
      BY <3>1, <3>2 DEF Has, Member
  <2>3. CASE Has(d, "views")
    <3>1. ParseSingle(d) = Error
      BY <2>2, <2>3 DEF ParseSingle
    <3> QED
      BY <2>1, <2>3, <3>1 DEF ReferenceOrLink
  <2>4. CASE ~Has(d, "views")
    <3>1. Member(d, "views") = Absent
      BY <2>2, <2>4
    <3>2. CASE Member(d, "descriptor") \notin {Absent, Null}
      <4>1. ParseSingle(d) = Error /\ ParseViews(d) = Error
        BY <3>2 DEF ParseSingle, ParseViews
      <4> QED
        BY <2>1, <2>4, <4>1 DEF ReferenceOrLink
    <3>3. CASE Member(d, "descriptor") \in {Absent, Null}
      <4>1. ParseViews(d) = IF ReadView(d) # Error /\ ValidView(ReadView(d))
                            THEN [n \in {"default"} |-> ReadView(d)] ELSE Error
        BY <3>1, <3>3 DEF ParseViews
      <4>2. ParseSingle(d) = IF ReadView(d) = Error THEN Error
                             ELSE IF ValidView(ReadView(d)) THEN ReadView(d) ELSE Error
        BY <3>1, <3>3 DEF ParseSingle
      <4> QED
        BY <2>1, <2>4, <4>1, <4>2 DEF ReferenceOrLink
    <3> QED
      BY <3>2, <3>3
  <2> QED
    BY <2>3, <2>4
<1> QED
  BY <1>1, ResponseKept, PTL

(* $entries lists each member of a body once, in the place of the first    *)
(* of its occurrences and with the value of the last.                      *)
THEOREM ListedOnce == Spec => []FirstPlaceLastValue
<1>1. WireInv => FirstPlaceLastValue
  <2> SUFFICES ASSUME WireInv PROVE FirstPlaceLastValue
    OBVIOUS
  <2> DEFINE text == response.pairs
             firsts == {i \in DOMAIN text : \A j \in 1 .. i - 1 : text[j][1] # text[i][1]}
             rank(i) == Cardinality({j \in firsts : j <= i})
             last(i) == CHOOSE j \in DOMAIN text :
                          /\ text[j][1] = text[i][1]
                          /\ \A k \in j + 1 .. Len(text) : text[k][1] # text[i][1]
             entries == Model(EntriesView, Decode(text)).slice
  <2>1. text \in Texts
    BY ResponseText DEF WireInv
  <2> HIDE DEF text
  <2>2. PICK n \in Nat : n = Len(text) /\ DOMAIN text = 1 .. n
    BY <2>1, TextIs
  <2>3. firsts = Firsts(text, n)
    BY <2>2 DEF Firsts
  <2>4. Len(entries) = Cardinality(firsts)
    <3>1. Len(entries) = Cardinality(Firsts(text, n))
      <4> HIDE DEF firsts
      <4> QED
        BY <2>1, <2>2, EntriesRead
    <3> QED
      BY <2>3, <3>1
  <2>5. ASSUME NEW i \in firsts
        PROVE  entries[rank(i)] = Model(WholeView, Pair(text[i][1], text[last(i)][2]))
    <3>1. {j \in firsts : j <= i} = Firsts(text, i)
      BY <2>2, <2>3, FirstsCounted
    <3>2. \E j \in DOMAIN text :
            text[j][1] = text[i][1] /\ \A k \in j + 1 .. Len(text) : text[k][1] # text[i][1]
      <4>1. PICK I : I = {j \in 1 .. n : text[j][1] = text[i][1]}
        OBVIOUS
      <4>2. i \in I /\ I \subseteq 1 .. n
        BY <2>2, <4>1
      <4>3. PICK j \in I : \A k \in I : k <= j
        BY <4>2, GreatestIndex
      <4>4. ASSUME NEW k \in j + 1 .. n PROVE text[k][1] # text[i][1]
        <5>1. k \in 1 .. n /\ ~(k <= j)
          BY <4>2
        <5> QED
          BY <4>1, <4>3, <5>1
      <4> QED
        BY <2>2, <4>1, <4>3, <4>4
    <3>3. PICK at : at = last(i)
      OBVIOUS
    <3>4. /\ at \in DOMAIN text /\ text[at][1] = text[i][1]
          /\ \A k \in at + 1 .. Len(text) : text[k][1] # text[i][1]
      BY <3>2, <3>3
    <3>5. entries[Cardinality(Firsts(text, i))] = Model(WholeView, Pair(text[i][1], text[at][2]))
      <4>1. at \in 1 .. n /\ \A k \in at + 1 .. n : text[k][1] # text[i][1]
        BY <2>2, <3>4
      <4>2. i \in Firsts(text, n)
        BY <2>3
      <4> HIDE DEF entries, firsts, last
      <4>3. PICK es : es = Model(EntriesView, Decode(text)).slice
        OBVIOUS
      <4>4. es[Cardinality(Firsts(text, i))] = Model(WholeView, Pair(text[i][1], text[at][2]))
        BY <2>1, <2>2, <3>4, <4>1, <4>2, <4>3, EntriesRead
      <4> QED
        BY <4>3, <4>4 DEF entries
    <3> QED
      BY <3>1, <3>3, <3>5
  <2> QED
    BY <2>4, <2>5 DEF FirstPlaceLastValue, text
<1> QED
  BY <1>1, ResponseKept, PTL
=============================================================================
