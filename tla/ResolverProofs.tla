---------------------------- MODULE ResolverProofs ----------------------------
(***************************************************************************)
(* Proofs about Resolver, for every set of requests, every descriptor      *)
(* graph, every allowlist and every depth limit: types, and the safety     *)
(* properties of nodes and caches one by one.  What the walk does as a     *)
(* whole is in ResolverWalk.                                               *)
(***************************************************************************)
EXTENDS ResolverProps, DescriptorTypes

(***************************************************************************)
(* What TypeOK needs to be inductive: which locals of an activation are    *)
(* set at which point of it, and how the nodes hang together.              *)
(***************************************************************************)
ActivationOK(r) ==
    LET a == call[r]
    IN  /\ pc[r] \in {"idle", "resolve", "load", "fetch", "store", "verify", "storeRef"}
             => a.desc \in Desc
        /\ pc[r] \in {"load", "fetch", "store", "verify"} => a.id \in Identity
        /\ pc[r] \in {"store", "verify"} => a.body \in Body
        /\ pc[r] \in {"store", "verify"} => a.kind \in {"fetch", "cached"}
        /\ pc[r] = "ref" => a.ref \in DescriptorRef
        /\ pc[r] \in {"loadRef", "fetchRef", "storeRef"} => a.url \in Url
        /\ a.parent # 0 => a.place \in Place
        /\ pc[r] \notin {"slots", "done"} => node[r] = a.parent

TreeOK(r) ==
    /\ node[r] <= Len(tree[r])
    /\ pc[r] = "slots" => node[r] # 0
    /\ \A i \in 1 .. Len(tree[r]) :
         /\ tree[r][i].parent < i
         /\ tree[r][i].todo \subseteq Places(tree[r][i].desc)

WalkOK == \A r \in Request : ActivationOK(r) /\ TreeOK(r)

IInv == TypeOK /\ WalkOK

-----------------------------------------------------------------------------
(* Type correctness.                                                       *)

LEMMA InitIInv == Init => IInv
<1> SUFFICES ASSUME Init PROVE IInv
  OBVIOUS
<1>1. \A r \in Request : RootActivation(r) \in Activation
  BY ResolverAssumption DEF RootActivation, NewActivation, Activation
<1>2. TypeOK
  BY <1>1 DEF Init, TypeOK, Empty, Label
<1>3. WalkOK
  BY ResolverAssumption
  DEF Init, WalkOK, ActivationOK, TreeOK, RootActivation, NewActivation
<1> QED
  BY <1>2, <1>3 DEF IInv

(* A failing activation leaves the tree alone and hands the walk back to   *)
(* the node whose slot it was to fill.                                     *)
LEMMA FailIInv ==
    ASSUME IInv, NEW r \in Request, NEW why \in Reason, Fail(r, why),
           pc[r] \notin {"slots", "done"},
           cache' = cache, descCache' = descCache
    PROVE  IInv'
<1>1. TypeOK'
  <2>1. pc' \in [Request -> Label]
    BY DEF IInv, TypeOK, Fail, Goto, Label
  <2>2. result' \in [Request -> {"none", "ok"} \cup Reason]
    BY DEF IInv, TypeOK, Fail
  <2>3. skipped' \in [Request -> SUBSET Skip]
    <3>1. CASE call[r].parent = 0
      BY <3>1 DEF IInv, TypeOK, Fail
    <3>2. CASE call[r].parent # 0
      <4>1. [parent |-> call[r].parent, place |-> call[r].place,
             why |-> why, id |-> call[r].id, body |-> call[r].body,
             kind |-> call[r].kind] \in Skip
        BY <3>2 DEF IInv, TypeOK, WalkOK, ActivationOK, Activation, Skip
      <4> QED
        BY <3>2, <4>1, ZenonT(60) DEF IInv, TypeOK, Fail
    <3> QED
      BY <3>1, <3>2
  <2> QED
    BY <2>1, <2>2, <2>3 DEF IInv, TypeOK, Fail
<1>2. ASSUME NEW q \in Request PROVE ActivationOK(q)' /\ TreeOK(q)'
  <2>1. call'[q] = call[q] /\ node'[q] = node[q] /\ tree'[q] = tree[q]
    BY DEF Fail
  <2>2. CASE q # r
    BY <2>1, <2>2 DEF IInv, TypeOK, WalkOK, ActivationOK, TreeOK, Fail, Goto
  <2>3. CASE q = r
    <3>1. pc'[r] = IF call[r].parent = 0 THEN "done" ELSE "slots"
      BY DEF IInv, TypeOK, Fail, Goto
    <3> QED
      BY <2>1, <2>3, <3>1 DEF IInv, WalkOK, ActivationOK, TreeOK
  <2> QED
    BY <2>2, <2>3
<1> QED
  BY <1>1, <1>2 DEF IInv, WalkOK

(* A step that changes no more than the locals of one activation.          *)
LEMMA LocalIInv ==
    ASSUME IInv, NEW r \in Request, NEW a \in Activation, NEW label \in Label,
           pc[r] \notin {"slots", "done"}, label \notin {"slots", "done"},
           pc' = [pc EXCEPT ![r] = label], call' = [call EXCEPT ![r] = a],
           a.parent = call[r].parent, a.place = call[r].place,
           UNCHANGED << node, tree, skipped, result >>,
           DOMAIN cache' \subseteq Identity, cache' \in [DOMAIN cache' -> Body],
           DOMAIN descCache' \subseteq Url,
           descCache' \in [DOMAIN descCache' -> Desc],
           label \in {"idle", "resolve", "load", "fetch", "store", "verify",
                      "storeRef"} => a.desc \in Desc,
           label \in {"load", "fetch", "store", "verify"} => a.id \in Identity,
           label \in {"store", "verify"} => a.body \in Body,
           label \in {"store", "verify"} => a.kind \in {"fetch", "cached"},
           label = "ref" => a.ref \in DescriptorRef,
           label \in {"loadRef", "fetchRef", "storeRef"} => a.url \in Url
    PROVE  IInv'
<1>1. TypeOK'
  BY DEF IInv, TypeOK
<1>2. ASSUME NEW q \in Request PROVE ActivationOK(q)' /\ TreeOK(q)'
  <2>1. CASE q # r
    BY <2>1 DEF IInv, TypeOK, WalkOK, ActivationOK, TreeOK
  <2>2. CASE q = r
    <3>1. pc'[r] = label /\ call'[r] = a
      BY DEF IInv, TypeOK
    <3>2. node'[r] = a.parent /\ (a.parent # 0 => a.place \in Place)
      BY DEF IInv, WalkOK, ActivationOK
    <3>3. ActivationOK(r)'
      BY <3>1, <3>2 DEF ActivationOK
    <3>4. TreeOK(r)'
      BY <3>1 DEF IInv, WalkOK, TreeOK
    <3> QED
      BY <2>2, <3>3, <3>4
  <2> QED
    BY <2>1, <2>2
<1> QED
  BY <1>1, <1>2 DEF IInv, WalkOK

LEMMA ResolveIInv ==
    ASSUME IInv, NEW r \in Request, Resolve(r)
    PROVE  IInv'
<1>1. CASE Root[r] \in Malformed
  <2>1. Fail(r, "malformed") /\ pc[r] = "idle"
        /\ cache' = cache /\ descCache' = descCache
    BY <1>1 DEF Resolve
  <2> QED
    BY <2>1, FailIInv DEF Reason
<1>2. CASE Root[r] \notin Malformed
  <2>1. call[r] \in Activation /\ call[r].desc \in Desc /\ pc[r] = "idle"
    BY DEF IInv, TypeOK, WalkOK, ActivationOK, Resolve
  <2>2. call' = [call EXCEPT ![r] = call[r]]
    BY <1>2 DEF Resolve, IInv, TypeOK
  <2>3. pc' = [pc EXCEPT ![r] = "resolve"]
        /\ UNCHANGED << cache, descCache, node, tree, skipped, result >>
    BY <1>2 DEF Resolve, Goto
  <2>4. /\ DOMAIN cache' \subseteq Identity /\ cache' \in [DOMAIN cache' -> Body]
        /\ DOMAIN descCache' \subseteq Url
        /\ descCache' \in [DOMAIN descCache' -> Desc]
    BY <2>3 DEF IInv, TypeOK
  <2> QED
    BY <2>1, <2>2, <2>3, <2>4, LocalIInv DEF Label
<1> QED
  BY <1>1, <1>2

LEMMA CachesKept ==
    ASSUME IInv, UNCHANGED << cache, descCache >>
    PROVE  /\ DOMAIN cache' \subseteq Identity
           /\ cache' \in [DOMAIN cache' -> Body]
           /\ DOMAIN descCache' \subseteq Url
           /\ descCache' \in [DOMAIN descCache' -> Desc]
BY DEF IInv, TypeOK

LEMMA CheckTemplateIInv ==
    ASSUME IInv, NEW r \in Request, CheckTemplate(r)
    PROVE  IInv'
<1> DEFINE id == ResolveTemplateURI(Descriptor[call[r].desc].template, call[r].base)
           a == [call[r] EXCEPT !.id = id]
<1>1. pc[r] = "resolve" /\ UNCHANGED << cache, descCache >>
  BY DEF CheckTemplate
<1>2. CASE \E why \in Reason : Fail(r, why)
  BY <1>1, <1>2, FailIInv
<1>3. CASE ~ \E why \in Reason : Fail(r, why)
  <2>1. /\ id # None
        /\ pc' = [pc EXCEPT ![r] = "load"]
        /\ call' = [call EXCEPT ![r] = a]
        /\ UNCHANGED << node, tree, skipped, result >>
    BY <1>3 DEF CheckTemplate, Goto, Reason
  <2>2. call[r] \in Activation /\ call[r].desc \in Desc /\ call[r].base \in Url \cup {None}
    BY <1>1 DEF IInv, TypeOK, WalkOK, ActivationOK, Activation
  <2>3. Descriptor[call[r].desc].template \in TemplateRef
    BY <2>2, DescriptorAssumption
  <2>4. id \in Identity
    BY <2>1, <2>2, <2>3, ResolveTemplateURIType
  <2>5. a \in Activation /\ a.parent = call[r].parent /\ a.place = call[r].place
        /\ a.desc \in Desc /\ a.id \in Identity
    BY <2>2, <2>4 DEF Activation
  <2> HIDE DEF id, a
  <2> QED
    BY <1>1, <2>1, <2>5, LocalIInv, CachesKept DEF Label
<1> QED
  BY <1>2, <1>3

LEMMA LoadTemplateIInv ==
    ASSUME IInv, NEW r \in Request, LoadTemplate(r)
    PROVE  IInv'
<1>1. pc[r] = "load" /\ UNCHANGED << cache, descCache >>
  BY DEF LoadTemplate
<1>2. call[r] \in Activation /\ call[r].desc \in Desc /\ call[r].id \in Identity
  BY <1>1 DEF IInv, TypeOK, WalkOK, ActivationOK
<1>3. CASE Cached(call[r])
  <2> DEFINE a == [call[r] EXCEPT !.body = cache[Key(call[r])], !.kind = "cached"]
  <2>1. /\ pc' = [pc EXCEPT ![r] = "verify"]
        /\ call' = [call EXCEPT ![r] = a]
        /\ UNCHANGED << node, tree, skipped, result >>
    BY <1>3 DEF LoadTemplate, Goto
  <2>2. cache[Key(call[r])] \in Body
    BY <1>3 DEF Cached, IInv, TypeOK
  <2>3. a \in Activation /\ a.parent = call[r].parent /\ a.place = call[r].place
        /\ a.desc \in Desc /\ a.id \in Identity /\ a.body \in Body /\ a.kind = "cached"
    BY <1>2, <2>2 DEF Activation
  <2> HIDE DEF a
  <2> QED
    BY <1>1, <2>1, <2>3, LocalIInv, CachesKept DEF Label
<1>4. CASE ~Cached(call[r])
  <2>1. CASE Fail(r, "fetch")
    BY <1>1, <2>1, FailIInv DEF Reason
  <2>2. CASE ~Fail(r, "fetch")
    <3>1. /\ pc' = [pc EXCEPT ![r] = "fetch"]
          /\ UNCHANGED << call, node, tree, skipped, result >>
      BY <1>4, <2>2 DEF LoadTemplate, Goto
    <3>2. call' = [call EXCEPT ![r] = call[r]]
      BY <3>1 DEF IInv, TypeOK
    <3> QED
      BY <1>1, <1>2, <3>1, <3>2, LocalIInv, CachesKept DEF Label
  <2> QED
    BY <2>1, <2>2
<1> QED
  BY <1>3, <1>4

LEMMA FetchTemplateIInv ==
    ASSUME IInv, NEW r \in Request, FetchTemplate(r)
    PROVE  IInv'
<1>1. pc[r] = "fetch" /\ UNCHANGED << cache, descCache >>
  BY DEF FetchTemplate
<1>2. call[r] \in Activation /\ call[r].desc \in Desc /\ call[r].id \in Identity
  BY <1>1 DEF IInv, TypeOK, WalkOK, ActivationOK
<1>3. CASE Fail(r, "fetch")
  BY <1>1, <1>3, FailIInv DEF Reason
<1>4. CASE ~Fail(r, "fetch")
  <2>1. PICK body \in Body :
          /\ pc' = [pc EXCEPT ![r] = "store"]
          /\ call' = [call EXCEPT ![r] =
               [call[r] EXCEPT !.body = body, !.kind = "fetch"]]
          /\ UNCHANGED << node, tree, skipped, result >>
    BY <1>4 DEF FetchTemplate, Goto
  <2> DEFINE a == [call[r] EXCEPT !.body = body, !.kind = "fetch"]
  <2>2. a \in Activation /\ a.parent = call[r].parent /\ a.place = call[r].place
        /\ a.desc \in Desc /\ a.id \in Identity /\ a.body \in Body /\ a.kind = "fetch"
    BY <1>2 DEF Activation
  <2>3. call' = [call EXCEPT ![r] = a]
    BY <2>1
  <2> HIDE DEF a
  <2> QED
    BY <1>1, <2>1, <2>2, <2>3, LocalIInv, CachesKept DEF Label
<1> QED
  BY <1>3, <1>4

LEMMA StoreTemplateIInv ==
    ASSUME IInv, NEW r \in Request, StoreTemplate(r)
    PROVE  IInv'
<1>1. /\ pc[r] = "store" /\ pc' = [pc EXCEPT ![r] = "verify"]
      /\ cache' = Put(cache, Key(call[r]), call[r].body)
      /\ UNCHANGED << descCache, call, node, tree, skipped, result >>
  BY DEF StoreTemplate, Goto
<1>2. call[r] \in Activation /\ call[r].desc \in Desc /\ call[r].id \in Identity
      /\ call[r].body \in Body /\ call[r].kind \in {"fetch", "cached"}
  BY <1>1 DEF IInv, TypeOK, WalkOK, ActivationOK
<1>3. DOMAIN cache' \subseteq Identity /\ cache' \in [DOMAIN cache' -> Body]
  BY <1>1, <1>2 DEF Put, Key, IInv, TypeOK
<1>4. /\ DOMAIN descCache' \subseteq Url
      /\ descCache' \in [DOMAIN descCache' -> Desc]
      /\ call' = [call EXCEPT ![r] = call[r]]
  BY <1>1 DEF IInv, TypeOK
<1> QED
  BY <1>1, <1>2, <1>3, <1>4, LocalIInv DEF Label

LEMMA CreateNodeIInv ==
    ASSUME IInv, NEW r \in Request, CreateNode(r)
    PROVE  IInv'
<1> DEFINE n == [parent |-> call[r].parent, place |-> call[r].place,
                 desc |-> call[r].desc, base |-> call[r].base,
                 depth |-> call[r].depth, seen |-> call[r].seen,
                 id |-> call[r].id, body |-> call[r].body,
                 kind |-> call[r].kind, todo |-> Places(call[r].desc)]
<1>1. pc[r] = "verify" /\ UNCHANGED << cache, descCache >>
  BY DEF CreateNode
<1>2. CASE \E why \in Reason : Fail(r, why)
  BY <1>1, <1>2, FailIInv
<1>3. CASE ~ \E why \in Reason : Fail(r, why)
  <2>1. /\ pc' = [pc EXCEPT ![r] = "slots"]
        /\ tree' = [tree EXCEPT ![r] = Append(tree[r], n)]
        /\ node' = [node EXCEPT ![r] = Len(tree[r]) + 1]
        /\ UNCHANGED << call, skipped, result >>
    BY <1>3 DEF CreateNode, Goto, Reason
  <2>2. /\ call[r] \in Activation /\ call[r].desc \in Desc
        /\ call[r].id \in Identity /\ call[r].body \in Body
        /\ call[r].kind \in {"fetch", "cached"}
        /\ node[r] = call[r].parent /\ node[r] <= Len(tree[r])
    BY <1>1 DEF IInv, TypeOK, WalkOK, ActivationOK, TreeOK
  <2>3. Places(call[r].desc) \subseteq Place
    BY <2>2, PlacesType
  <2>4. n \in Node
    BY <2>2, <2>3 DEF Activation, Node
  <2> HIDE DEF n
  <2>5. tree[r] \in Seq(Node)
    BY DEF IInv, TypeOK
  <2>6. tree'[r] = Append(tree[r], n) /\ Len(tree'[r]) = Len(tree[r]) + 1
        /\ tree'[r] \in Seq(Node)
        /\ \A i \in 1 .. Len(tree[r]) : tree'[r][i] = tree[r][i]
        /\ tree'[r][Len(tree[r]) + 1] = n
    BY <2>1, <2>4, <2>5 DEF IInv, TypeOK
  <2>7. TypeOK'
    BY <1>1, <2>1, <2>5, <2>6 DEF IInv, TypeOK, Label
  <2>8. ASSUME NEW q \in Request PROVE ActivationOK(q)' /\ TreeOK(q)'
    <3>1. CASE q # r
      BY <2>1, <3>1 DEF IInv, TypeOK, WalkOK, ActivationOK, TreeOK
    <3>2. CASE q = r
      <4>1. pc'[r] = "slots" /\ call'[r] = call[r] /\ node'[r] = Len(tree[r]) + 1
        BY <2>1 DEF IInv, TypeOK
      <4>2. ActivationOK(r)'
        BY <1>1, <4>1 DEF IInv, WalkOK, ActivationOK
      <4>3. n.parent < Len(tree[r]) + 1 /\ n.todo \subseteq Places(n.desc)
        BY <2>2, <2>5 DEF n, Activation, IInv, TypeOK
      <4>4. TreeOK(r)'
        BY <2>5, <2>6, <4>1, <4>3 DEF IInv, WalkOK, TreeOK
      <4> QED
        BY <3>2, <4>2, <4>4
    <3> QED
      BY <3>1, <3>2
  <2> QED
    BY <2>7, <2>8 DEF IInv, WalkOK
<1> QED
  BY <1>2, <1>3

LEMMA EnterSlotIInv ==
    ASSUME IInv, NEW r \in Request, EnterSlot(r)
    PROVE  IInv'
<1> DEFINE i == node[r]
           p == tree[r][i]
<1>1. pc[r] = "slots" /\ UNCHANGED << cache, descCache, node, skipped, result >>
  BY DEF EnterSlot
<1>2. tree[r] \in Seq(Node) /\ i \in 1 .. Len(tree[r]) /\ p \in Node
      /\ p.todo \subseteq Places(p.desc) /\ p.parent < i
  BY <1>1 DEF IInv, TypeOK, WalkOK, TreeOK
<1>3. PICK c \in p.todo :
        /\ call' = [call EXCEPT ![r] =
             NewActivation(i, c, ChildAt(p.desc, c).ref, ChildAt(p.desc, c).desc,
                           p.base, p.depth + 1, p.seen)]
        /\ tree' = [tree EXCEPT ![r][i].todo = @ \ {c}]
        /\ pc' = [pc EXCEPT ![r] =
             IF ChildAt(p.desc, c).ref = None THEN "resolve" ELSE "ref"]
  BY DEF EnterSlot, Goto
<1>4. p.desc \in Desc
  BY <1>2 DEF Node
<1>5. c \in Place /\ ChildAt(p.desc, c) \in Child
  BY <1>2, <1>3, <1>4, PlacesType
<1> DEFINE a == NewActivation(i, c, ChildAt(p.desc, c).ref, ChildAt(p.desc, c).desc,
                              p.base, p.depth + 1, p.seen)
           m == [p EXCEPT !.todo = p.todo \ {c}]
<1>6. a \in Activation /\ a.parent = i /\ a.place = c
      /\ a.ref = ChildAt(p.desc, c).ref /\ a.desc = ChildAt(p.desc, c).desc
  BY <1>2, <1>5 DEF NewActivation, Activation, Node, Child
<1>7. m \in Node /\ m.parent = p.parent /\ m.desc = p.desc /\ m.todo \subseteq p.todo
  BY <1>2 DEF Node
<1>8. /\ tree'[r] \in Seq(Node) /\ Len(tree'[r]) = Len(tree[r])
      /\ \A j \in 1 .. Len(tree[r]) : tree'[r][j] = IF j = i THEN m ELSE tree[r][j]
      /\ \A q \in Request : q # r => tree'[q] = tree[q]
  <2>1. tree' = [tree EXCEPT ![r] = [tree[r] EXCEPT ![i] = m]]
    BY <1>2, <1>3 DEF Node
  <2> HIDE DEF m
  <2> QED
    BY <2>1, <1>2, <1>7 DEF IInv, TypeOK
<1> HIDE DEF a, m
<1>9. ChildAt(p.desc, c).ref \in DescriptorRef \/ ChildAt(p.desc, c).ref = None
  BY <1>5 DEF Child
<1>10. ChildAt(p.desc, c).ref = None => ChildAt(p.desc, c).desc \in Desc
  BY <1>5, DescriptorAssumption DEF Child
<1>11. TypeOK'
  <2>1. call' \in [Request -> Activation]
    BY <1>3, <1>6 DEF a, IInv, TypeOK
  <2>2. tree' \in [Request -> Seq(Node)]
    <3>1. tree' = [q \in Request |-> tree'[q]]
      BY <1>3 DEF IInv, TypeOK
    <3>2. \A q \in Request : tree'[q] \in Seq(Node)
      BY <1>8 DEF IInv, TypeOK
    <3> QED
      BY <3>1, <3>2
  <2>3. pc' \in [Request -> Label]
    BY <1>3 DEF IInv, TypeOK, Label
  <2> QED
    BY <1>1, <2>1, <2>2, <2>3 DEF IInv, TypeOK
<1>12. ASSUME NEW q \in Request PROVE ActivationOK(q)' /\ TreeOK(q)'
  <2>1. CASE q # r
    BY <1>1, <1>3, <1>8, <2>1 DEF IInv, TypeOK, WalkOK, ActivationOK, TreeOK
  <2>2. CASE q = r
    <3>1. call'[r] = a /\ node'[r] = i
          /\ pc'[r] = IF ChildAt(p.desc, c).ref = None THEN "resolve" ELSE "ref"
      BY <1>1, <1>3 DEF a, IInv, TypeOK
    <3>2. ActivationOK(r)'
      BY <1>5, <1>6, <1>9, <1>10, <3>1 DEF ActivationOK
    <3>3. TreeOK(r)'
      BY <1>2, <1>7, <1>8, <3>1 DEF IInv, WalkOK, TreeOK
    <3> QED
      BY <2>2, <3>2, <3>3
  <2> QED
    BY <2>1, <2>2
<1> QED
  BY <1>11, <1>12 DEF IInv, WalkOK

LEMMA ReturnIInv ==
    ASSUME IInv, NEW r \in Request, Return(r)
    PROVE  IInv'
<1>1. /\ pc[r] = "slots"
      /\ UNCHANGED << cache, descCache, call, tree, skipped >>
  BY DEF Return
<1>2. tree[r] \in Seq(Node) /\ node[r] \in 1 .. Len(tree[r])
      /\ tree[r][node[r]] \in Node /\ tree[r][node[r]].parent < node[r]
  BY <1>1 DEF IInv, TypeOK, WalkOK, TreeOK
<1>3. tree[r][node[r]].parent \in Nat
  BY <1>2 DEF Node
<1>4. CASE tree[r][node[r]].parent = 0
  <2>1. /\ pc' = [pc EXCEPT ![r] = "done"]
        /\ result' = [result EXCEPT ![r] = "ok"]
        /\ UNCHANGED node
    BY <1>4 DEF Return, Goto
  <2>2. TypeOK'
    BY <1>1, <2>1 DEF IInv, TypeOK, Label
  <2> QED
    BY <1>1, <2>1, <2>2 DEF IInv, TypeOK, WalkOK, ActivationOK, TreeOK
<1>5. CASE tree[r][node[r]].parent # 0
  <2>1. /\ node' = [node EXCEPT ![r] = tree[r][node[r]].parent]
        /\ UNCHANGED << pc, result >>
    BY <1>5 DEF Return
  <2>2. TypeOK'
    BY <1>1, <1>3, <2>1 DEF IInv, TypeOK
  <2>3. WalkOK'
    BY <1>1, <1>2, <1>3, <1>5, <2>1 DEF IInv, TypeOK, WalkOK, ActivationOK, TreeOK
  <2> QED
    BY <2>2, <2>3 DEF IInv
<1> QED
  BY <1>4, <1>5

LEMMA CheckRefIInv ==
    ASSUME IInv, NEW r \in Request, CheckRef(r)
    PROVE  IInv'
<1> DEFINE url == ResolveRef(call[r].ref, call[r].base)
           a == [call[r] EXCEPT !.url = url]
<1>1. pc[r] = "ref" /\ UNCHANGED << cache, descCache >>
  BY DEF CheckRef
<1>2. CASE \E why \in Reason : Fail(r, why)
  BY <1>1, <1>2, FailIInv
<1>3. CASE ~ \E why \in Reason : Fail(r, why)
  <2>1. /\ url # None
        /\ pc' = [pc EXCEPT ![r] = "loadRef"]
        /\ call' = [call EXCEPT ![r] = a]
        /\ UNCHANGED << node, tree, skipped, result >>
    BY <1>3 DEF CheckRef, Goto, Reason
  <2>2. call[r] \in Activation /\ call[r].ref \in DescriptorRef
        /\ call[r].base \in Url \cup {None}
    BY <1>1 DEF IInv, TypeOK, WalkOK, ActivationOK, Activation
  <2>3. url \in Url
    BY <2>1, <2>2, ResolveRefType
  <2>4. a \in Activation /\ a.parent = call[r].parent /\ a.place = call[r].place
        /\ a.url \in Url
    BY <2>2, <2>3 DEF Activation
  <2> HIDE DEF url, a
  <2> QED
    BY <1>1, <2>1, <2>4, LocalIInv, CachesKept DEF Label
<1> QED
  BY <1>2, <1>3

LEMMA FollowIInv ==
    ASSUME IInv, NEW r \in Request, NEW d \in Desc, Follow(r, d),
           pc[r] \in {"loadRef", "storeRef"}, call[r].url \in Url,
           cache' = cache, DOMAIN descCache' \subseteq Url,
           descCache' \in [DOMAIN descCache' -> Desc]
    PROVE  IInv'
<1> DEFINE a == [call[r] EXCEPT !.desc = d, !.base = call[r].url,
                                !.depth = call[r].depth + 1,
                                !.seen = call[r].seen \cup {call[r].url}]
<1>1. /\ pc' = [pc EXCEPT ![r] = "resolve"] /\ call' = [call EXCEPT ![r] = a]
      /\ UNCHANGED << node, tree, skipped, result >>
  BY DEF Follow, Goto
<1>2. call[r] \in Activation
  BY DEF IInv, TypeOK
<1>3. call[r].depth + 1 \in Nat /\ call[r].seen \cup {call[r].url} \in SUBSET Url
  BY <1>2 DEF Activation
<1> DEFINE depth == call[r].depth + 1
           seen == call[r].seen \cup {call[r].url}
<1>4. a \in Activation /\ a.parent = call[r].parent /\ a.place = call[r].place
      /\ a.desc \in Desc
  <2>1. a = [call[r] EXCEPT !.desc = d, !.base = call[r].url,
                            !.depth = depth, !.seen = seen]
    OBVIOUS
  <2>2. depth \in Nat /\ seen \in SUBSET Url
    BY <1>3
  <2> HIDE DEF a, depth, seen
  <2> QED
    BY <1>2, <2>1, <2>2 DEF Activation
<1>5. DOMAIN cache' \subseteq Identity /\ cache' \in [DOMAIN cache' -> Body]
  BY DEF IInv, TypeOK
<1> HIDE DEF a
<1> QED
  BY <1>1, <1>4, <1>5, LocalIInv DEF Label

LEMMA LoadRefIInv ==
    ASSUME IInv, NEW r \in Request, LoadRef(r)
    PROVE  IInv'
<1>1. pc[r] = "loadRef" /\ UNCHANGED << cache, descCache >>
  BY DEF LoadRef
<1>2. call[r] \in Activation /\ call[r].url \in Url
  BY <1>1 DEF IInv, TypeOK, WalkOK, ActivationOK
<1>3. CASE call[r].url \in DOMAIN descCache
  <2>1. Follow(r, descCache[call[r].url]) /\ descCache[call[r].url] \in Desc
    BY <1>3 DEF LoadRef, IInv, TypeOK
  <2> QED
    BY <1>1, <1>2, <2>1, FollowIInv, CachesKept
<1>4. CASE Fail(r, "descriptor-ref")
  BY <1>1, <1>4, FailIInv DEF Reason
<1>5. CASE call[r].url \notin DOMAIN descCache /\ ~Fail(r, "descriptor-ref")
  <2>1. /\ pc' = [pc EXCEPT ![r] = "fetchRef"]
        /\ UNCHANGED << call, node, tree, skipped, result >>
    BY <1>5 DEF LoadRef, Goto
  <2>2. call' = [call EXCEPT ![r] = call[r]]
    BY <2>1 DEF IInv, TypeOK
  <2> QED
    BY <1>1, <1>2, <2>1, <2>2, LocalIInv, CachesKept DEF Label
<1> QED
  BY <1>3, <1>4, <1>5

LEMMA FetchRefIInv ==
    ASSUME IInv, NEW r \in Request, FetchRef(r)
    PROVE  IInv'
<1>1. pc[r] = "fetchRef" /\ UNCHANGED << cache, descCache >>
  BY DEF FetchRef
<1>2. call[r] \in Activation /\ call[r].url \in Url
  BY <1>1 DEF IInv, TypeOK, WalkOK, ActivationOK
<1>3. CASE Fail(r, "descriptor-ref")
  BY <1>1, <1>3, FailIInv DEF Reason
<1>4. CASE ~Fail(r, "descriptor-ref")
  <2>1. PICK d \in Answers(call[r].url) :
          /\ pc' = [pc EXCEPT ![r] = "storeRef"]
          /\ call' = [call EXCEPT ![r] = [call[r] EXCEPT !.desc = d]]
          /\ UNCHANGED << node, tree, skipped, result >>
    BY <1>4 DEF FetchRef, Goto
  <2>2. d \in Desc
    BY ResolverAssumption DEF Answers
  <2> DEFINE a == [call[r] EXCEPT !.desc = d]
  <2>3. a \in Activation /\ a.parent = call[r].parent /\ a.place = call[r].place
        /\ a.desc \in Desc /\ a.url \in Url
    BY <1>2, <2>2 DEF Activation
  <2>4. call' = [call EXCEPT ![r] = a]
    BY <2>1
  <2> HIDE DEF a
  <2> QED
    BY <1>1, <2>1, <2>3, <2>4, LocalIInv, CachesKept DEF Label
<1> QED
  BY <1>3, <1>4

LEMMA StoreRefIInv ==
    ASSUME IInv, NEW r \in Request, StoreRef(r)
    PROVE  IInv'
<1>1. /\ pc[r] = "storeRef" /\ cache' = cache /\ Follow(r, call[r].desc)
      /\ descCache' = Put(descCache, call[r].url, call[r].desc)
  BY DEF StoreRef
<1>2. call[r].url \in Url /\ call[r].desc \in Desc
  BY <1>1 DEF IInv, WalkOK, ActivationOK
<1>3. DOMAIN descCache' \subseteq Url /\ descCache' \in [DOMAIN descCache' -> Desc]
  BY <1>1, <1>2 DEF Put, IInv, TypeOK
<1> QED
  BY <1>1, <1>2, <1>3, FollowIInv

LEMMA NextIInv == IInv /\ [Next]_vars => IInv'
<1> SUFFICES ASSUME IInv, [Next]_vars PROVE IInv'
  OBVIOUS
<1>1. CASE UNCHANGED vars
  BY <1>1 DEF vars, IInv, TypeOK, WalkOK, ActivationOK, TreeOK
<1>2. ASSUME NEW r \in Request, Resolve(r) \/ Step(r) PROVE IInv'
  BY <1>2, ResolveIInv, CheckTemplateIInv, LoadTemplateIInv, FetchTemplateIInv,
     StoreTemplateIInv, CreateNodeIInv, EnterSlotIInv, ReturnIInv, CheckRefIInv,
     LoadRefIInv, FetchRefIInv, StoreRefIInv DEF Step
<1> QED
  BY <1>1, <1>2 DEF Next, AllDone

THEOREM Invariance == Spec => []IInv
BY InitIInv, NextIInv, PTL DEF Spec

(* Type correctness of the resolver: the locals of every activation and    *)
(* the nodes of every tree are what the code's types say.                  *)
THEOREM TypeCorrect == Spec => []TypeOK
<1>1. IInv => TypeOK
  BY DEF IInv
<1> QED
  BY Invariance, <1>1, PTL

-----------------------------------------------------------------------------
(* The safety properties: pinned bodies, the closure of the same-origin    *)
(* default, the HTTPS rule seen through the caches, the point after which  *)
(* a cache entry no longer changes, and that nothing invalid is composed.  *)

(* What a step can do to a tree: nothing but shrink a node's todo, or add  *)
(* one node, made of the activation that just passed its last checks.      *)
SameButTodo(n, m) ==
    /\ n.parent = m.parent /\ n.place = m.place /\ n.desc = m.desc
    /\ n.base = m.base /\ n.depth = m.depth /\ n.seen = m.seen
    /\ n.id = m.id /\ n.body = m.body /\ n.kind = m.kind

MadeOf(n, a) ==
    /\ n.parent = a.parent /\ n.place = a.place /\ n.desc = a.desc
    /\ n.base = a.base /\ n.depth = a.depth /\ n.seen = a.seen
    /\ n.id = a.id /\ n.body = a.body /\ n.kind = a.kind

NodeAdded(r) ==
    /\ pc[r] = "verify"
    /\ Verified(call[r])
    /\ Descriptor[call[r].desc].mapper = None
         \/ Descriptor[call[r].desc].mapper \in Mappers
    /\ Len(tree'[r]) = Len(tree[r]) + 1
    /\ MadeOf(tree'[r][Len(tree[r]) + 1], call[r])
    /\ \A i \in 1 .. Len(tree[r]) : tree'[r][i] = tree[r][i]

LEMMA TreeStep ==
    ASSUME IInv, [Next]_vars, NEW r \in Request
    PROVE  \/ /\ Len(tree'[r]) = Len(tree[r])
              /\ \A i \in 1 .. Len(tree[r]) : SameButTodo(tree'[r][i], tree[r][i])
           \/ NodeAdded(r)
<1> DEFINE Kept == /\ Len(tree'[r]) = Len(tree[r])
                   /\ \A i \in 1 .. Len(tree[r]) :
                        SameButTodo(tree'[r][i], tree[r][i])
<1>1. ASSUME tree'[r] = tree[r] PROVE Kept
  BY <1>1 DEF SameButTodo
<1>2. ASSUME NEW q \in Request, Resolve(q) \/ Step(q), q # r PROVE tree'[r] = tree[r]
  <2>1. tree' = tree
        \/ (\E x : tree' = [tree EXCEPT ![q] = x])
        \/ EnterSlot(q)
    BY <1>2 DEF Resolve, Step, Fail, Follow, CheckTemplate, LoadTemplate, FetchTemplate,
       StoreTemplate, CreateNode, Return, CheckRef, LoadRef, FetchRef, StoreRef
  <2>2. CASE EnterSlot(q)
    BY <1>2, <2>2 DEF EnterSlot, IInv, TypeOK
  <2> QED
    BY <1>2, <2>1, <2>2 DEF IInv, TypeOK
<1>3. CASE CreateNode(r)
  <2>1. CASE \E why : Fail(r, why)
    BY <1>1, <2>1 DEF Fail
  <2>2. CASE ~ \E why : Fail(r, why)
    <3> DEFINE n == [parent |-> call[r].parent, place |-> call[r].place,
                     desc |-> call[r].desc, base |-> call[r].base,
                     depth |-> call[r].depth, seen |-> call[r].seen,
                     id |-> call[r].id, body |-> call[r].body,
                     kind |-> call[r].kind, todo |-> Places(call[r].desc)]
    <3>1. /\ pc[r] = "verify" /\ Verified(call[r])
          /\ Descriptor[call[r].desc].mapper = None
               \/ Descriptor[call[r].desc].mapper \in Mappers
          /\ tree' = [tree EXCEPT ![r] = Append(tree[r], n)]
      BY <1>3, <2>2 DEF CreateNode
    <3>2. MadeOf(n, call[r])
      BY DEF MadeOf
    <3> HIDE DEF n
    <3>3. tree[r] \in Seq(Node)
      BY DEF IInv, TypeOK
    <3>4. tree'[r] = Append(tree[r], n)
      BY <3>1 DEF IInv, TypeOK
    <3>5. /\ Len(tree'[r]) = Len(tree[r]) + 1
          /\ \A i \in 1 .. Len(tree[r]) : tree'[r][i] = tree[r][i]
          /\ tree'[r][Len(tree[r]) + 1] = n
      BY <3>3, <3>4
    <3> QED
      BY <3>1, <3>2, <3>5 DEF NodeAdded
  <2> QED
    BY <2>1, <2>2
<1>4. CASE EnterSlot(r)
  <2>1. tree[r] \in Seq(Node) /\ node[r] \in 1 .. Len(tree[r])
        /\ tree[r][node[r]] \in Node
    BY <1>4 DEF EnterSlot, IInv, TypeOK, WalkOK, TreeOK
  <2>2. PICK c \in tree[r][node[r]].todo :
          tree' = [tree EXCEPT ![r][node[r]].todo = @ \ {c}]
    BY <1>4 DEF EnterSlot
  <2>3. tree'[r] = [tree[r] EXCEPT ![node[r]] =
                      [tree[r][node[r]] EXCEPT !.todo = @ \ {c}]]
    BY <2>2, <2>1 DEF IInv, TypeOK, Node
  <2> DEFINE m == [tree[r][node[r]] EXCEPT !.todo = @ \ {c}]
  <2>4. SameButTodo(m, tree[r][node[r]])
    BY <2>1 DEF SameButTodo, Node
  <2>5. tree'[r] = [tree[r] EXCEPT ![node[r]] = m]
    BY <2>3
  <2> HIDE DEF m
  <2>6. Len(tree'[r]) = Len(tree[r])
        /\ \A i \in 1 .. Len(tree[r]) :
             tree'[r][i] = IF i = node[r] THEN m ELSE tree[r][i]
    BY <2>1, <2>5
  <2> QED
    BY <2>4, <2>6 DEF SameButTodo
<1>5. CASE Resolve(r) \/ CheckTemplate(r) \/ LoadTemplate(r) \/ FetchTemplate(r)
           \/ StoreTemplate(r) \/ Return(r) \/ CheckRef(r) \/ LoadRef(r)
           \/ FetchRef(r) \/ StoreRef(r)
  <2>1. tree' = tree
    BY <1>5 DEF Resolve, Fail, Follow, CheckTemplate, LoadTemplate, FetchTemplate,
       StoreTemplate, Return, CheckRef, LoadRef, FetchRef, StoreRef
  <2> QED
    BY <1>1, <2>1
<1>6. CASE UNCHANGED vars
  BY <1>1, <1>6 DEF vars
<1> QED
  BY <1>1, <1>2, <1>3, <1>4, <1>5, <1>6 DEF Next, Step, AllDone

-----------------------------------------------------------------------------
(* No tree ever holds a body that the integrity metadata of its descriptor *)
(* rejects, whichever request or slot put the body in the cache.           *)
THEOREM PinnedBodiesHold == Spec => []PinnedBodies
<1>1. Init => PinnedBodies
  BY DEF Init, PinnedBodies, Nodes
<1>2. IInv /\ PinnedBodies /\ [Next]_vars => PinnedBodies'
  <2> SUFFICES ASSUME IInv, PinnedBodies, [Next]_vars,
                      NEW r \in Request, NEW i \in Nodes(r)'
               PROVE  VerifyIntegrity(Descriptor[tree'[r][i].desc].integrity,
                                      tree'[r][i].body)
    BY DEF PinnedBodies
  <2>1. tree[r] \in Seq(Node) /\ Len(tree[r]) \in Nat
    BY DEF IInv, TypeOK
  <2>2. CASE NodeAdded(r)
    <3>1. CASE i = Len(tree[r]) + 1
      BY <2>2, <3>1 DEF NodeAdded, MadeOf, Verified
    <3>2. CASE i # Len(tree[r]) + 1
      <4>1. i \in Nodes(r) /\ tree'[r][i] = tree[r][i]
        BY <2>1, <2>2, <3>2 DEF NodeAdded, Nodes
      <4> QED
        BY <4>1 DEF PinnedBodies
    <3> QED
      BY <3>1, <3>2
  <2>3. CASE ~NodeAdded(r)
    <3>1. i \in Nodes(r) /\ SameButTodo(tree'[r][i], tree[r][i])
      BY <2>1, <2>3, TreeStep DEF Nodes
    <3> QED
      BY <3>1 DEF PinnedBodies, SameButTodo
  <2> QED
    BY <2>2, <2>3
<1> QED
  BY <1>1, <1>2, Invariance, PTL DEF Spec

-----------------------------------------------------------------------------
(* The same-origin default is closed under references.                     *)

Home(r, base) ==
    \/ base = RootBase[r]
    \/ base # None /\ RootBase[r] # None /\ SameOrigin(base, RootBase[r])

AtHome(r, id) ==
    /\ RootBase[r] # None
    /\ IF ReadsAsAbsolute(id)
       THEN SameOrigin(Parse(id), RootBase[r])
       ELSE Lower[id.host] = Lower[RootBase[r].host]

OriginOK(r) ==
    /\ Home(r, call[r].base)
    /\ pc[r] \in {"load", "fetch", "store", "verify"} => AtHome(r, call[r].id)
    /\ pc[r] \in {"loadRef", "fetchRef", "storeRef"} => Home(r, call[r].url)
    /\ \A i \in Nodes(r) : Home(r, tree[r][i].base) /\ AtHome(r, tree[r][i].id)

OriginInv == Allowlist = {} => \A r \in Request : OriginOK(r)

LEMMA TrustedAtHome ==
    ASSUME NEW r \in Request, NEW base, NEW id, Home(r, base),
           CheckTrusted(id, base, {})
    PROVE  AtHome(r, id)
BY DEF CheckTrusted, Home, AtHome, SameOrigin

LEMMA TrustedHome ==
    ASSUME NEW r \in Request, NEW base, NEW url, url # None, Home(r, base),
           CheckTrusted(AsIdentity(url), base, {})
    PROVE  Home(r, url)
<1>1. ReadsAsAbsolute(AsIdentity(url))
  BY DEF ReadsAsAbsolute, AsIdentity
<1>2. Parse(AsIdentity(url)).scheme = url.scheme /\ Parse(AsIdentity(url)).host = url.host
  BY DEF Parse, AsIdentity
<1>3. AtHome(r, AsIdentity(url))
  BY TrustedAtHome
<1> QED
  BY <1>1, <1>2, <1>3 DEF AtHome, Home, SameOrigin

(* What a step does to the activation of its request, as far as bases and  *)
(* identities are concerned.                                               *)
LEMMA OriginStep ==
    ASSUME IInv, Allowlist = {}, NEW r \in Request, OriginOK(r), [Next]_vars
    PROVE  /\ Home(r, call'[r].base)
           /\ pc'[r] \in {"load", "fetch", "store", "verify"}
                => AtHome(r, call'[r].id)
           /\ pc'[r] \in {"loadRef", "fetchRef", "storeRef"}
                => Home(r, call'[r].url)
<1> DEFINE Goal ==
       /\ Home(r, call'[r].base)
       /\ pc'[r] \in {"load", "fetch", "store", "verify"} => AtHome(r, call'[r].id)
       /\ pc'[r] \in {"loadRef", "fetchRef", "storeRef"} => Home(r, call'[r].url)
<1>0. call[r] \in Activation /\ call \in [Request -> Activation]
      /\ pc \in [Request -> Label]
  BY DEF IInv, TypeOK
<1>1. ASSUME call'[r] = call[r],
             pc'[r] = pc[r] \/ pc'[r] \in {"idle", "resolve", "slots", "ref", "done"}
               \/ (pc[r] \in {"load", "fetch", "store"}
                    /\ pc'[r] \in {"fetch", "store", "verify"})
               \/ (pc[r] = "loadRef" /\ pc'[r] = "fetchRef")
      PROVE Goal
  BY <1>1 DEF OriginOK
<1>2. ASSUME NEW why, Fail(r, why) PROVE Goal
  BY <1>0, <1>1, <1>2 DEF Fail, Goto
<1>3. ASSUME NEW q \in Request, q # r, Resolve(q) \/ Step(q) PROVE Goal
  <2>1. pc'[r] = pc[r] /\ call'[r] = call[r]
    BY <1>0, <1>3 DEF Resolve, Step, Fail, Goto, Follow, CheckTemplate, LoadTemplate,
       FetchTemplate, StoreTemplate, CreateNode, EnterSlot, Return, CheckRef,
       LoadRef, FetchRef, StoreRef
  <2> QED
    BY <1>1, <2>1
<1>4. CASE Resolve(r) \/ StoreTemplate(r) \/ CreateNode(r) \/ Return(r)
  BY <1>0, <1>1, <1>2, <1>4 DEF Resolve, StoreTemplate, CreateNode, Return, Goto
<1>5. CASE CheckTemplate(r)
  <2> DEFINE id == ResolveTemplateURI(Descriptor[call[r].desc].template, call[r].base)
  <2>1. CASE \E why : Fail(r, why)
    BY <1>2, <2>1
  <2>2. CASE ~ \E why : Fail(r, why)
    <3>1. /\ CheckTrusted(id, call[r].base, {})
          /\ pc' = [pc EXCEPT ![r] = "load"]
          /\ call' = [call EXCEPT ![r] = [call[r] EXCEPT !.id = id]]
      BY <1>5, <2>2 DEF CheckTemplate, Goto
    <3> HIDE DEF id
    <3>2. pc'[r] = "load" /\ call'[r].base = call[r].base /\ call'[r].id = id
      BY <1>0, <3>1 DEF Activation
    <3>3. Home(r, call[r].base)
      BY DEF OriginOK
    <3>4. AtHome(r, id)
      BY <3>1, <3>3, TrustedAtHome
    <3> QED
      BY <3>2, <3>3, <3>4
  <2> QED
    BY <2>1, <2>2
<1>6. CASE LoadTemplate(r) \/ FetchTemplate(r)
  <2>1. CASE \E why : Fail(r, why)
    BY <1>2, <2>1
  <2>2. CASE ~ \E why : Fail(r, why)
    <3>1. pc[r] \in {"load", "fetch"} /\ pc'[r] \in {"fetch", "store", "verify"}
      BY <1>0, <1>6, <2>2 DEF LoadTemplate, FetchTemplate, Goto
    <3>2. call'[r].base = call[r].base /\ call'[r].id = call[r].id
      BY <1>0, <1>6, <2>2, ZenonT(60) DEF LoadTemplate, FetchTemplate, Activation
    <3> QED
      BY <3>1, <3>2 DEF OriginOK
  <2> QED
    BY <2>1, <2>2
<1>7. CASE EnterSlot(r)
  <2>1. node[r] \in Nodes(r)
    BY <1>7 DEF EnterSlot, IInv, TypeOK, WalkOK, TreeOK, Nodes
  <2>2. call'[r].base = tree[r][node[r]].base /\ pc'[r] \in {"resolve", "ref"}
    BY <1>0, <1>7 DEF EnterSlot, Goto, NewActivation
  <2> QED
    BY <2>1, <2>2 DEF OriginOK
<1>8. CASE CheckRef(r)
  <2> DEFINE url == ResolveRef(call[r].ref, call[r].base)
  <2>1. CASE \E why : Fail(r, why)
    BY <1>2, <2>1
  <2>2. CASE ~ \E why : Fail(r, why)
    <3>1. /\ url # None
          /\ CheckTrusted(AsIdentity(url), call[r].base, {})
          /\ pc' = [pc EXCEPT ![r] = "loadRef"]
          /\ call' = [call EXCEPT ![r] = [call[r] EXCEPT !.url = url]]
      BY <1>8, <2>2 DEF CheckRef, TrustedReference, Goto
    <3> HIDE DEF url
    <3>2. pc'[r] = "loadRef" /\ call'[r].base = call[r].base /\ call'[r].url = url
      BY <1>0, <3>1 DEF Activation
    <3>3. Home(r, call[r].base)
      BY DEF OriginOK
    <3>4. Home(r, url)
      BY <3>1, <3>3, TrustedHome
    <3> QED
      BY <3>2, <3>3, <3>4
  <2> QED
    BY <2>1, <2>2
<1>9. ASSUME NEW d, Follow(r, d), pc[r] \in {"loadRef", "storeRef"} PROVE Goal
  <2>1. pc'[r] = "resolve" /\ call'[r].base = call[r].url
    BY <1>0, <1>9 DEF Follow, Goto, Activation
  <2> QED
    BY <1>9, <2>1 DEF OriginOK
<1>10. CASE LoadRef(r)
  BY <1>0, <1>1, <1>2, <1>9, <1>10 DEF LoadRef, Goto
<1>11. CASE StoreRef(r)
  BY <1>9, <1>11 DEF StoreRef
<1>12. CASE FetchRef(r)
  <2>1. CASE \E why : Fail(r, why)
    BY <1>2, <2>1
  <2>2. CASE ~ \E why : Fail(r, why)
    <3>1. pc[r] = "fetchRef" /\ pc'[r] = "storeRef"
          /\ call'[r].base = call[r].base /\ call'[r].url = call[r].url
      BY <1>0, <1>12, <2>2 DEF FetchRef, Goto, Activation
    <3> QED
      BY <3>1 DEF OriginOK
  <2> QED
    BY <2>1, <2>2
<1>13. CASE UNCHANGED vars
  BY <1>1, <1>13 DEF vars
<1> QED
  BY <1>3, <1>4, <1>5, <1>6, <1>7, <1>8, <1>10, <1>11, <1>12, <1>13
  DEF Next, Step, AllDone

LEMMA OriginInvariance == Spec => []OriginInv
<1>1. Init => OriginInv
  BY DEF Init, OriginInv, OriginOK, Nodes, Home, RootActivation, NewActivation
<1>2. IInv /\ OriginInv /\ [Next]_vars => OriginInv'
  <2> SUFFICES ASSUME IInv, OriginInv, [Next]_vars, Allowlist = {}, NEW r \in Request
               PROVE  OriginOK(r)'
    BY DEF OriginInv
  <2>1. OriginOK(r)
    BY DEF OriginInv
  <2>2. ASSUME NEW i \in Nodes(r)'
        PROVE  Home(r, tree'[r][i].base) /\ AtHome(r, tree'[r][i].id)
    <3>1. tree[r] \in Seq(Node) /\ Len(tree[r]) \in Nat
      BY DEF IInv, TypeOK
    <3>2. CASE NodeAdded(r) /\ i = Len(tree[r]) + 1
      BY <2>1, <3>2 DEF NodeAdded, MadeOf, OriginOK
    <3>3. CASE NodeAdded(r) /\ i # Len(tree[r]) + 1
      BY <2>1, <3>1, <3>3 DEF NodeAdded, Nodes, OriginOK
    <3>4. CASE ~NodeAdded(r)
      <4>1. i \in Nodes(r) /\ SameButTodo(tree'[r][i], tree[r][i])
        BY <3>1, <3>4, TreeStep DEF Nodes
      <4> QED
        BY <2>1, <4>1 DEF SameButTodo, OriginOK
    <3> QED
      BY <3>2, <3>3, <3>4
  <2>3. /\ Home(r, call'[r].base)
        /\ pc'[r] \in {"load", "fetch", "store", "verify"} => AtHome(r, call'[r].id)
        /\ pc'[r] \in {"loadRef", "fetchRef", "storeRef"} => Home(r, call'[r].url)
    BY <2>1, OriginStep
  <2> QED
    BY <2>2, <2>3 DEF OriginOK, Home, AtHome
<1> QED
  BY <1>1, <1>2, Invariance, PTL DEF Spec

(* Without an allowlist nothing in a tree comes from another origin than   *)
(* the base its request began with, through any chain of references.       *)
THEOREM SameOriginClosed == Spec => []SameOriginClosure
<1>1. OriginInv => SameOriginClosure
  BY DEF OriginInv, OriginOK, SameOriginClosure, AtHome
<1> QED
  BY OriginInvariance, <1>1, PTL

-----------------------------------------------------------------------------
(* How a step moves one request relative to the caches: it is about to     *)
(* fetch k only after it looked k up and missed, and what it holds between *)
(* the exchange and the store is what it looked up.                        *)

Filling(r, k) == pc[r] \in {"fetch", "store"} /\ call[r].id = k
FillingRef(r, u) == pc[r] \in {"fetchRef", "storeRef"} /\ call[r].url = u

LEMMA FillStep ==
    ASSUME IInv, NEW r \in Request, Resolve(r) \/ Step(r), NEW k
    PROVE  /\ Filling(r, k)' =>
                \/ Filling(r, k)
                \/ k \notin DOMAIN cache /\ FetchAllowed(FetchURL(k))
           /\ FillingRef(r, k)' =>
                \/ FillingRef(r, k)
                \/ k \notin DOMAIN descCache /\ FetchAllowed(k)
<1> DEFINE Goal ==
       /\ Filling(r, k)' =>
                \/ Filling(r, k)
                \/ k \notin DOMAIN cache /\ FetchAllowed(FetchURL(k))
       /\ FillingRef(r, k)' =>
                \/ FillingRef(r, k)
                \/ k \notin DOMAIN descCache /\ FetchAllowed(k)
<1>0. call[r] \in Activation /\ call \in [Request -> Activation]
      /\ pc \in [Request -> Label]
  BY DEF IInv, TypeOK
<1>1. ASSUME pc'[r] \notin {"fetch", "store", "fetchRef", "storeRef"} PROVE Goal
  BY <1>1 DEF Filling, FillingRef
<1>2. ASSUME NEW why, Fail(r, why) PROVE Goal
  BY <1>0, <1>1, <1>2 DEF Fail, Goto
<1>3. CASE Resolve(r) \/ CheckTemplate(r) \/ StoreTemplate(r) \/ CreateNode(r)
           \/ EnterSlot(r) \/ Return(r) \/ CheckRef(r) \/ StoreRef(r)
  <2>1. CASE \E why : Fail(r, why)
    BY <1>2, <2>1
  <2>2. CASE ~ \E why : Fail(r, why)
    <3>1. pc'[r] \notin {"fetch", "store", "fetchRef", "storeRef"}
      BY <1>0, <1>3, <2>2
      DEF Resolve, CheckTemplate, StoreTemplate, CreateNode, EnterSlot, Return,
          CheckRef, StoreRef, Follow, Goto
    <3> QED
      BY <1>1, <3>1
  <2> QED
    BY <2>1, <2>2
<1>4. CASE LoadTemplate(r)
  <2>1. CASE Fail(r, "fetch")
    BY <1>2, <2>1
  <2>2. CASE Cached(call[r])
    BY <1>0, <1>1, <1>4, <2>2 DEF LoadTemplate, Goto
  <2>3. CASE ~Fail(r, "fetch") /\ ~Cached(call[r])
    BY <1>0, <1>4, <2>3 DEF LoadTemplate, Goto, Cached, Key, Filling, FillingRef
  <2> QED
    BY <2>1, <2>2, <2>3
<1>5. CASE FetchTemplate(r)
  <2>1. CASE Fail(r, "fetch")
    BY <1>2, <2>1
  <2>2. CASE ~Fail(r, "fetch")
    <3>1. pc[r] = "fetch" /\ pc'[r] = "store" /\ call'[r].id = call[r].id
      BY <1>0, <1>5, <2>2 DEF FetchTemplate, Goto, Activation
    <3> QED
      BY <3>1 DEF Filling, FillingRef
  <2> QED
    BY <2>1, <2>2
<1>6. CASE LoadRef(r)
  <2>1. CASE Fail(r, "descriptor-ref")
    BY <1>2, <2>1
  <2>2. CASE call[r].url \in DOMAIN descCache
    BY <1>0, <1>1, <1>6, <2>2 DEF LoadRef, Follow, Goto
  <2>3. CASE ~Fail(r, "descriptor-ref") /\ call[r].url \notin DOMAIN descCache
    BY <1>0, <1>6, <2>3 DEF LoadRef, Goto, Filling, FillingRef
  <2> QED
    BY <2>1, <2>2, <2>3
<1>7. CASE FetchRef(r)
  <2>1. CASE Fail(r, "descriptor-ref")
    BY <1>2, <2>1
  <2>2. CASE ~Fail(r, "descriptor-ref")
    <3>1. pc[r] = "fetchRef" /\ pc'[r] = "storeRef" /\ call'[r].url = call[r].url
      BY <1>0, <1>7, <2>2 DEF FetchRef, Goto, Activation
    <3> QED
      BY <3>1 DEF Filling, FillingRef
  <2> QED
    BY <2>1, <2>2
<1> QED
  BY <1>3, <1>4, <1>5, <1>6, <1>7 DEF Step

(* The caches only grow, by what a request between its exchange and its    *)
(* store holds.                                                            *)
LEMMA CacheStep ==
    ASSUME IInv, [Next]_vars
    PROVE  /\ \/ cache' = cache
              \/ \E r \in Request : /\ pc[r] = "store"
                                    /\ cache' = Put(cache, call[r].id, call[r].body)
           /\ \/ descCache' = descCache
              \/ \E r \in Request :
                   /\ pc[r] = "storeRef"
                   /\ descCache' = Put(descCache, call[r].url, call[r].desc)
<1>1. CASE UNCHANGED vars
  BY <1>1 DEF vars
<1>2. ASSUME NEW r \in Request, Resolve(r) \/ Step(r), ~StoreTemplate(r), ~StoreRef(r)
      PROVE  cache' = cache /\ descCache' = descCache
  BY <1>2 DEF Resolve, Step, CheckTemplate, LoadTemplate, FetchTemplate, CreateNode,
     EnterSlot, Return, CheckRef, LoadRef, FetchRef
<1>3. ASSUME NEW r \in Request, StoreTemplate(r)
      PROVE  /\ pc[r] = "store" /\ descCache' = descCache
             /\ cache' = Put(cache, call[r].id, call[r].body)
  BY <1>3 DEF StoreTemplate, Key
<1>4. ASSUME NEW r \in Request, StoreRef(r)
      PROVE  /\ pc[r] = "storeRef" /\ cache' = cache
             /\ descCache' = Put(descCache, call[r].url, call[r].desc)
  BY <1>4 DEF StoreRef
<1> QED
  BY <1>1, <1>2, <1>3, <1>4 DEF Next, AllDone

(* A request that takes no step keeps what it is filling.                  *)
LEMMA OtherFill ==
    ASSUME IInv, [Next]_vars, NEW r \in Request, NEW k,
           ~(Resolve(r) \/ Step(r))
    PROVE  (Filling(r, k)' => Filling(r, k)) /\ (FillingRef(r, k)' => FillingRef(r, k))
<1>1. ASSUME NEW q \in Request, q # r, Resolve(q) \/ Step(q)
      PROVE  pc'[r] = pc[r] /\ call'[r] = call[r]
  BY <1>1 DEF IInv, TypeOK, Resolve, Step, Fail, Goto, Follow, CheckTemplate, LoadTemplate,
     FetchTemplate, StoreTemplate, CreateNode, EnterSlot, Return, CheckRef,
     LoadRef, FetchRef, StoreRef
<1>2. pc'[r] = pc[r] /\ call'[r] = call[r]
  BY <1>1 DEF Next, AllDone, vars
<1> QED
  BY <1>2 DEF Filling, FillingRef

-----------------------------------------------------------------------------
(* Whatever is cached, or about to be, may be fetched.                     *)

SecureInv ==
    /\ FetchedSecurely
    /\ \A r \in Request :
         /\ pc[r] \in {"fetch", "store"} => FetchAllowed(FetchURL(call[r].id))
         /\ pc[r] \in {"fetchRef", "storeRef"} => FetchAllowed(call[r].url)

(* The rule holds of every request that is filling an entry as well.       *)
LEMMA SecureInvariance == Spec => []SecureInv
<1>1. Init => SecureInv
  BY DEF Init, SecureInv, FetchedSecurely, Empty
<1>2. IInv /\ SecureInv /\ [Next]_vars => SecureInv'
  <2> SUFFICES ASSUME IInv, SecureInv, [Next]_vars PROVE SecureInv'
    OBVIOUS
  <2>1. \A k \in DOMAIN cache' : FetchAllowed(FetchURL(k))
    <3>1. CASE cache' = cache
      BY <3>1 DEF SecureInv, FetchedSecurely
    <3>2. ASSUME NEW r \in Request, pc[r] = "store",
                 cache' = Put(cache, call[r].id, call[r].body)
          PROVE  \A k \in DOMAIN cache' : FetchAllowed(FetchURL(k))
      <4>1. DOMAIN cache' = DOMAIN cache \cup {call[r].id}
        BY <3>2 DEF Put
      <4>2. FetchAllowed(FetchURL(call[r].id))
        BY <3>2 DEF SecureInv
      <4> QED
        BY <4>1, <4>2 DEF SecureInv, FetchedSecurely
    <3> QED
      BY <3>1, <3>2, CacheStep
  <2>2. \A u \in DOMAIN descCache' : FetchAllowed(u)
    <3>1. CASE descCache' = descCache
      BY <3>1 DEF SecureInv, FetchedSecurely
    <3>2. ASSUME NEW r \in Request, pc[r] = "storeRef",
                 descCache' = Put(descCache, call[r].url, call[r].desc)
          PROVE  \A u \in DOMAIN descCache' : FetchAllowed(u)
      <4>1. DOMAIN descCache' = DOMAIN descCache \cup {call[r].url}
        BY <3>2 DEF Put
      <4>2. FetchAllowed(call[r].url)
        BY <3>2 DEF SecureInv
      <4> QED
        BY <4>1, <4>2 DEF SecureInv, FetchedSecurely
    <3> QED
      BY <3>1, <3>2, CacheStep
  <2>3. ASSUME NEW r \in Request
        PROVE /\ pc'[r] \in {"fetch", "store"} => FetchAllowed(FetchURL(call'[r].id))
              /\ pc'[r] \in {"fetchRef", "storeRef"} => FetchAllowed(call'[r].url)
    <3>1. CASE Resolve(r) \/ Step(r)
      BY <3>1, FillStep DEF Filling, FillingRef, SecureInv
    <3>2. CASE ~(Resolve(r) \/ Step(r))
      BY <3>2, OtherFill DEF Filling, FillingRef, SecureInv
    <3> QED
      BY <3>1, <3>2
  <2> QED
    BY <2>1, <2>2, <2>3 DEF SecureInv, FetchedSecurely, FetchAllowed, FetchURL
<1> QED
  BY <1>1, <1>2, Invariance, PTL DEF Spec

(* No cache ever holds what the HTTPS rule would have refused to fetch.    *)
THEOREM CachesFetchedSecurely == Spec => []FetchedSecurely
<1>1. SecureInv => FetchedSecurely
  BY DEF SecureInv
<1> QED
  BY SecureInvariance, <1>1, PTL

-----------------------------------------------------------------------------
(* A cache entry that nobody is filling never changes again, for any       *)
(* number of requests and whatever the servers answer.                     *)
THEOREM SettledEntriesStay == Spec => SettledForGood
<1> DEFINE Stays ==
       /\ \A k \in DOMAIN cache :
            SettledTemplate(k) => SettledTemplate(k)' /\ cache'[k] = cache[k]
       /\ \A u \in DOMAIN descCache :
            SettledReference(u) =>
                SettledReference(u)' /\ descCache'[u] = descCache[u]
<1>1. IInv /\ [Next]_vars => [Stays]_vars
  <2> SUFFICES ASSUME IInv, [Next]_vars PROVE Stays
    OBVIOUS
  <2>1. ASSUME NEW r \in Request, NEW k
        PROVE  /\ Filling(r, k)' => Filling(r, k) \/ k \notin DOMAIN cache
               /\ FillingRef(r, k)' => FillingRef(r, k) \/ k \notin DOMAIN descCache
    <3>1. CASE Resolve(r) \/ Step(r)
      BY <3>1, FillStep
    <3>2. CASE ~(Resolve(r) \/ Step(r))
      BY <3>2, OtherFill
    <3> QED
      BY <3>1, <3>2
  <2>2. ASSUME NEW k \in DOMAIN cache, SettledTemplate(k)
        PROVE  SettledTemplate(k)' /\ cache'[k] = cache[k]
    <3>1. k \in DOMAIN cache' /\ cache'[k] = cache[k]
      BY <2>2, CacheStep DEF Put, SettledTemplate
    <3>2. ASSUME NEW r \in Request, pc'[r] \in {"fetch", "store"} PROVE call'[r].id # k
      BY <2>1, <2>2, <3>2 DEF Filling, SettledTemplate
    <3> QED
      BY <3>1, <3>2 DEF SettledTemplate
  <2>3. ASSUME NEW u \in DOMAIN descCache, SettledReference(u)
        PROVE  SettledReference(u)' /\ descCache'[u] = descCache[u]
    <3>1. u \in DOMAIN descCache' /\ descCache'[u] = descCache[u]
      BY <2>3, CacheStep DEF Put, SettledReference
    <3>2. ASSUME NEW r \in Request, pc'[r] \in {"fetchRef", "storeRef"}
          PROVE  call'[r].url # u
      BY <2>1, <2>3, <3>2 DEF FillingRef, SettledReference
    <3> QED
      BY <3>1, <3>2 DEF SettledReference
  <2> QED
    BY <2>2, <2>3
<1> QED
  BY <1>1, Invariance, PTL DEF Spec, SettledForGood

-----------------------------------------------------------------------------
(* Nothing invalid is composed.  Validation happens at two places, for the *)
(* root and for a fetched reference, and covers the inline descriptors     *)
(* below either one; the invariant follows a valid descriptor from there   *)
(* to the node, by the slots and by the cache.                             *)

CallValid(r) ==
    /\ pc[r] = "idle" => call[r].desc = Root[r]
    /\ pc[r] \in {"resolve", "load", "fetch", "store", "verify", "storeRef"}
         => call[r].desc \notin Malformed

ValidInv ==
    /\ \A u \in DOMAIN descCache : descCache[u] \notin Malformed
    /\ \A r \in Request : CallValid(r)
    /\ NothingMalformed

(* The activation of a request stays valid under any step.                 *)
LEMMA ValidStep ==
    ASSUME IInv, ValidInv, NEW r \in Request, [Next]_vars
    PROVE  CallValid(r)'
<1>0. /\ call[r] \in Activation /\ call \in [Request -> Activation]
      /\ pc \in [Request -> Label] /\ CallValid(r)
  BY DEF IInv, TypeOK, ValidInv
<1>1. ASSUME call'[r] = call[r],
             pc'[r] = pc[r] \/ pc'[r] \in {"slots", "done", "fetchRef"}
               \/ (pc[r] \in {"load", "fetch", "store"}
                    /\ pc'[r] \in {"fetch", "store", "verify"})
      PROVE CallValid(r)'
  BY <1>0, <1>1 DEF CallValid
<1>2. ASSUME NEW why, Fail(r, why) PROVE CallValid(r)'
  BY <1>0, <1>1, <1>2 DEF Fail, Goto
<1>3. ASSUME NEW q \in Request, q # r, Resolve(q) \/ Step(q) PROVE CallValid(r)'
  <2>1. pc'[r] = pc[r] /\ call'[r] = call[r]
    BY <1>0, <1>3 DEF Resolve, Step, Fail, Goto, Follow, CheckTemplate, LoadTemplate,
       FetchTemplate, StoreTemplate, CreateNode, EnterSlot, Return, CheckRef,
       LoadRef, FetchRef, StoreRef
  <2> QED
    BY <1>1, <2>1
<1>4. CASE Resolve(r)
  <2>1. CASE Root[r] \in Malformed
    BY <1>2, <1>4, <2>1 DEF Resolve
  <2>2. CASE Root[r] \notin Malformed
    <3>1. pc[r] = "idle" /\ pc'[r] = "resolve" /\ call'[r] = call[r]
      BY <1>0, <1>4, <2>2 DEF Resolve, Goto
    <3> QED
      BY <1>0, <2>2, <3>1 DEF CallValid
  <2> QED
    BY <2>1, <2>2
<1>5. CASE StoreTemplate(r) \/ CreateNode(r) \/ Return(r)
  BY <1>0, <1>1, <1>2, <1>5 DEF StoreTemplate, CreateNode, Return, Goto
<1>6. CASE CheckTemplate(r) \/ LoadTemplate(r) \/ FetchTemplate(r)
  <2>1. CASE \E why : Fail(r, why)
    BY <1>2, <2>1
  <2>2. CASE ~ \E why : Fail(r, why)
    <3>1. /\ pc[r] \in {"resolve", "load", "fetch"}
          /\ pc'[r] \in {"load", "fetch", "store", "verify"}
      BY <1>0, <1>6, <2>2 DEF CheckTemplate, LoadTemplate, FetchTemplate, Goto
    <3>2. call'[r].desc = call[r].desc
      BY <1>0, <1>6, <2>2, ZenonT(60)
      DEF CheckTemplate, LoadTemplate, FetchTemplate, Activation
    <3> QED
      BY <1>0, <3>1, <3>2 DEF CallValid
  <2> QED
    BY <2>1, <2>2
<1>7. CASE EnterSlot(r)
  <2>0. pc[r] = "slots" /\ TreeOK(r)
    BY <1>7 DEF EnterSlot, IInv, WalkOK
  <2>1. /\ node[r] \in Nodes(r)
        /\ tree[r][node[r]].desc \in Desc
        /\ tree[r][node[r]].todo \subseteq Places(tree[r][node[r]].desc)
    <3>1. node[r] \in Nodes(r) /\ tree[r] \in Seq(Node)
      BY <2>0 DEF IInv, TypeOK, TreeOK, Nodes
    <3>2. tree[r][node[r]] \in Node
      BY <3>1 DEF Nodes
    <3> QED
      BY <2>0, <3>1, <3>2 DEF TreeOK, Nodes, Node
  <2>2. Consistent(tree[r][node[r]].desc)
    BY <2>1, DescriptorAssumption DEF ValidInv, NothingMalformed
  <2> DEFINE p == tree[r][node[r]]
             child(c) == ChildAt(p.desc, c)
  <2>3. PICK c \in p.todo :
          /\ call' = [call EXCEPT ![r] =
               NewActivation(node[r], c, child(c).ref, child(c).desc,
                             p.base, p.depth + 1, p.seen)]
          /\ pc' = [pc EXCEPT ![r] = IF child(c).ref = None THEN "resolve" ELSE "ref"]
    BY <1>7 DEF EnterSlot, Goto
  <2>4. call'[r].desc = child(c).desc /\ pc'[r] \in {"resolve", "ref"}
    BY <1>0, <2>3 DEF NewActivation
  <2>5. call'[r].desc \notin Malformed
    BY <2>1, <2>2, <2>4 DEF Consistent
  <2> QED
    BY <2>4, <2>5 DEF CallValid
<1>8. CASE CheckRef(r)
  <2>1. CASE \E why : Fail(r, why)
    BY <1>2, <2>1
  <2>2. CASE ~ \E why : Fail(r, why)
    <3>1. pc'[r] = "loadRef"
      BY <1>0, <1>8, <2>2 DEF CheckRef, Goto
    <3> QED
      BY <3>1 DEF CallValid
  <2> QED
    BY <2>1, <2>2
<1>9. ASSUME NEW d, d \notin Malformed, Follow(r, d) PROVE CallValid(r)'
  <2>1. pc'[r] = "resolve" /\ call'[r].desc = d
    BY <1>0, <1>9 DEF Follow, Goto, Activation
  <2> QED
    BY <1>9, <2>1 DEF CallValid
<1>10. CASE LoadRef(r)
  BY <1>0, <1>1, <1>2, <1>9, <1>10 DEF LoadRef, Goto, ValidInv
<1>11. CASE FetchRef(r)
  <2>1. CASE Fail(r, "descriptor-ref")
    BY <1>2, <2>1
  <2>2. CASE ~Fail(r, "descriptor-ref")
    <3>1. PICK d \in Answers(call[r].url) :
            pc'[r] = "storeRef" /\ call'[r].desc = d
      BY <1>0, <1>11, <2>2 DEF FetchRef, Goto, Activation
    <3>2. d \notin Malformed
      BY DEF Answers
    <3> QED
      BY <3>1, <3>2 DEF CallValid
  <2> QED
    BY <2>1, <2>2
<1>12. CASE StoreRef(r)
  <2>1. call[r].desc \notin Malformed
    BY <1>0, <1>12 DEF StoreRef, CallValid
  <2> QED
    BY <1>9, <1>12, <2>1 DEF StoreRef
<1>13. CASE UNCHANGED vars
  BY <1>0, <1>1, <1>13 DEF vars
<1> QED
  BY <1>3, <1>4, <1>5, <1>6, <1>7, <1>8, <1>10, <1>11, <1>12, <1>13
  DEF Next, Step, AllDone

(* The cache of references only ever holds valid descriptors.              *)
LEMMA CacheStaysValid ==
    ASSUME IInv, ValidInv, [Next]_vars
    PROVE  \A u \in DOMAIN descCache' : descCache'[u] \notin Malformed
<1>1. CASE descCache' = descCache
  BY <1>1 DEF ValidInv
<1>2. ASSUME NEW r \in Request, StoreRef(r)
      PROVE  \A u \in DOMAIN descCache' : descCache'[u] \notin Malformed
  <2>1. call[r].desc \notin Malformed
    BY <1>2 DEF StoreRef, ValidInv, CallValid
  <2>2. descCache' = Put(descCache, call[r].url, call[r].desc)
    BY <1>2 DEF StoreRef
  <2> QED
    BY <2>1, <2>2 DEF Put, ValidInv
<1>3. ASSUME [Next]_vars, ~ \E r \in Request : StoreRef(r)
      PROVE  descCache' = descCache
  BY <1>3 DEF Next, AllDone, vars, Step, Resolve, CheckTemplate, LoadTemplate,
     FetchTemplate, StoreTemplate, CreateNode, EnterSlot, Return, CheckRef,
     LoadRef, FetchRef
<1> QED
  BY <1>1, <1>2, <1>3

LEMMA ValidInvariance == Spec => []ValidInv
<1>1. Init => ValidInv
  BY DEF Init, ValidInv, CallValid, NothingMalformed, Nodes, Empty,
     RootActivation, NewActivation
<1>2. IInv /\ ValidInv /\ [Next]_vars => ValidInv'
  <2> SUFFICES ASSUME IInv, ValidInv, [Next]_vars PROVE ValidInv'
    OBVIOUS
  <2>1. ASSUME NEW r \in Request, NEW i \in Nodes(r)'
        PROVE  tree'[r][i].desc \notin Malformed
    <3>1. tree[r] \in Seq(Node) /\ Len(tree[r]) \in Nat
      BY DEF IInv, TypeOK
    <3>2. CASE NodeAdded(r) /\ i = Len(tree[r]) + 1
      BY <3>2 DEF NodeAdded, MadeOf, ValidInv, CallValid
    <3>3. CASE NodeAdded(r) /\ i # Len(tree[r]) + 1
      BY <3>1, <3>3 DEF NodeAdded, Nodes, ValidInv, NothingMalformed
    <3>4. CASE ~NodeAdded(r)
      <4>1. i \in Nodes(r) /\ SameButTodo(tree'[r][i], tree[r][i])
        BY <3>1, <3>4, TreeStep DEF Nodes
      <4> QED
        BY <4>1 DEF SameButTodo, ValidInv, NothingMalformed
    <3> QED
      BY <3>2, <3>3, <3>4
  <2>2. NothingMalformed'
    BY <2>1 DEF NothingMalformed
  <2> QED
    BY <2>2, ValidStep, CacheStaysValid DEF ValidInv
<1> QED
  BY <1>1, <1>2, Invariance, PTL DEF Spec

(* No tree ever holds an invalid descriptor: neither an inline child nor a *)
(* cached reference comes in unvalidated.                                  *)
THEOREM NothingMalformedHolds == Spec => []NothingMalformed
<1>1. ValidInv => NothingMalformed
  BY DEF ValidInv
<1> QED
  BY ValidInvariance, <1>1, PTL
=============================================================================
