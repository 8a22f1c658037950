------------------------------ MODULE ResolverWalk ------------------------------
(***************************************************************************)
(* The shape of the depth-first walk, proved: every child of every node is *)
(* to do, in hand, placed or given up, and never two of these; only nodes  *)
(* on the stack of the walk have children to do; and the activation in     *)
(* hand stands in the context its parent gives it.  From this, that Resolve*)
(* loses no child; and, from the contexts, what chain and depth say of the *)
(* path a node stands on, and that no cycle is reported without one.       *)
(*                                                                         *)
(* Then what Resolve hands to its caller.  Its pages are those of          *)
(* Composition.  It gives no other answers than RootOutcomes announces:    *)
(* the answer is decided by the checks on the root descriptor alone; the   *)
(* invariant says how far the root activation has passed them, and that a  *)
(* tree with a node in it is one Resolve may return.  The bodies in its    *)
(* tree have been fetched for the identities they stand for, and by the    *)
(* request itself at most once.                                            *)
(***************************************************************************)
EXTENDS ResolverProofs, FiniteSetTheorems

Active(r) == pc[r] \notin {"slots", "done"}

(* A step as request r sees it.                                            *)
Unmoved(r) ==
    /\ pc'[r] = pc[r] /\ call'[r] = call[r] /\ node'[r] = node[r]
    /\ tree'[r] = tree[r] /\ skipped'[r] = skipped[r] /\ result'[r] = result[r]

Failed(r) ==
    /\ Active(r)
    /\ call'[r] = call[r] /\ node'[r] = node[r] /\ tree'[r] = tree[r]
    /\ IF call[r].parent = 0
       THEN /\ pc'[r] = "done" /\ result'[r] \in Reason /\ skipped'[r] = skipped[r]
       ELSE /\ pc'[r] = "slots" /\ result'[r] = result[r]
            /\ \E s : /\ skipped'[r] = skipped[r] \cup {s}
                      /\ s.parent = call[r].parent /\ s.place = call[r].place
                      /\ s.id = call[r].id /\ s.body = call[r].body
                      /\ s.kind = call[r].kind

Moved(r) ==
    /\ Active(r) /\ Active(r)' /\ pc'[r] # "idle"
    /\ call'[r].parent = call[r].parent /\ call'[r].place = call[r].place
    /\ node'[r] = node[r] /\ tree'[r] = tree[r]
    /\ skipped'[r] = skipped[r] /\ result'[r] = result[r]

Created(r) ==
    /\ pc[r] = "verify" /\ pc'[r] = "slots"
    /\ Verified(call[r])
    /\ Descriptor[call[r].desc].mapper = None
         \/ Descriptor[call[r].desc].mapper \in Mappers
    /\ \E n \in Node : /\ MadeOf(n, call[r]) /\ n.todo = Places(call[r].desc)
                       /\ tree'[r] = Append(tree[r], n)
    /\ node'[r] = Len(tree[r]) + 1
    /\ call'[r] = call[r] /\ skipped'[r] = skipped[r] /\ result'[r] = result[r]

Entered(r) ==
    LET p == tree[r][node[r]]
    IN  /\ pc[r] = "slots"
        /\ \E c \in p.todo :
             /\ First(p.todo, c)
             /\ call'[r] = NewActivation(node[r], c, ChildAt(p.desc, c).ref,
                             ChildAt(p.desc, c).desc, p.base, p.depth + 1, p.seen)
             /\ pc'[r] = IF ChildAt(p.desc, c).ref = None THEN "resolve" ELSE "ref"
             /\ tree'[r] = [tree[r] EXCEPT ![node[r]] =
                              [p EXCEPT !.todo = p.todo \ {c}]]
        /\ node'[r] = node[r] /\ skipped'[r] = skipped[r] /\ result'[r] = result[r]

Returned(r) ==
    /\ pc[r] = "slots"
    /\ tree[r][node[r]].todo = {}
    /\ IF tree[r][node[r]].parent = 0
       THEN pc'[r] = "done" /\ result'[r] = "ok" /\ node'[r] = node[r]
       ELSE /\ node'[r] = tree[r][node[r]].parent
            /\ pc'[r] = pc[r] /\ result'[r] = result[r]
    /\ call'[r] = call[r] /\ tree'[r] = tree[r] /\ skipped'[r] = skipped[r]

LEMMA FailedKind ==
    ASSUME IInv, NEW r \in Request, NEW why \in Reason, Fail(r, why), Active(r)
    PROVE  Failed(r)
<1>0. /\ pc \in [Request -> Label] /\ result \in [Request -> {"none", "ok"} \cup Reason]
      /\ skipped \in [Request -> SUBSET Skip]
  BY DEF IInv, TypeOK
<1>1. CASE call[r].parent = 0
  BY <1>0, <1>1 DEF Fail, Goto, Failed
<1>2. CASE call[r].parent # 0
  <2> DEFINE s == [parent |-> call[r].parent, place |-> call[r].place,
                   why |-> why, id |-> call[r].id, body |-> call[r].body,
                   kind |-> call[r].kind]
  <2>1. /\ skipped'[r] = skipped[r] \cup {s}
        /\ s.parent = call[r].parent /\ s.place = call[r].place
        /\ s.id = call[r].id /\ s.body = call[r].body /\ s.kind = call[r].kind
    BY <1>0, <1>2 DEF Fail
  <2>2. /\ pc'[r] = "slots" /\ result'[r] = result[r]
        /\ call'[r] = call[r] /\ node'[r] = node[r] /\ tree'[r] = tree[r]
    BY <1>0, <1>2 DEF Fail, Goto
  <2> HIDE DEF s
  <2> QED
    BY <1>2, <2>1, <2>2 DEF Failed
<1> QED
  BY <1>1, <1>2

LEMMA FollowKind ==
    ASSUME IInv, NEW r \in Request, NEW d, Follow(r, d), Active(r)
    PROVE  Moved(r)
<1>1. call[r] \in Activation /\ call \in [Request -> Activation]
      /\ pc \in [Request -> Label]
  BY DEF IInv, TypeOK
<1> QED
  BY <1>1 DEF Follow, Goto, Moved, Active, Activation

LEMMA OthersUnmoved ==
    ASSUME IInv, NEW r \in Request, Resolve(r) \/ Step(r),
           NEW q \in Request, q # r
    PROVE  Unmoved(q)
<1>0. /\ pc \in [Request -> Label] /\ call \in [Request -> Activation]
      /\ node \in [Request -> Nat] /\ tree \in [Request -> Seq(Node)]
      /\ skipped \in [Request -> SUBSET Skip]
      /\ result \in [Request -> {"none", "ok"} \cup Reason]
  BY DEF IInv, TypeOK
<1>1. ASSUME NEW why, Fail(r, why) PROVE Unmoved(q)
  BY <1>0, <1>1 DEF Fail, Goto, Unmoved
<1>2. ASSUME NEW d, Follow(r, d) PROVE Unmoved(q)
  BY <1>0, <1>2 DEF Follow, Goto, Unmoved
<1>3. CASE EnterSlot(r)
  BY <1>0, <1>3 DEF EnterSlot, Goto, Unmoved
<1>4. CASE ~EnterSlot(r) /\ ~ \E x : Fail(r, x) \/ Follow(r, x)
  BY <1>0, <1>4 DEF Resolve, Step, Goto, Unmoved, CheckTemplate, LoadTemplate,
     FetchTemplate, StoreTemplate, CreateNode, Return, CheckRef, LoadRef, FetchRef,
     StoreRef
<1> QED
  BY <1>1, <1>2, <1>3, <1>4

(* Which kind of step each action is.                                      *)
LEMMA StepKinds ==
    ASSUME IInv, NEW r \in Request, [Next]_vars
    PROVE  \/ Unmoved(r) \/ Failed(r) \/ Moved(r)
           \/ Created(r) \/ Entered(r) \/ Returned(r)
<1> DEFINE Goal == \/ Unmoved(r) \/ Failed(r) \/ Moved(r)
                   \/ Created(r) \/ Entered(r) \/ Returned(r)
<1>0. /\ pc \in [Request -> Label] /\ call \in [Request -> Activation]
      /\ call[r] \in Activation
      /\ node \in [Request -> Nat] /\ tree \in [Request -> Seq(Node)]
      /\ result \in [Request -> {"none", "ok"} \cup Reason]
      /\ skipped \in [Request -> SUBSET Skip]
  BY DEF IInv, TypeOK
<1>1. CASE UNCHANGED vars
  BY <1>1 DEF vars, Unmoved
<1>2. ASSUME NEW q \in Request, q # r, Resolve(q) \/ Step(q) PROVE Goal
  BY <1>2, OthersUnmoved
<1>3. CASE Resolve(r) \/ CheckTemplate(r) \/ LoadTemplate(r) \/ FetchTemplate(r)
           \/ StoreTemplate(r) \/ CheckRef(r) \/ LoadRef(r) \/ FetchRef(r) \/ StoreRef(r)
  <2>0. Active(r)
    BY <1>3 DEF Active, Resolve, CheckTemplate, LoadTemplate, FetchTemplate,
       StoreTemplate, CheckRef, LoadRef, FetchRef, StoreRef
  <2>1. CASE \E why \in Reason : Fail(r, why)
    BY <2>0, <2>1, FailedKind
  <2>2. CASE \E d : Follow(r, d)
    BY <2>0, <2>2, FollowKind
  <2>3. CASE (~ \E why \in Reason : Fail(r, why)) /\ (~ \E d : Follow(r, d))
    <3>1. /\ pc'[r] \in Label \ {"idle", "slots", "done"}
          /\ node' = node /\ tree' = tree /\ skipped' = skipped /\ result' = result
      BY <1>0, <1>3, <2>3 DEF Goto, Resolve, CheckTemplate, LoadTemplate,
         FetchTemplate, StoreTemplate, CheckRef, LoadRef, FetchRef, StoreRef,
         Reason, Label
    <3>2. call'[r].parent = call[r].parent /\ call'[r].place = call[r].place
      <4>1. \/ call' = call
            \/ \E x : \/ call' = [call EXCEPT ![r] = [call[r] EXCEPT !.id = x]]
                    \/ call' = [call EXCEPT ![r] = [call[r] EXCEPT !.url = x]]
                    \/ call' = [call EXCEPT ![r] = [call[r] EXCEPT !.desc = x]]
            \/ \E x, k : call' = [call EXCEPT ![r] =
                                    [call[r] EXCEPT !.body = x, !.kind = k]]
        BY <1>3, <2>3 DEF Resolve, CheckTemplate, LoadTemplate,
           FetchTemplate, StoreTemplate, CheckRef, LoadRef, FetchRef, StoreRef, Reason
      <4>2. CASE call' = call
        BY <4>2
      <4>3. ASSUME NEW x, call' = [call EXCEPT ![r] = [call[r] EXCEPT !.id = x]]
            PROVE  call'[r].parent = call[r].parent /\ call'[r].place = call[r].place
        BY <1>0, <4>3 DEF Activation
      <4>4. ASSUME NEW x, call' = [call EXCEPT ![r] = [call[r] EXCEPT !.url = x]]
            PROVE  call'[r].parent = call[r].parent /\ call'[r].place = call[r].place
        BY <1>0, <4>4 DEF Activation
      <4>5. ASSUME NEW x, call' = [call EXCEPT ![r] = [call[r] EXCEPT !.desc = x]]
            PROVE  call'[r].parent = call[r].parent /\ call'[r].place = call[r].place
        BY <1>0, <4>5 DEF Activation
      <4>6. ASSUME NEW x, NEW k,
                   call' = [call EXCEPT ![r] = [call[r] EXCEPT !.body = x, !.kind = k]]
            PROVE  call'[r].parent = call[r].parent /\ call'[r].place = call[r].place
        BY <1>0, <4>6 DEF Activation
      <4> QED
        BY <4>1, <4>2, <4>3, <4>4, <4>5, <4>6
    <3> QED
      BY <2>0, <3>1, <3>2 DEF Moved, Active
  <2> QED
    BY <2>1, <2>2, <2>3
<1>4. CASE CreateNode(r)
  <2>0. pc[r] = "verify" /\ Active(r)
    BY <1>4 DEF CreateNode, Active
  <2>1. CASE \E why \in Reason : Fail(r, why)
    BY <2>0, <2>1, FailedKind
  <2>2. CASE ~ \E why \in Reason : Fail(r, why)
    <3> DEFINE n == [parent |-> call[r].parent, place |-> call[r].place,
                     desc |-> call[r].desc, base |-> call[r].base,
                     depth |-> call[r].depth, seen |-> call[r].seen,
                     id |-> call[r].id, body |-> call[r].body,
                     kind |-> call[r].kind, todo |-> Places(call[r].desc)]
    <3>1. /\ Verified(call[r])
          /\ Descriptor[call[r].desc].mapper = None
               \/ Descriptor[call[r].desc].mapper \in Mappers
          /\ pc' = [pc EXCEPT ![r] = "slots"]
          /\ tree' = [tree EXCEPT ![r] = Append(tree[r], n)]
          /\ node' = [node EXCEPT ![r] = Len(tree[r]) + 1]
          /\ call' = call /\ skipped' = skipped /\ result' = result
      BY <1>4, <2>2 DEF CreateNode, Goto, Reason
    <3>2. MadeOf(n, call[r]) /\ n.todo = Places(call[r].desc)
      BY DEF MadeOf
    <3>3. n \in Node
      <4>1. /\ call[r].desc \in Desc /\ call[r].id \in Identity
            /\ call[r].body \in Body /\ call[r].kind \in {"fetch", "cached"}
        BY <2>0 DEF IInv, WalkOK, ActivationOK
      <4> QED
        BY <1>0, <4>1, PlacesType DEF Activation, Node
    <3> HIDE DEF n
    <3> QED
      BY <1>0, <2>0, <3>1, <3>2, <3>3 DEF Created
  <2> QED
    BY <2>1, <2>2
<1>5. CASE EnterSlot(r)
  <2>1. pc[r] = "slots" /\ node[r] \in 1 .. Len(tree[r]) /\ tree[r][node[r]] \in Node
    BY <1>0, <1>5 DEF EnterSlot, IInv, WalkOK, TreeOK
  <2> DEFINE p == tree[r][node[r]]
  <2>2. PICK c \in p.todo :
          /\ First(p.todo, c)
          /\ call' = [call EXCEPT ![r] =
               NewActivation(node[r], c, ChildAt(p.desc, c).ref,
                             ChildAt(p.desc, c).desc, p.base, p.depth + 1, p.seen)]
          /\ tree' = [tree EXCEPT ![r][node[r]].todo = @ \ {c}]
          /\ pc' = [pc EXCEPT ![r] =
               IF ChildAt(p.desc, c).ref = None THEN "resolve" ELSE "ref"]
          /\ node' = node /\ skipped' = skipped /\ result' = result
    BY <1>5 DEF EnterSlot, Goto
  <2>3. tree'[r] = [tree[r] EXCEPT ![node[r]] = [p EXCEPT !.todo = p.todo \ {c}]]
    BY <1>0, <2>1, <2>2 DEF Node
  <2>4. /\ call'[r] = NewActivation(node[r], c, ChildAt(p.desc, c).ref,
                        ChildAt(p.desc, c).desc, p.base, p.depth + 1, p.seen)
        /\ pc'[r] = IF ChildAt(p.desc, c).ref = None THEN "resolve" ELSE "ref"
    BY <1>0, <2>2
  <2> QED
    BY <2>1, <2>2, <2>3, <2>4 DEF Entered
<1>6. CASE Return(r)
  BY <1>0, <1>6 DEF Return, Returned, Goto
<1> QED
  BY <1>1, <1>2, <1>3, <1>4, <1>5, <1>6 DEF Next, Step, AllDone

-----------------------------------------------------------------------------
(* The children of the nodes.                                              *)

Fills(x, i, c) == x.parent = i /\ x.place = c
Placed(r, i, c) == \E j \in Nodes(r) : Fills(tree[r][j], i, c)
GivenUp(r, i, c) == \E s \in skipped[r] : Fills(s, i, c)
InHand(r, i, c) == Active(r) /\ Fills(call[r], i, c)

ChildOK(r, i, c) ==
    LET todo == tree[r][i].todo
    IN  /\ c \in todo => ~Placed(r, i, c) /\ ~GivenUp(r, i, c) /\ ~InHand(r, i, c)
        /\ c \notin todo => Placed(r, i, c) \/ GivenUp(r, i, c) \/ InHand(r, i, c)
        /\ InHand(r, i, c) => /\ ~Placed(r, i, c) /\ ~GivenUp(r, i, c)
                              /\ \A e \in todo : Precedes(c, e)
        /\ ~(Placed(r, i, c) /\ GivenUp(r, i, c))
        /\ \A j, k \in Nodes(r) :
             Fills(tree[r][j], i, c) /\ Fills(tree[r][k], i, c) => j = k
        /\ \A s, t \in skipped[r] : Fills(s, i, c) /\ Fills(t, i, c) => s = t

ChildrenOK(r) ==
    /\ \A s \in skipped[r] : s.parent \in Nodes(r)
    /\ Active(r) /\ call[r].parent # 0 =>
         call[r].place \in Places(tree[r][call[r].parent].desc)
    /\ \A i \in Nodes(r) : \A c \in Places(tree[r][i].desc) : ChildOK(r, i, c)

(* The activation in hand fills a slot of an existing node, or the root.   *)
LEMMA ParentInTree ==
    ASSUME IInv, NEW r \in Request, Active(r)
    PROVE  call[r].parent \in Nodes(r) \cup {0}
BY DEF IInv, TypeOK, WalkOK, ActivationOK, TreeOK, Active, Nodes

LEMMA ChildrenStep ==
    ASSUME IInv, NEW r \in Request, ChildrenOK(r), [Next]_vars
    PROVE  ChildrenOK(r)'
<1>0. /\ tree[r] \in Seq(Node) /\ Len(tree[r]) \in Nat /\ node[r] \in Nat
      /\ \A i \in Nodes(r) : tree[r][i] \in Node /\ tree[r][i].parent < i
  BY DEF IInv, TypeOK, WalkOK, TreeOK, Nodes
<1>1. ASSUME tree'[r] = tree[r], skipped'[r] = skipped[r],
             \A i \in Nodes(r) : \A c : InHand(r, i, c)' <=> InHand(r, i, c),
             Active(r)' => /\ Active(r) /\ call'[r].parent = call[r].parent
                           /\ call'[r].place = call[r].place
      PROVE  ChildrenOK(r)'
  <2>1. Nodes(r)' = Nodes(r)
    BY <1>1 DEF Nodes
  <2>2. ASSUME NEW i \in Nodes(r), NEW c \in Places(tree[r][i].desc)
        PROVE  ChildOK(r, i, c)'
    <3>1. /\ Placed(r, i, c)' <=> Placed(r, i, c)
          /\ GivenUp(r, i, c)' <=> GivenUp(r, i, c)
          /\ InHand(r, i, c)' <=> InHand(r, i, c)
      BY <1>1, <2>1 DEF Placed, GivenUp, Fills
    <3>2. ChildOK(r, i, c)
      BY DEF ChildrenOK
    <3> QED
      BY <1>1, <2>1, <3>1, <3>2 DEF ChildOK, Fills
  <2> QED
    BY <1>1, <2>1, <2>2 DEF ChildrenOK
<1>2. CASE Unmoved(r)
  BY <1>1, <1>2 DEF Unmoved, InHand, Active, Fills
<1>3. CASE Moved(r)
  BY <1>1, <1>3 DEF Moved, InHand, Active, Fills
<1>4. CASE Returned(r)
  <2>1. ~Active(r) /\ ~Active(r)'
    BY <1>4 DEF Returned, Active
  <2> QED
    BY <1>1, <1>4, <2>1 DEF Returned, InHand
<1>5. CASE Failed(r) /\ call[r].parent = 0
  <2>1. ~Active(r)'
    BY <1>5 DEF Failed, Active
  <2>2. \A i \in Nodes(r) : \A c : ~InHand(r, i, c)
    BY <1>5 DEF InHand, Fills, Nodes
  <2> QED
    BY <1>1, <1>5, <2>1, <2>2 DEF Failed, InHand
<1>6. CASE Failed(r) /\ call[r].parent # 0
  <2> DEFINE p == call[r].parent
             e == call[r].place
  <2>1. PICK s : skipped'[r] = skipped[r] \cup {s} /\ Fills(s, p, e)
    BY <1>6 DEF Failed, Fills
  <2>2. /\ Active(r) /\ ~Active(r)' /\ tree'[r] = tree[r] /\ Nodes(r)' = Nodes(r)
    BY <1>6 DEF Failed, Active, Nodes
  <2>3. p \in Nodes(r) /\ e \in Places(tree[r][p].desc) /\ InHand(r, p, e)
    BY <1>6, <2>2, ParentInTree DEF ChildrenOK, InHand, Fills
  <2>4. ~Placed(r, p, e) /\ ~GivenUp(r, p, e) /\ e \notin tree[r][p].todo
    BY <2>3 DEF ChildrenOK, ChildOK
  <2>5. ASSUME NEW i \in Nodes(r), NEW c \in Places(tree[r][i].desc)
        PROVE  ChildOK(r, i, c)'
    <3>1. /\ Placed(r, i, c)' <=> Placed(r, i, c)
          /\ GivenUp(r, i, c)' <=> GivenUp(r, i, c) \/ (i = p /\ c = e)
          /\ ~InHand(r, i, c)'
          /\ InHand(r, i, c) <=> i = p /\ c = e
      BY <2>1, <2>2 DEF Placed, GivenUp, InHand, Fills
    <3>2. ChildOK(r, i, c)
      BY DEF ChildrenOK
    <3>3. \A x, y \in skipped'[r] : Fills(x, i, c) /\ Fills(y, i, c) => x = y
      <4>1. CASE i = p /\ c = e
        BY <2>1, <2>4, <4>1 DEF GivenUp
      <4>2. CASE ~(i = p /\ c = e)
        BY <2>1, <3>2, <4>2 DEF ChildOK, Fills
      <4> QED
        BY <4>1, <4>2
    <3> QED
      BY <2>2, <2>4, <3>1, <3>2, <3>3 DEF ChildOK, Fills
  <2>6. \A x \in skipped'[r] : x.parent \in Nodes(r)
    BY <2>1, <2>3 DEF ChildrenOK, Fills
  <2> QED
    BY <2>2, <2>5, <2>6 DEF ChildrenOK
<1>7. CASE Created(r)
  <2> DEFINE p == call[r].parent
             e == call[r].place
  <2>0. PICK new \in Nat : new = Len(tree[r]) + 1
    BY <1>0
  <2>1. PICK n \in Node : /\ MadeOf(n, call[r]) /\ n.todo = Places(call[r].desc)
                          /\ tree'[r] = Append(tree[r], n)
    BY <1>7 DEF Created
  <2>2. /\ Nodes(r)' = Nodes(r) \cup {new} /\ new \notin Nodes(r)
        /\ \A i \in Nodes(r) : tree'[r][i] = tree[r][i]
        /\ tree'[r][new] = n
        /\ skipped'[r] = skipped[r] /\ Active(r) /\ ~Active(r)'
    BY <1>0, <1>7, <2>0, <2>1 DEF Created, Nodes, Active
  <2>3. p \in Nodes(r) \cup {0} /\ p # new
    BY <1>0, <2>0, <2>2, ParentInTree DEF Nodes
  <2>4. n.parent = p /\ n.place = e /\ n.desc = call[r].desc
    BY <2>1 DEF MadeOf
  <2>5. ASSUME NEW i \in Nodes(r), NEW c \in Places(tree[r][i].desc)
        PROVE  ChildOK(r, i, c)'
    <3>1. /\ Placed(r, i, c)' <=> Placed(r, i, c) \/ (i = p /\ c = e)
          /\ GivenUp(r, i, c)' <=> GivenUp(r, i, c)
          /\ ~InHand(r, i, c)'
          /\ InHand(r, i, c) <=> i = p /\ c = e
      BY <2>2, <2>4 DEF Placed, GivenUp, InHand, Fills
    <3>2. ChildOK(r, i, c) /\ tree'[r][i] = tree[r][i]
      BY <2>2 DEF ChildrenOK
    <3>3. \A j, k \in Nodes(r)' :
            Fills(tree'[r][j], i, c) /\ Fills(tree'[r][k], i, c) => j = k
      <4>1. CASE i = p /\ c = e
        <5>1. ~Placed(r, i, c)
          BY <3>1, <3>2, <4>1 DEF ChildOK
        <5> QED
          BY <2>2, <5>1 DEF Placed
      <4>2. CASE ~(i = p /\ c = e)
        BY <2>2, <2>4, <3>2, <4>2 DEF ChildOK, Fills
      <4> QED
        BY <4>1, <4>2
    <3> QED
      BY <2>2, <3>1, <3>2, <3>3 DEF ChildOK, Fills
  <2>6. ASSUME NEW c \in Places(n.desc) PROVE ChildOK(r, new, c)'
    <3>1. \A j \in Nodes(r)' : ~Fills(tree'[r][j], new, c)
      BY <1>0, <2>0, <2>2, <2>3, <2>4 DEF Fills, Nodes
    <3>2. \A s \in skipped'[r] : ~Fills(s, new, c)
      BY <2>2 DEF ChildrenOK, Fills
    <3>3. ~Placed(r, new, c)' /\ ~GivenUp(r, new, c)' /\ ~InHand(r, new, c)'
      BY <2>2, <3>1, <3>2 DEF Placed, GivenUp, InHand
    <3>4. c \in tree'[r][new].todo
      BY <2>1, <2>2, <2>4
    <3> QED
      BY <3>1, <3>2, <3>3, <3>4 DEF ChildOK
  <2> QED
    BY <2>2, <2>5, <2>6 DEF ChildrenOK
<1>8. CASE Entered(r)
  <2> DEFINE p == tree[r][node[r]]
  <2>1. pc[r] = "slots" /\ node[r] \in Nodes(r) /\ node[r] # 0
    BY <1>8 DEF Entered, IInv, TypeOK, WalkOK, TreeOK, Nodes
  <2>2. PICK c \in p.todo :
          /\ First(p.todo, c)
          /\ call'[r] = NewActivation(node[r], c, ChildAt(p.desc, c).ref,
                ChildAt(p.desc, c).desc, p.base, p.depth + 1, p.seen)
          /\ pc'[r] \in {"resolve", "ref"}
          /\ tree'[r] = [tree[r] EXCEPT ![node[r]] =
                            [p EXCEPT !.todo = p.todo \ {c}]]
          /\ skipped'[r] = skipped[r]
    BY <1>8 DEF Entered
  <2> DEFINE m == [p EXCEPT !.todo = p.todo \ {c}]
  <2>3. /\ m.parent = p.parent /\ m.place = p.place /\ m.desc = p.desc
        /\ m.todo = p.todo \ {c}
    BY <1>0, <2>1 DEF Node
  <2>4. tree'[r] = [tree[r] EXCEPT ![node[r]] = m]
    BY <2>2
  <2>5. call'[r].parent = node[r] /\ call'[r].place = c
    BY <2>2 DEF NewActivation
  <2> HIDE DEF m
  <2>6. /\ Nodes(r)' = Nodes(r)
        /\ \A i \in Nodes(r) :
             /\ tree'[r][i].parent = tree[r][i].parent
             /\ tree'[r][i].place = tree[r][i].place
             /\ tree'[r][i].desc = tree[r][i].desc
             /\ tree'[r][i].todo =
                  IF i = node[r] THEN p.todo \ {c} ELSE tree[r][i].todo
    <3>1. /\ Len(tree'[r]) = Len(tree[r])
          /\ \A i \in 1 .. Len(tree[r]) :
               tree'[r][i] = IF i = node[r] THEN m ELSE tree[r][i]
      BY <1>0, <2>1, <2>4 DEF Nodes
    <3> QED
      BY <2>3, <3>1 DEF Nodes
  <2>7. c \in Places(p.desc)
    BY <2>1, <2>2 DEF IInv, WalkOK, TreeOK, Nodes
  <2>8. ~Active(r) /\ Active(r)'
    BY <2>1, <2>2 DEF Active
  <2>9. ASSUME NEW i \in Nodes(r), NEW e \in Places(tree[r][i].desc)
        PROVE  ChildOK(r, i, e)'
    <3>1. /\ Placed(r, i, e)' <=> Placed(r, i, e)
          /\ GivenUp(r, i, e)' <=> GivenUp(r, i, e)
          /\ InHand(r, i, e)' <=> i = node[r] /\ e = c
          /\ ~InHand(r, i, e)
      BY <2>2, <2>5, <2>6, <2>8 DEF Placed, GivenUp, InHand, Fills
    <3>2. ChildOK(r, i, e)
      BY DEF ChildrenOK
    <3>3. \A j, k \in Nodes(r)' :
            Fills(tree'[r][j], i, e) /\ Fills(tree'[r][k], i, e) => j = k
      BY <2>6, <3>2 DEF ChildOK, Fills
    <3>4. \A s, t \in skipped'[r] : Fills(s, i, e) /\ Fills(t, i, e) => s = t
      BY <2>2, <3>2 DEF ChildOK, Fills
    <3>5. CASE i = node[r] /\ e = c
      BY <2>2, <2>6, <3>1, <3>2, <3>3, <3>4, <3>5 DEF ChildOK, First
    <3>6. CASE ~(i = node[r] /\ e = c)
      BY <2>6, <3>1, <3>2, <3>3, <3>4, <3>6 DEF ChildOK
    <3> QED
      BY <3>5, <3>6
  <2>10. call'[r].place \in Places(tree'[r][call'[r].parent].desc)
    BY <2>1, <2>5, <2>6, <2>7
  <2>11. \A s \in skipped'[r] : s.parent \in Nodes(r)'
    BY <2>2, <2>6 DEF ChildrenOK
  <2> QED
    BY <2>6, <2>9, <2>10, <2>11 DEF ChildrenOK
<1> QED
  BY <1>2, <1>3, <1>4, <1>5, <1>6, <1>7, <1>8, StepKinds

-----------------------------------------------------------------------------
(* The stack of the walk: a set of nodes, one below the other, with the    *)
(* node being walked on top; the nodes outside of it are done.             *)

IsStack(r, S) ==
    /\ S \subseteq Nodes(r)
    /\ node[r] # 0 => node[r] \in S
    /\ \A i \in S : /\ i <= node[r]
                    /\ tree[r][i].parent \in S \cup {0}
                    /\ \A j \in S : i < j => i <= tree[r][j].parent
    /\ \A i \in Nodes(r) \ S : tree[r][i].todo = {}

StackOK(r) ==
    /\ pc[r] # "done" => \E S : IsStack(r, S)
    /\ result[r] = "ok" =>
         /\ pc[r] = "done"
         /\ \A i \in Nodes(r) : tree[r][i].todo = {}

(* When the walk returns from a node without a parent, all nodes are done. *)
LEMMA RootReturnsLast ==
    ASSUME IInv, NEW r \in Request, StackOK(r), pc[r] = "slots",
           tree[r][node[r]].todo = {}, tree[r][node[r]].parent = 0
    PROVE  \A i \in Nodes(r) : tree[r][i].todo = {}
<1>1. node[r] # 0 /\ node[r] \in Nat
  BY DEF IInv, TypeOK, WalkOK, TreeOK
<1>2. PICK S : IsStack(r, S)
  BY DEF StackOK
<1>3. ASSUME NEW i \in S PROVE i = node[r]
  BY <1>1, <1>2 DEF IsStack, Nodes
<1> QED
  BY <1>2, <1>3 DEF IsStack

LEMMA StackStep ==
    ASSUME IInv, NEW r \in Request, StackOK(r), [Next]_vars
    PROVE  StackOK(r)'
<1>0. /\ tree[r] \in Seq(Node) /\ Len(tree[r]) \in Nat /\ node[r] \in Nat
      /\ \A i \in Nodes(r) : tree[r][i] \in Node /\ tree[r][i].parent < i
  BY DEF IInv, TypeOK, WalkOK, TreeOK, Nodes
<1>1. ASSUME tree'[r] = tree[r], node'[r] = node[r],
             pc'[r] = pc[r] \/ (pc[r] # "done" /\ result'[r] # "ok"),
             result'[r] = result[r] \/ result'[r] # "ok"
      PROVE  StackOK(r)'
  <2>1. Nodes(r)' = Nodes(r) /\ \A S : IsStack(r, S)' <=> IsStack(r, S)
    BY <1>1 DEF Nodes, IsStack
  <2> QED
    BY <1>1, <2>1 DEF StackOK
<1>2. CASE Unmoved(r)
  BY <1>1, <1>2 DEF Unmoved
<1>3. ASSUME pc[r] # "done" PROVE result[r] # "ok"
  BY <1>3 DEF StackOK
<1>4. CASE Failed(r) /\ pc[r] # "done"
  <2>1. result'[r] # "ok"
    BY <1>3, <1>4 DEF Failed, Reason
  <2> QED
    BY <1>1, <1>4, <2>1 DEF Failed
<1>5. CASE Moved(r)
  BY <1>1, <1>3, <1>5 DEF Moved, Active
<1>6. CASE Created(r)
  <2>0. PICK new \in Nat : new = Len(tree[r]) + 1
    BY <1>0
  <2>1. PICK n \in Node : MadeOf(n, call[r]) /\ tree'[r] = Append(tree[r], n)
    BY <1>6 DEF Created
  <2>2. /\ Nodes(r)' = Nodes(r) \cup {new} /\ new \notin Nodes(r)
        /\ \A i \in Nodes(r) : tree'[r][i] = tree[r][i] /\ i < new
        /\ tree'[r][new] = n /\ node'[r] = new
    BY <1>0, <1>6, <2>0, <2>1 DEF Created, Nodes
  <2>3. n.parent = node[r]
    BY <1>6, <2>1 DEF Created, MadeOf, IInv, WalkOK, ActivationOK
  <2>4. PICK S : IsStack(r, S)
    BY <1>6 DEF Created, StackOK
  <2>5. PICK T : T = S \cup {new}
    OBVIOUS
  <2>6. S \subseteq Nodes(r) /\ T \subseteq Nodes(r)' /\ node'[r] \in T
    BY <2>2, <2>4, <2>5 DEF IsStack
  <2>7. \A i \in S : i <= node[r] /\ i \in Nat /\ i < new /\ tree'[r][i] = tree[r][i]
    BY <2>2, <2>4, <2>6 DEF IsStack, Nodes
  <2>8. node[r] \in S \cup {0}
    BY <2>4 DEF IsStack
  <2>9. ASSUME NEW i \in T
        PROVE  /\ i <= node'[r] /\ tree'[r][i].parent \in T \cup {0}
               /\ \A j \in T : i < j => i <= tree'[r][j].parent
    <3>1. CASE i = new
      BY <2>0, <2>2, <2>3, <2>5, <2>7, <2>8, <3>1
    <3>2. CASE i \in S
      BY <2>0, <2>2, <2>3, <2>4, <2>5, <2>7, <3>2 DEF IsStack
    <3> QED
      BY <2>5, <3>1, <3>2
  <2>10. \A i \in Nodes(r)' \ T : tree'[r][i].todo = {}
    BY <2>2, <2>4, <2>5 DEF IsStack
  <2>11. IsStack(r, T)'
    BY <2>6, <2>9, <2>10 DEF IsStack
  <2> QED
    BY <1>3, <1>6, <2>11 DEF StackOK, Created
<1>7. CASE Entered(r)
  <2> DEFINE p == tree[r][node[r]]
  <2>1. pc[r] = "slots" /\ node[r] \in Nodes(r) /\ node[r] # 0
    BY <1>7 DEF Entered, IInv, TypeOK, WalkOK, TreeOK, Nodes
  <2>2. PICK c \in p.todo :
          tree'[r] = [tree[r] EXCEPT ![node[r]] = [p EXCEPT !.todo = p.todo \ {c}]]
    BY <1>7 DEF Entered
  <2> DEFINE m == [p EXCEPT !.todo = p.todo \ {c}]
  <2>3. m.parent = p.parent /\ tree'[r] = [tree[r] EXCEPT ![node[r]] = m]
    BY <1>0, <2>1, <2>2 DEF Node
  <2> HIDE DEF m
  <2>4. /\ Len(tree'[r]) = Len(tree[r])
        /\ \A i \in 1 .. Len(tree[r]) :
             tree'[r][i] = IF i = node[r] THEN m ELSE tree[r][i]
    BY <1>0, <2>1, <2>3 DEF Nodes
  <2>5. /\ Nodes(r)' = Nodes(r)
        /\ \A i \in Nodes(r) : tree'[r][i].parent = tree[r][i].parent
        /\ \A i \in Nodes(r) \ {node[r]} : tree'[r][i] = tree[r][i]
    BY <2>3, <2>4 DEF Nodes
  <2>6. PICK S : IsStack(r, S)
    BY <2>1 DEF StackOK
  <2>7. IsStack(r, S)'
    BY <1>7, <2>1, <2>5, <2>6 DEF IsStack, Entered
  <2> QED
    BY <1>3, <1>7, <2>1, <2>7 DEF StackOK, Entered
<1>8. CASE Returned(r)
  <2>1. pc[r] = "slots" /\ node[r] \in Nodes(r) /\ node[r] # 0
        /\ tree'[r] = tree[r] /\ Nodes(r)' = Nodes(r)
    BY <1>8 DEF Returned, IInv, TypeOK, WalkOK, TreeOK, Nodes
  <2>2. CASE tree[r][node[r]].parent = 0
    <3>1. \A i \in Nodes(r) : tree[r][i].todo = {}
      BY <1>8, <2>1, <2>2, RootReturnsLast DEF Returned
    <3> QED
      BY <1>8, <2>1, <2>2, <3>1 DEF Returned, StackOK
  <2>3. CASE tree[r][node[r]].parent # 0
    <3>1. /\ node'[r] = tree[r][node[r]].parent /\ pc'[r] = pc[r]
          /\ result'[r] = result[r] /\ tree[r][node[r]].todo = {}
      BY <1>8, <2>3 DEF Returned
    <3>2. PICK S : IsStack(r, S)
      BY <2>1 DEF StackOK
    <3>3. PICK T : T = S \ {node[r]}
      OBVIOUS
    <3>4. node[r] \in S /\ tree[r][node[r]].parent \in S \cup {0}
          /\ tree[r][node[r]].parent < node[r]
      BY <1>0, <2>1, <3>2 DEF IsStack
    <3>5. T \subseteq Nodes(r)' /\ node'[r] \in T
      <4>1. tree[r][node[r]].parent # node[r]
        BY <1>0, <2>1, <3>4 DEF Nodes
      <4> QED
        BY <2>1, <2>3, <3>1, <3>2, <3>3, <3>4, <4>1 DEF IsStack
    <3>6. ASSUME NEW i \in T
          PROVE  /\ i <= node'[r] /\ tree'[r][i].parent \in T \cup {0}
                 /\ \A j \in T : i < j => i <= tree'[r][j].parent
      <4>1. i \in S /\ i \in Nat /\ i < node[r]
        BY <1>0, <3>2, <3>3 DEF IsStack, Nodes
      <4>2. i <= node'[r]
        BY <3>1, <3>2, <3>4, <4>1 DEF IsStack
      <4>3. tree[r][i].parent \in S \cup {0} /\ tree[r][i].parent < i
            /\ tree[r][i].parent \in Nat
        BY <1>0, <3>2, <4>1 DEF IsStack, Node
      <4>4. tree[r][i].parent # node[r]
        BY <1>0, <4>1, <4>3
      <4> QED
        BY <2>1, <3>2, <3>3, <4>1, <4>2, <4>3, <4>4 DEF IsStack
    <3>7. \A i \in Nodes(r)' \ T : tree'[r][i].todo = {}
      BY <2>1, <3>1, <3>2, <3>3 DEF IsStack
    <3>8. IsStack(r, T)'
      BY <3>5, <3>6, <3>7 DEF IsStack
    <3> QED
      BY <1>3, <2>1, <3>1, <3>8 DEF StackOK
  <2> QED
    BY <2>2, <2>3
<1>9. CASE Failed(r) /\ pc[r] = "done"
  BY <1>9 DEF Failed, Active
<1> QED
  BY <1>2, <1>4, <1>5, <1>6, <1>7, <1>8, <1>9, StepKinds

WalkInv == \A r \in Request : ChildrenOK(r) /\ StackOK(r)

LEMMA WalkInvariance == Spec => []WalkInv
<1>1. Init => WalkInv
  <2> SUFFICES ASSUME Init, NEW r \in Request PROVE ChildrenOK(r) /\ StackOK(r)
    BY DEF WalkInv
  <2>1. /\ tree[r] = << >> /\ skipped[r] = {} /\ result[r] = "none"
        /\ node[r] = 0 /\ call[r].parent = 0 /\ Nodes(r) = {}
    BY DEF Init, Nodes, RootActivation, NewActivation
  <2>2. IsStack(r, {})
    BY <2>1 DEF IsStack
  <2> QED
    BY <2>1, <2>2 DEF ChildrenOK, StackOK
<1>2. IInv /\ WalkInv /\ [Next]_vars => WalkInv'
  BY ChildrenStep, StackStep DEF WalkInv
<1> QED
  BY <1>1, <1>2, Invariance, PTL DEF Spec

(* When Resolve returns a tree, each child of each node stands in it or is *)
(* among the skipped ones, exactly once.                                   *)
THEOREM NothingIsLost == Spec => []NothingLost
<1>1. IInv /\ WalkInv => NothingLost
  <2> SUFFICES ASSUME IInv, WalkInv, NEW r \in Request, result[r] = "ok",
                      NEW i \in Nodes(r), NEW c \in Places(tree[r][i].desc)
               PROVE  Cardinality({j \in Nodes(r) : tree[r][j].parent = i
                                                     /\ tree[r][j].place = c})
                      + Cardinality({s \in skipped[r] : s.parent = i
                                                         /\ s.place = c}) = 1
    BY DEF NothingLost
  <2> DEFINE P == {j \in Nodes(r) : tree[r][j].parent = i /\ tree[r][j].place = c}
             G == {s \in skipped[r] : s.parent = i /\ s.place = c}
  <2>1. ChildOK(r, i, c) /\ c \notin tree[r][i].todo /\ ~InHand(r, i, c)
    BY DEF WalkInv, ChildrenOK, StackOK, InHand, Active
  <2>2. (P # {} \/ G # {}) /\ (P = {} \/ G = {})
    BY <2>1 DEF ChildOK, Placed, GivenUp, Fills
  <2>3. \A j, k \in P : j = k
    BY <2>1 DEF ChildOK, Fills
  <2>4. \A s, t \in G : s = t
    BY <2>1 DEF ChildOK, Fills
  <2> HIDE DEF P, G
  <2>5. ASSUME NEW S, S # {}, \A x, y \in S : x = y PROVE Cardinality(S) = 1
    <3>1. PICK x \in S : TRUE
      BY <2>5
    <3>2. S = {x}
      BY <2>5
    <3> QED
      BY <3>2, FS_Singleton
  <2>6. Cardinality({}) = 0
    BY FS_EmptySet
  <2>7. Cardinality(P) + Cardinality(G) = 1
    BY <2>2, <2>3, <2>4, <2>5, <2>6
  <2> QED
    BY <2>7 DEF P, G
<1> QED
  BY <1>1, WalkInvariance, Invariance, PTL

-----------------------------------------------------------------------------
(* The path from the root to a node: every activation stands in the        *)
(* context that its parent gives it, so what a node carries along (its     *)
(* base, its depth, the chain of references it has seen) says what its     *)
(* path is.                                                                *)

RefLabel == {"ref", "loadRef", "fetchRef", "storeRef"}
TemplateLabel == {"resolve", "load", "fetch", "store", "verify"}

(* An activation past the checks of its template.                          *)
Checked(a) ==
    /\ a.id = ResolveTemplateURI(Descriptor[a.desc].template, a.base)
    /\ a.id # None
    /\ CheckTrusted(a.id, a.base, Allowlist)
    /\ a.depth < MaxDepth

Follows(p, url) ==
    /\ url # None
    /\ CheckTrusted(AsIdentity(url), p.base, Allowlist)
    /\ url \notin p.seen

InContext(a, base, depth, seen) == a.base = base /\ a.depth = depth /\ a.seen = seen

ForRoot(r) ==
    /\ tree[r] = << >>
    /\ pc[r] \notin RefLabel
    /\ call[r].place = None /\ call[r].desc = Root[r]
    /\ InContext(call[r], RootBase[r], 0, {})

(* The activation that fills the slot c of node p: on its way along the    *)
(* reference, or in the place of the inline or the referenced descriptor.  *)
ForChild(r) ==
    LET a     == call[r]
        p     == tree[r][a.parent]
        child == ChildAt(p.desc, a.place)
        url   == ResolveRef(child.ref, p.base)
    IN  /\ pc[r] \in RefLabel =>
             /\ child.ref # None /\ a.ref = child.ref
             /\ InContext(a, p.base, p.depth + 1, p.seen)
        /\ pc[r] \in {"loadRef", "fetchRef", "storeRef"} => a.url = url /\ Follows(p, url)
        /\ pc[r] \in TemplateLabel =>
             \/ /\ child.ref = None /\ a.desc = child.desc
                /\ InContext(a, p.base, p.depth + 1, p.seen)
             \/ /\ child.ref # None /\ Follows(p, url)
                /\ InContext(a, url, p.depth + 2, p.seen \cup {url})

ContextOK(r) ==
    /\ Active(r) /\ call[r].parent = 0 => ForRoot(r)
    /\ Active(r) /\ call[r].parent # 0 => pc[r] # "idle" /\ ForChild(r)
    /\ pc[r] \in {"load", "fetch", "store", "verify"} => Checked(call[r])

ContextInv == \A r \in Request : ContextOK(r)

(* Nothing that places an activation changes.                              *)
SamePlace(a, b) ==
    /\ a.parent = b.parent /\ a.place = b.place /\ a.ref = b.ref /\ a.url = b.url
    /\ a.base = b.base /\ a.depth = b.depth /\ a.seen = b.seen

LEMMA ContextStep ==
    ASSUME IInv, NEW r \in Request, ContextOK(r), [Next]_vars
    PROVE  ContextOK(r)'
<1>0. /\ pc \in [Request -> Label] /\ call \in [Request -> Activation]
      /\ call[r] \in Activation
      /\ tree[r] \in Seq(Node) /\ node[r] \in Nat
  BY DEF IInv, TypeOK
<1>1. CASE Failed(r) \/ Created(r) \/ Returned(r)
  <2>1. pc'[r] \in {"slots", "done"}
    BY <1>1 DEF Failed, Created, Returned
  <2> QED
    BY <2>1 DEF ContextOK, Active
<1>2. CASE Unmoved(r)
  BY <1>2 DEF Unmoved, ContextOK, Active, ForRoot, ForChild, InContext, Checked
<1>3. CASE Entered(r)
  <2> DEFINE p == tree[r][node[r]]
  <2>1. pc[r] = "slots" /\ node[r] \in 1 .. Len(tree[r]) /\ node[r] # 0
    BY <1>3 DEF Entered, IInv, TypeOK, WalkOK, TreeOK
  <2>2. PICK c \in p.todo :
          /\ call'[r] = NewActivation(node[r], c, ChildAt(p.desc, c).ref,
                ChildAt(p.desc, c).desc, p.base, p.depth + 1, p.seen)
          /\ pc'[r] = IF ChildAt(p.desc, c).ref = None THEN "resolve" ELSE "ref"
          /\ tree'[r] = [tree[r] EXCEPT ![node[r]] = [p EXCEPT !.todo = p.todo \ {c}]]
    BY <1>3 DEF Entered
  <2>3. /\ call'[r].parent = node[r] /\ call'[r].place = c
        /\ call'[r].ref = ChildAt(p.desc, c).ref
        /\ call'[r].desc = ChildAt(p.desc, c).desc
        /\ InContext(call'[r], p.base, p.depth + 1, p.seen)
    BY <2>2 DEF NewActivation, InContext
  <2>4. SameButTodo(tree'[r][node[r]], p)
    <3>1. p \in Node
      BY <1>0, <2>1
    <3>2. tree'[r][node[r]] = [p EXCEPT !.todo = p.todo \ {c}]
      BY <1>0, <2>1, <2>2
    <3> QED
      BY <3>1, <3>2 DEF SameButTodo, Node
  <2>5. ForChild(r)'
    BY <2>2, <2>3, <2>4 DEF ForChild, RefLabel, TemplateLabel, SameButTodo, InContext
  <2> QED
    BY <2>1, <2>2, <2>3, <2>5 DEF ContextOK, Active
<1>4. ASSUME tree'[r] = tree[r], pc[r] \in TemplateLabel \cup {"idle"},
             pc'[r] \in TemplateLabel,
             SamePlace(call'[r], call[r]), call'[r].desc = call[r].desc,
             pc'[r] = "resolve" \/ Checked(call'[r])
      PROVE  ContextOK(r)'
  <2>1. call[r].parent = 0 => ForRoot(r)'
    BY <1>4 DEF ContextOK, ForRoot, InContext, SamePlace, Active, TemplateLabel, RefLabel
  <2>2. call[r].parent # 0 => ForChild(r)'
    BY <1>4 DEF ContextOK, ForChild, InContext, SamePlace, Active, TemplateLabel, RefLabel
  <2> QED
    BY <1>4, <2>1, <2>2 DEF ContextOK, TemplateLabel, SamePlace
<1>5. CASE Moved(r) /\ Resolve(r)
  <2>1. pc[r] = "idle" /\ pc'[r] = "resolve" /\ call'[r] = call[r] /\ tree'[r] = tree[r]
    BY <1>0, <1>5 DEF Resolve, Fail, Goto, Moved, Active
  <2> QED
    BY <1>4, <2>1 DEF SamePlace, TemplateLabel
<1>6. CASE Moved(r) /\ CheckTemplate(r)
  <2> DEFINE a == call[r]
             id == ResolveTemplateURI(Descriptor[a.desc].template, a.base)
  <2>1. ~ \E why : Fail(r, why)
    BY <1>0, <1>6 DEF Moved, Fail, Goto, Active
  <2>2. /\ pc[r] = "resolve" /\ pc'[r] = "load" /\ tree'[r] = tree[r]
        /\ call'[r] = [a EXCEPT !.id = id] /\ id # None
        /\ CheckTrusted(id, a.base, Allowlist) /\ ~TooDeep(a.depth)
    BY <1>0, <1>6, <2>1 DEF CheckTemplate, Goto
  <2> HIDE DEF id
  <2>3. SamePlace(call'[r], a) /\ call'[r].desc = a.desc /\ call'[r].id = id
    BY <1>0, <2>2 DEF SamePlace, Activation
  <2>4. Checked(call'[r])
    <3>1. a.depth < MaxDepth
      BY <1>0, <2>2, ResolverAssumption
      DEF TooDeep, MaxDepth, DefaultMaxDepth, Activation
    <3> QED
      BY <2>2, <2>3, <3>1 DEF Checked, SamePlace, id
  <2> QED
    BY <1>4, <2>2, <2>3, <2>4 DEF TemplateLabel
<1>7. CASE Moved(r) /\ (LoadTemplate(r) \/ FetchTemplate(r) \/ StoreTemplate(r))
  <2>1. ~ \E why : Fail(r, why)
    BY <1>0, <1>7 DEF Moved, Fail, Goto, Active
  <2>2. /\ pc[r] \in {"load", "fetch", "store"} /\ pc'[r] \in {"fetch", "store", "verify"}
        /\ tree'[r] = tree[r]
        /\ \/ call'[r] = call[r]
           \/ \E b, k : call'[r] = [call[r] EXCEPT !.body = b, !.kind = k]
    <3>1. /\ pc[r] \in {"load", "fetch", "store"}
          /\ pc'[r] \in {"fetch", "store", "verify"} /\ tree'[r] = tree[r]
      BY <1>0, <1>7, <2>1 DEF LoadTemplate, FetchTemplate, StoreTemplate, Goto
    <3>2. \/ call' = call
          \/ \E b, k : call' = [call EXCEPT ![r] = [call[r] EXCEPT !.body = b, !.kind = k]]
      BY <1>7, <2>1 DEF LoadTemplate, FetchTemplate, StoreTemplate
    <3> QED
      BY <1>0, <3>1, <3>2
  <2>3. /\ SamePlace(call'[r], call[r]) /\ call'[r].desc = call[r].desc
        /\ call'[r].id = call[r].id
    BY <1>0, <2>2 DEF SamePlace, Activation
  <2>4. Checked(call'[r])
    BY <2>2, <2>3 DEF ContextOK, Checked, SamePlace
  <2> QED
    BY <1>4, <2>2, <2>3, <2>4 DEF TemplateLabel
<1>8. CASE Moved(r) /\ CheckRef(r)
  <2> DEFINE url == ResolveRef(call[r].ref, call[r].base)
  <2>1. ~ \E why : Fail(r, why)
    BY <1>0, <1>8 DEF Moved, Fail, Goto, Active
  <2>2. /\ pc[r] = "ref" /\ pc'[r] = "loadRef" /\ tree'[r] = tree[r]
        /\ call'[r] = [call[r] EXCEPT !.url = url]
        /\ url # None /\ CheckTrusted(AsIdentity(url), call[r].base, Allowlist)
        /\ url \notin call[r].seen
    BY <1>0, <1>8, <2>1 DEF CheckRef, Goto, TrustedReference, OnChain
  <2> HIDE DEF url
  <2>3. /\ call'[r].url = url /\ call'[r].parent = call[r].parent
        /\ call'[r].place = call[r].place /\ call'[r].ref = call[r].ref
        /\ call'[r].base = call[r].base /\ call'[r].depth = call[r].depth
        /\ call'[r].seen = call[r].seen
    BY <1>0, <2>2 DEF Activation
  <2>4. call[r].parent # 0 /\ ForChild(r)
    BY <2>2 DEF ContextOK, Active, ForRoot, RefLabel
  <2>5. ForChild(r)'
    BY <2>2, <2>3, <2>4 DEF ForChild, Follows, InContext, RefLabel, TemplateLabel, url
  <2> QED
    BY <2>2, <2>3, <2>4, <2>5 DEF ContextOK, Active
<1>9. ASSUME Moved(r), pc[r] \in {"loadRef", "fetchRef"},
              pc'[r] \in {"fetchRef", "storeRef"}, SamePlace(call'[r], call[r])
       PROVE  ContextOK(r)'
  <2>1. call[r].parent # 0 /\ ForChild(r)
    BY <1>9 DEF ContextOK, Active, ForRoot, RefLabel
  <2>2. ForChild(r)'
    BY <1>9, <2>1
    DEF Moved, ForChild, Follows, InContext, RefLabel, TemplateLabel, SamePlace
  <2> QED
    BY <1>9, <2>1, <2>2 DEF ContextOK, Active, SamePlace
<1>10. ASSUME NEW d, Follow(r, d), pc[r] \in {"loadRef", "storeRef"}
       PROVE  ContextOK(r)'
  <2>1. /\ pc'[r] = "resolve" /\ tree'[r] = tree[r]
        /\ call'[r].parent = call[r].parent /\ call'[r].place = call[r].place
        /\ call'[r].base = call[r].url /\ call'[r].depth = call[r].depth + 1
        /\ call'[r].seen = call[r].seen \cup {call[r].url}
    BY <1>0, <1>10 DEF Follow, Goto, Activation
  <2>2. call[r].parent # 0 /\ ForChild(r)
    BY <1>10 DEF ContextOK, Active, ForRoot, RefLabel
  <2>3. call[r].parent \in Nodes(r) /\ tree[r][call[r].parent].depth \in Nat
    <3>1. call[r].parent \in Nodes(r)
      BY <1>10, <2>2, ParentInTree DEF Active
    <3>2. tree[r][call[r].parent] \in Node
      BY <1>0, <3>1 DEF Nodes
    <3> QED
      BY <3>1, <3>2 DEF Node
  <2>4. ForChild(r)'
    <3> DEFINE p   == tree[r][call[r].parent]
               ref == ChildAt(p.desc, call[r].place).ref
               url == ResolveRef(ref, p.base)
    <3>1. /\ ref # None /\ call[r].url = url /\ Follows(p, url)
          /\ InContext(call[r], p.base, p.depth + 1, p.seen)
      BY <1>10, <2>2 DEF ForChild, RefLabel
    <3>2. /\ pc'[r] \notin RefLabel /\ pc'[r] \in TemplateLabel
          /\ tree'[r][call'[r].parent] = p
      BY <2>1 DEF RefLabel, TemplateLabel
    <3>3. InContext(call'[r], url, p.depth + 2, p.seen \cup {url})
      <4>1. call[r].depth = p.depth + 1 /\ call[r].seen = p.seen
        BY <3>1 DEF InContext
      <4>2. call'[r].depth = p.depth + 2
        <5>1. PICK n \in Nat : n = p.depth
          BY <2>3
        <5>2. (n + 1) + 1 = n + 2
          OBVIOUS
        <5>3. call'[r].depth = call[r].depth + 1
          BY <2>1
        <5> QED
          BY <4>1, <5>1, <5>2, <5>3
      <4>3. call'[r].base = url /\ call'[r].seen = p.seen \cup {url}
        BY <2>1, <3>1, <4>1
      <4> QED
        BY <4>2, <4>3 DEF InContext
    <3> QED
      BY <2>1, <3>1, <3>2, <3>3 DEF ForChild, Follows, RefLabel, TemplateLabel
  <2> QED
    BY <2>1, <2>2, <2>4 DEF ContextOK, Active
<1>11. CASE Moved(r) /\ LoadRef(r)
  <2>1. ~ \E why : Fail(r, why)
    BY <1>0, <1>11 DEF Moved, Fail, Goto, Active
  <2>2. CASE \E d : Follow(r, d)
    BY <1>10, <1>11, <2>2 DEF LoadRef
  <2>3. CASE ~ \E d : Follow(r, d)
    <3>1. pc[r] = "loadRef" /\ pc'[r] = "fetchRef" /\ call'[r] = call[r]
      BY <1>0, <1>11, <2>1, <2>3 DEF LoadRef, Goto
    <3> QED
      BY <1>9, <1>11, <3>1 DEF SamePlace
  <2> QED
    BY <2>2, <2>3
<1>12. CASE Moved(r) /\ FetchRef(r)
  <2>1. ~ \E why : Fail(r, why)
    BY <1>0, <1>12 DEF Moved, Fail, Goto, Active
  <2>2. /\ pc[r] = "fetchRef" /\ pc'[r] = "storeRef"
        /\ \E d : call'[r] = [call[r] EXCEPT !.desc = d]
    BY <1>0, <1>12, <2>1 DEF FetchRef, Goto
  <2>3. SamePlace(call'[r], call[r])
    BY <1>0, <2>2 DEF SamePlace, Activation
  <2> QED
    BY <1>9, <1>12, <2>2, <2>3
<1>13. CASE StoreRef(r)
  BY <1>10, <1>13 DEF StoreRef
<1>14. CASE Moved(r)
  <2>1. ~CreateNode(r) /\ ~EnterSlot(r) /\ ~Return(r)
    BY <1>0, <1>14
    DEF Moved, CreateNode, EnterSlot, Return, Active, Fail, Goto
  <2>2. (\A q \in Request \ {r} : ~(Resolve(q) \/ Step(q)))
          \/ Unmoved(r)
    BY OthersUnmoved
  <2>3. UNCHANGED vars => Unmoved(r)
    BY DEF vars, Unmoved
  <2> QED
    BY <1>2, <1>5, <1>6, <1>7, <1>8, <1>11, <1>12, <1>13, <1>14, <2>1, <2>2, <2>3
    DEF Next, Step, AllDone
<1> QED
  BY <1>1, <1>2, <1>3, <1>14, StepKinds

LEMMA ContextInvariance == Spec => []ContextInv
<1>1. Init => ContextInv
  BY DEF Init, ContextInv, ContextOK, ForRoot, InContext, RefLabel, Active,
     RootActivation, NewActivation
<1>2. IInv /\ ContextInv /\ [Next]_vars => ContextInv'
  BY ContextStep DEF ContextInv
<1> QED
  BY <1>1, <1>2, Invariance, PTL DEF Spec

-----------------------------------------------------------------------------
(* Paths.  Path2Root is defined by recursion along the parents.  That such *)
(* a function exists, and only one, is itself an invariant: it grows with  *)
(* the tree, a node at a time.                                             *)

IsUp(r, g) ==
    g = [i \in Nodes(r) |->
           {i} \cup (IF tree[r][i].parent = 0 THEN {} ELSE g[tree[r][i].parent])]

LEMMA PathIsUp ==
    ASSUME NEW r, NEW g, IsUp(r, g)
    PROVE  IsUp(r, Path2Root(r))
<1>1. Path2Root(r) = CHOOSE u : IsUp(r, u)
  BY DEF Path2Root, IsUp
<1>2. IsUp(r, CHOOSE u : IsUp(r, u))
  OBVIOUS
<1> QED
  BY <1>1, <1>2

(* What node i says of its path.                                           *)
Chain(r, path) == {tree[r][j].base : j \in {k \in path : ViaReference(r, k)}}

PathOK(r, i, path) ==
    /\ i \in path /\ path \subseteq 1 .. i /\ IsFiniteSet(path)
    /\ IsFiniteSet(tree[r][i].seen)
    /\ tree[r][i].seen = Chain(r, path)
    /\ tree[r][i].depth = Cardinality(path) - 1 + Cardinality(tree[r][i].seen)
    /\ tree[r][i].depth < MaxDepth

AncestryOK(r) ==
    \E g : /\ IsUp(r, g)
           /\ \A h : IsUp(r, h) => h = g
           /\ \A i \in Nodes(r) : PathOK(r, i, g[i])

AncestryInv == \A r \in Request : AncestryOK(r)

(* A node keeps what makes its path.                                       *)
NodesKept(r) ==
    /\ Nodes(r) \subseteq Nodes(r)'
    /\ \A i \in Nodes(r) : SameButTodo(tree'[r][i], tree[r][i])

LEMMA PathKept ==
    ASSUME IInv, NEW r \in Request, NodesKept(r),
           NEW i \in Nodes(r), NEW path, PathOK(r, i, path)
    PROVE  PathOK(r, i, path)' /\ Chain(r, path)' = Chain(r, path)
<1>1. /\ i \in Nat /\ \A j \in path : j \in Nodes(r)
      /\ \A j \in Nodes(r) : tree[r][j].parent < j /\ tree[r][j].parent \in Nat
  <2>1. tree[r] \in Seq(Node) /\ Len(tree[r]) \in Nat
    BY DEF IInv, TypeOK
  <2>2. \A j \in Nodes(r) : tree[r][j] \in Node
    BY <2>1 DEF Nodes
  <2> QED
    BY <2>1, <2>2 DEF Nodes, PathOK, IInv, WalkOK, TreeOK, Node
<1>2. ASSUME NEW j \in path
      PROVE  /\ ViaReference(r, j)' <=> ViaReference(r, j)
             /\ tree'[r][j].base = tree[r][j].base
  <2>1. j \in Nodes(r) /\ (tree[r][j].parent # 0 => tree[r][j].parent \in Nodes(r))
    BY <1>1 DEF Nodes
  <2> QED
    BY <2>1 DEF ViaReference, NodesKept, SameButTodo
<1>3. Chain(r, path)' = Chain(r, path)
  BY <1>2 DEF Chain
<1> QED
  BY <1>3 DEF PathOK, NodesKept, SameButTodo, MaxDepth, DefaultMaxDepth

(* The path of a node just made, one longer than its parent's.             *)
LEMMA NewPath ==
    ASSUME IInv, NEW r \in Request, ContextOK(r), NodesKept(r), NodeAdded(r),
           NEW m, m = Len(tree[r]) + 1, NEW p, p = call[r].parent,
           NEW up, p # 0 => p \in Nodes(r) /\ PathOK(r, p, up),
           NEW path, path = {m} \cup (IF p = 0 THEN {} ELSE up)
    PROVE  PathOK(r, m, path)'
<1> DEFINE n == tree'[r][m]
<1>1. /\ MadeOf(n, call[r]) /\ pc[r] = "verify" /\ Active(r) /\ m \in Nat \ {0}
      /\ m \notin Nodes(r)
  BY DEF NodeAdded, Active, IInv, TypeOK, Nodes
<1>2. call[r].depth < MaxDepth
  BY <1>1 DEF ContextOK, Checked
<1>3. CASE p = 0
  <2>1. n.seen = {} /\ n.depth = 0 /\ n.parent = 0
    BY <1>1, <1>3 DEF ContextOK, ForRoot, InContext, MadeOf
  <2>2. path = {m} /\ ~ViaReference(r, m)'
    BY <1>3, <2>1 DEF ViaReference
  <2>3. /\ IsFiniteSet({m}) /\ Cardinality({m}) = 1
        /\ IsFiniteSet({}) /\ Cardinality({}) = 0
    BY FS_Singleton, FS_EmptySet
  <2>4. Chain(r, path)' = {}
    BY <2>2 DEF Chain
  <2>5. n.depth = Cardinality(path) - 1 + Cardinality(n.seen)
    <3>1. Cardinality(path) = 1 /\ Cardinality(n.seen) = 0
      BY <2>1, <2>2, <2>3
    <3> HIDE DEF n
    <3> QED
      BY <2>1, <3>1
  <2>6. n.depth < MaxDepth
    BY <1>1, <1>2 DEF MadeOf
  <2>7. /\ m \in path /\ path \subseteq 1 .. m /\ IsFiniteSet(path)
        /\ IsFiniteSet(n.seen) /\ n.seen = Chain(r, path)'
    <3>1. m \in path /\ path \subseteq 1 .. m
      BY <1>1, <2>2
    <3> HIDE DEF n
    <3>2. IsFiniteSet(path) /\ IsFiniteSet(n.seen) /\ n.seen = Chain(r, path)'
      BY <2>1, <2>2, <2>3, <2>4, Zenon
    <3> QED
      BY <3>1, <3>2
  <2> QED
    BY <2>5, <2>6, <2>7 DEF PathOK, MaxDepth, DefaultMaxDepth
<1>4. CASE p # 0
  <2> DEFINE child == ChildAt(tree[r][p].desc, call[r].place)
             url == ResolveRef(child.ref, tree[r][p].base)
  <2>1. /\ p \in Nodes(r) /\ PathOK(r, p, up) /\ path = {m} \cup up /\ ForChild(r)
    BY <1>1, <1>4 DEF ContextOK
  <2>2. PathOK(r, p, up)' /\ Chain(r, up)' = Chain(r, up)
    BY <2>1, PathKept
  <2>3. /\ p \in Nat /\ p < m /\ m \notin up /\ tree'[r][p].desc = tree[r][p].desc
        /\ path \subseteq 1 .. m
    BY <1>1, <2>1 DEF Nodes, IInv, TypeOK, PathOK, NodesKept, SameButTodo
  <2>4. ViaReference(r, m)' <=> child.ref # None
    BY <1>1, <1>4, <2>3 DEF ViaReference, MadeOf
  <2>5. /\ IsFiniteSet(path) /\ Cardinality(path) = Cardinality(up) + 1
        /\ Cardinality(up) \in Nat
    BY <2>1, <2>3, FS_AddElement, FS_CardinalityType DEF PathOK
  <2>6. Cardinality(tree[r][p].seen) \in Nat
    BY <2>1, FS_CardinalityType DEF PathOK
  <2>7. CASE child.ref = None
    <3>1. n.seen = tree[r][p].seen /\ n.depth = tree[r][p].depth + 1
      BY <1>1, <2>1, <2>7 DEF ForChild, InContext, MadeOf, TemplateLabel
    <3>2. Chain(r, path)' = Chain(r, up)'
      BY <2>1, <2>4, <2>7 DEF Chain
    <3> HIDE DEF n
    <3>3. Cardinality(n.seen) = Cardinality(tree[r][p].seen)
      BY <3>1
    <3>4. /\ n.seen = Chain(r, path)' /\ IsFiniteSet(n.seen)
          /\ n.depth = Cardinality(path) - 1 + Cardinality(n.seen)
      BY <2>1, <2>2, <2>5, <2>6, <3>1, <3>2, <3>3 DEF PathOK
    <3>5. n.depth < MaxDepth
      BY <1>1, <1>2 DEF MadeOf
    <3> QED
      BY <2>1, <2>3, <2>5, <3>4, <3>5 DEF PathOK, n, MaxDepth, DefaultMaxDepth
  <2>8. CASE child.ref # None
    <3>1. /\ n.seen = tree[r][p].seen \cup {url} /\ n.depth = tree[r][p].depth + 2
          /\ n.base = url /\ url \notin tree[r][p].seen
      BY <1>1, <2>1, <2>8 DEF ForChild, Follows, InContext, MadeOf, TemplateLabel
    <3>2. Chain(r, path)' = Chain(r, up)' \cup {n.base}
      BY <2>1, <2>4, <2>8 DEF Chain
    <3> HIDE DEF n, url
    <3>3. /\ IsFiniteSet(n.seen)
          /\ Cardinality(n.seen) = Cardinality(tree[r][p].seen) + 1
      BY <2>1, <3>1, FS_AddElement DEF PathOK
    <3>4. n.seen = Chain(r, path)'
      BY <2>1, <2>2, <3>1, <3>2 DEF PathOK
    <3>5. n.depth = Cardinality(path) - 1 + Cardinality(n.seen)
      BY <2>1, <2>5, <2>6, <3>1, <3>3 DEF PathOK
    <3>6. n.depth < MaxDepth
      BY <1>1, <1>2 DEF MadeOf
    <3> QED
      BY <2>1, <2>3, <2>5, <3>3, <3>4, <3>5, <3>6
      DEF PathOK, n, MaxDepth, DefaultMaxDepth
  <2> QED
    BY <2>7, <2>8
<1> QED
  BY <1>3, <1>4

LEMMA AncestryStep ==
    ASSUME IInv, NEW r \in Request, ContextOK(r), AncestryOK(r), [Next]_vars
    PROVE  AncestryOK(r)'
<1>0. /\ tree[r] \in Seq(Node) /\ Len(tree[r]) \in Nat
      /\ \A i \in Nodes(r) : tree[r][i].parent < i /\ tree[r][i].parent \in Nat
  <2>1. tree[r] \in Seq(Node) /\ Len(tree[r]) \in Nat
    BY DEF IInv, TypeOK
  <2>2. \A j \in Nodes(r) : tree[r][j] \in Node
    BY <2>1 DEF Nodes
  <2> QED
    BY <2>1, <2>2 DEF Nodes, IInv, WalkOK, TreeOK, Node
<1>1. PICK g : /\ IsUp(r, g) /\ \A h : IsUp(r, h) => h = g
               /\ \A i \in Nodes(r) : PathOK(r, i, g[i])
  BY DEF AncestryOK
<1>2. CASE /\ Len(tree'[r]) = Len(tree[r])
           /\ \A i \in 1 .. Len(tree[r]) : SameButTodo(tree'[r][i], tree[r][i])
  <2>1. Nodes(r)' = Nodes(r) /\ NodesKept(r)
    BY <1>2 DEF Nodes, NodesKept
  <2>2. \A h : IsUp(r, h)' <=> IsUp(r, h)
    BY <2>1 DEF IsUp, NodesKept, SameButTodo
  <2>3. \A i \in Nodes(r)' : PathOK(r, i, g[i])'
    BY <1>1, <2>1, PathKept
  <2> QED
    BY <1>1, <2>2, <2>3 DEF AncestryOK
<1>3. CASE NodeAdded(r)
  <2>1. PICK m : m = Len(tree[r]) + 1
    OBVIOUS
  <2>2. /\ Nodes(r)' = Nodes(r) \cup {m} /\ m \notin Nodes(r) /\ NodesKept(r)
        /\ tree'[r][m].parent = call[r].parent
        /\ \A i \in Nodes(r) : tree'[r][i].parent = tree[r][i].parent
    <3>1. /\ Nodes(r)' = Nodes(r) \cup {m} /\ m \notin Nodes(r)
          /\ \A i \in Nodes(r) : tree'[r][i] = tree[r][i]
      BY <1>0, <1>3, <2>1 DEF NodeAdded, Nodes
    <3>2. tree'[r][m].parent = call[r].parent
      BY <1>3, <2>1 DEF NodeAdded, MadeOf
    <3>3. NodesKept(r)
      BY <3>1 DEF NodesKept, SameButTodo
    <3> QED
      BY <3>1, <3>2, <3>3
  <2>3. call[r].parent \in Nodes(r) \cup {0} /\ 0 \notin Nodes(r)
    BY <1>3, ParentInTree DEF NodeAdded, Active, Nodes
  <2>4. PICK p : p = call[r].parent
    OBVIOUS
  <2>5. PICK path : path = {m} \cup (IF p = 0 THEN {} ELSE g[p])
    OBVIOUS
  <2>6. PICK G : G = [i \in Nodes(r) \cup {m} |-> IF i = m THEN path ELSE g[i]]
    OBVIOUS
  <2>7. /\ G[m] = path /\ \A i \in Nodes(r) : G[i] = g[i]
        /\ \A i \in Nodes(r) : tree[r][i].parent # 0 => tree[r][i].parent \in Nodes(r)
    BY <1>0, <2>2, <2>6 DEF Nodes
  <2>8. IsUp(r, G)'
    <3>1. \A i \in Nodes(r) : g[i] =
            {i} \cup (IF tree[r][i].parent = 0 THEN {} ELSE g[tree[r][i].parent])
      BY <1>1 DEF IsUp
    <3>2. \A i \in Nodes(r) \cup {m} : G[i] =
            {i} \cup (IF tree'[r][i].parent = 0 THEN {} ELSE G[tree'[r][i].parent])
      BY <2>2, <2>3, <2>4, <2>5, <2>7, <3>1
    <3>3. G = [i \in Nodes(r) \cup {m} |-> G[i]]
      BY <2>6
    <3> QED
      BY <2>2, <3>2, <3>3 DEF IsUp
  <2>9. ASSUME NEW H, IsUp(r, H)' PROVE H = G
    <3>1. /\ H = [i \in Nodes(r) \cup {m} |-> H[i]]
          /\ \A i \in Nodes(r) \cup {m} : H[i] =
               {i} \cup (IF tree'[r][i].parent = 0 THEN {} ELSE H[tree'[r][i].parent])
      BY <2>2, <2>9 DEF IsUp
    <3>2. PICK h : h = [i \in Nodes(r) |-> H[i]]
      OBVIOUS
    <3>3. \A i \in Nodes(r) : h[i] =
            {i} \cup (IF tree[r][i].parent = 0 THEN {} ELSE h[tree[r][i].parent])
      BY <2>2, <2>7, <3>1, <3>2
    <3>4. IsUp(r, h)
      BY <3>2, <3>3 DEF IsUp
    <3>5. \A i \in Nodes(r) : H[i] = g[i]
      BY <1>1, <3>2, <3>4
    <3>6. H[m] = path
      <4>1. H[m] = {m} \cup (IF p = 0 THEN {} ELSE H[p])
        BY <2>2, <2>4, <3>1
      <4>2. p # 0 => H[p] = g[p]
        BY <2>3, <2>4, <3>5
      <4> QED
        BY <2>5, <4>1, <4>2
    <3> QED
      BY <2>6, <3>1, <3>5, <3>6
  <2>10. PathOK(r, m, path)'
    <3>1. p # 0 => p \in Nodes(r) /\ PathOK(r, p, g[p])
      BY <1>1, <2>3, <2>4
    <3> QED
      BY <1>3, <2>1, <2>2, <2>4, <2>5, <3>1, NewPath
  <2>11. \A i \in Nodes(r) : PathOK(r, i, g[i])'
    BY <1>1, <2>2, PathKept
  <2>12. \A i \in Nodes(r)' : PathOK(r, i, G[i])'
    BY <2>2, <2>7, <2>10, <2>11
  <2> QED
    BY <2>8, <2>9, <2>12 DEF AncestryOK
<1> QED
  BY <1>2, <1>3, TreeStep

LEMMA AncestryInvariance == Spec => []AncestryInv
<1>1. Init => AncestryInv
  <2> SUFFICES ASSUME Init, NEW r \in Request PROVE AncestryOK(r)
    BY DEF AncestryInv
  <2>1. Nodes(r) = {}
    BY DEF Init, Nodes
  <2>2. PICK g : g = [i \in {} |-> {}]
    OBVIOUS
  <2>3. \A h : IsUp(r, h) <=> h = g
    BY <2>1, <2>2 DEF IsUp
  <2> QED
    BY <2>1, <2>3 DEF AncestryOK
<1>2. IInv /\ ContextInv /\ AncestryInv /\ [Next]_vars => AncestryInv'
  BY AncestryStep DEF AncestryInv, ContextInv
<1> QED
  BY <1>1, <1>2, Invariance, ContextInvariance, PTL DEF Spec

(* What the invariant says, of the paths themselves.                       *)
LEMMA PathsOK ==
    ASSUME AncestryInv, NEW r \in Request, NEW i \in Nodes(r)
    PROVE  PathOK(r, i, Path2Root(r)[i])
<1>1. PICK g : /\ IsUp(r, g) /\ \A h : IsUp(r, h) => h = g
               /\ \A j \in Nodes(r) : PathOK(r, j, g[j])
  BY DEF AncestryInv, AncestryOK
<1>2. Path2Root(r) = g
  BY <1>1, PathIsUp
<1> QED
  BY <1>1, <1>2

(* The chain a node carries is exactly the references on its own path.     *)
THEOREM ChainIsOwnPath == Spec => []ChainIsAncestry
<1>1. AncestryInv => ChainIsAncestry
  BY PathsOK DEF ChainIsAncestry, PathOK, Chain
<1> QED
  BY <1>1, AncestryInvariance, PTL

(* The depth of a node is the length of its path, references counted       *)
(* twice, and below the limit.                                             *)
THEOREM DepthIsPathLength == Spec => []DepthCountsReferences
<1>1. AncestryInv => DepthCountsReferences
  BY PathsOK DEF DepthCountsReferences, PathOK
<1> QED
  BY <1>1, AncestryInvariance, PTL

-----------------------------------------------------------------------------
(* A slot given up as a cycle: its reference leads back to the chain.      *)

ChildURL(r, s) ==
    LET p == tree[r][s.parent] IN ResolveRef(ChildAt(p.desc, s.place).ref, p.base)

CycleOK(r) ==
    \A s \in skipped[r] :
        s.why = "ref-cycle" => /\ s.parent \in Nodes(r)
                               /\ ChildURL(r, s) \in tree[r][s.parent].seen

CycleInv == \A r \in Request : CycleOK(r)

(* Only the check of a reference gives a slot up as a cycle.               *)
LEMMA CycleFound ==
    ASSUME IInv, NEW r \in Request, [Next]_vars,
           NEW s \in skipped'[r], s \notin skipped[r], s.why = "ref-cycle"
    PROVE  /\ pc[r] = "ref" /\ call[r].parent # 0 /\ tree'[r] = tree[r]
           /\ s.parent = call[r].parent /\ s.place = call[r].place
           /\ ResolveRef(call[r].ref, call[r].base) \in call[r].seen
<1>0. skipped \in [Request -> SUBSET Skip]
  BY DEF IInv, TypeOK
<1>1. ASSUME NEW q \in Request, q # r, Resolve(q) \/ Step(q) PROVE FALSE
  BY <1>1, OthersUnmoved DEF Unmoved
<1>2. UNCHANGED vars => FALSE
  BY DEF vars
<1>3. ASSUME NEW why, Fail(r, why)
      PROVE  /\ why = "ref-cycle" /\ call[r].parent # 0 /\ tree'[r] = tree[r]
             /\ s.parent = call[r].parent /\ s.place = call[r].place
  <2>1. PICK t : t = [parent |-> call[r].parent, place |-> call[r].place,
                      why |-> why, id |-> call[r].id, body |-> call[r].body,
                      kind |-> call[r].kind]
    OBVIOUS
  <2>2. t.parent = call[r].parent /\ t.place = call[r].place /\ t.why = why
    BY <2>1
  <2>3. call[r].parent # 0 /\ skipped'[r] = skipped[r] \cup {t} /\ tree'[r] = tree[r]
    BY <1>0, <1>3, <2>1 DEF Fail
  <2> QED
    BY <2>2, <2>3
<1>4. CASE \E why : Fail(r, why)
  <2>1. Fail(r, "ref-cycle")
    BY <1>3, <1>4
  <2>2. \A why : why # "ref-cycle" => ~Fail(r, why)
    BY <1>3
  <2>3. skipped' # skipped
    OBVIOUS
  <2>4. CheckRef(r)
    <3>1. Resolve(r) \/ Step(r)
      BY <1>1, <1>2 DEF Next, AllDone
    <3>2. ~(Resolve(r) \/ CheckTemplate(r) \/ LoadTemplate(r) \/ FetchTemplate(r)
            \/ CreateNode(r))
      BY <2>2, <2>3
      DEF Resolve, CheckTemplate, LoadTemplate, FetchTemplate, CreateNode
    <3>3. ~(StoreTemplate(r) \/ EnterSlot(r) \/ Return(r))
      BY <2>3 DEF StoreTemplate, EnterSlot, Return
    <3>4. ~(LoadRef(r) \/ FetchRef(r) \/ StoreRef(r))
      BY <2>2, <2>3 DEF LoadRef, FetchRef, StoreRef, Follow
    <3> QED
      BY <3>1, <3>2, <3>3, <3>4 DEF Step
  <2>5. pc[r] = "ref" /\ OnChain(r, ResolveRef(call[r].ref, call[r].base))
    BY <2>2, <2>3, <2>4 DEF CheckRef
  <2> QED
    BY <1>3, <2>1, <2>5 DEF OnChain
<1>5. CASE ~ \E why : Fail(r, why)
  <2>1. Resolve(r) \/ Step(r)
    BY <1>1, <1>2 DEF Next, AllDone
  <2>2. skipped' = skipped
    BY <1>5, <2>1
    DEF Step, Resolve, CheckTemplate, LoadTemplate, FetchTemplate, StoreTemplate,
        CreateNode, EnterSlot, Return, CheckRef, LoadRef, FetchRef, StoreRef, Follow
  <2> QED
    BY <2>2
<1> QED
  BY <1>4, <1>5

LEMMA CycleStep ==
    ASSUME IInv, NEW r \in Request, ContextOK(r), CycleOK(r), [Next]_vars
    PROVE  CycleOK(r)'
<1>1. NodesKept(r)
  <2>1. tree[r] \in Seq(Node) /\ Len(tree[r]) \in Nat
    BY DEF IInv, TypeOK
  <2> QED
    BY <2>1, TreeStep DEF NodeAdded, NodesKept, Nodes, SameButTodo
<1>2. SUFFICES ASSUME NEW s \in skipped'[r], s.why = "ref-cycle"
               PROVE  /\ s.parent \in Nodes(r)'
                      /\ ChildURL(r, s)' \in tree'[r][s.parent].seen
  BY DEF CycleOK
<1>3. /\ s.parent \in Nodes(r) /\ ChildURL(r, s) \in tree[r][s.parent].seen
  <2>1. CASE s \in skipped[r]
    BY <1>2, <2>1 DEF CycleOK
  <2>2. CASE s \notin skipped[r]
    <3>1. /\ pc[r] = "ref" /\ call[r].parent # 0
          /\ s.parent = call[r].parent /\ s.place = call[r].place
          /\ ResolveRef(call[r].ref, call[r].base) \in call[r].seen
      BY <1>2, <2>2, CycleFound
    <3>2. Active(r) /\ s.parent \in Nodes(r)
      BY <3>1, ParentInTree DEF Active
    <3>3. ForChild(r)
      BY <3>1, <3>2 DEF ContextOK
    <3> QED
      BY <3>1, <3>2, <3>3 DEF ForChild, RefLabel, InContext, ChildURL
  <2> QED
    BY <2>1, <2>2
<1>4. /\ s.parent \in Nodes(r)'
      /\ tree'[r][s.parent].desc = tree[r][s.parent].desc
      /\ tree'[r][s.parent].base = tree[r][s.parent].base
      /\ tree'[r][s.parent].seen = tree[r][s.parent].seen
  BY <1>1, <1>3 DEF NodesKept, SameButTodo
<1> QED
  BY <1>3, <1>4 DEF ChildURL

LEMMA CycleInvariance == Spec => []CycleInv
<1>1. Init => CycleInv
  BY DEF Init, CycleInv, CycleOK
<1>2. IInv /\ ContextInv /\ CycleInv /\ [Next]_vars => CycleInv'
  BY CycleStep DEF CycleInv, ContextInv
<1> QED
  BY <1>1, <1>2, Invariance, ContextInvariance, PTL DEF Spec

(* A slot is given up as a cycle only if its reference is followed by a    *)
(* node on its own path already, wherever else the resource is used.       *)
THEOREM CyclesAreReal == Spec => []NoFalseCycle
<1>1. AncestryInv /\ CycleInv => NoFalseCycle
  <2> SUFFICES ASSUME AncestryInv, CycleInv, NEW r \in Request,
                      NEW s \in skipped[r], s.why = "ref-cycle"
               PROVE  \E j \in Path2Root(r)[s.parent] :
                         ViaReference(r, j) /\ tree[r][j].base = ChildURL(r, s)
    BY DEF NoFalseCycle, ChildURL
  <2>1. s.parent \in Nodes(r) /\ ChildURL(r, s) \in tree[r][s.parent].seen
    BY DEF CycleInv, CycleOK
  <2>2. tree[r][s.parent].seen = Chain(r, Path2Root(r)[s.parent])
    BY <2>1, PathsOK DEF PathOK
  <2> QED
    BY <2>1, <2>2 DEF Chain
<1> QED
  BY <1>1, AncestryInvariance, CycleInvariance, PTL


-----------------------------------------------------------------------------
(* Resolver implements Composition: every step of a request either is      *)
(* invisible in the page or is a step that Composition allows, whatever    *)
(* the caches hold and whatever the other requests do.                     *)

(* Both modules extend Descriptors: its operators mean the same in both.   *)
LEMMA SameOperators ==
    /\ \A u : Promise!AsIdentity(u) = AsIdentity(u)
    /\ \A t, b : Promise!ResolveTemplateURI(t, b) = ResolveTemplateURI(t, b)
    /\ \A t, b : Promise!ResolveRef(t, b) = ResolveRef(t, b)
    /\ \A i, b, l : Promise!CheckTrusted(i, b, l) = CheckTrusted(i, b, l)
    /\ \A m, b : Promise!VerifyIntegrity(m, b) = VerifyIntegrity(m, b)
    /\ \A d : Promise!Places(d) = Places(d)
    /\ \A d, c : Promise!ChildAt(d, c) = ChildAt(d, c)
    /\ \A c, e : Promise!Precedes(c, e) = Precedes(c, e)
<1>1. \A u : Promise!AsIdentity(u) = AsIdentity(u)
  BY DEF AsIdentity, Promise!AsIdentity
<1>2. ASSUME NEW t, NEW b
      PROVE  Promise!ResolveTemplateURI(t, b) = ResolveTemplateURI(t, b)
  BY DEF ResolveTemplateURI, Promise!ResolveTemplateURI, AsIdentity, Promise!AsIdentity
<1>3. ASSUME NEW t, NEW b PROVE Promise!ResolveRef(t, b) = ResolveRef(t, b)
  BY DEF ResolveRef, Promise!ResolveRef, Front, Promise!Front
<1>4. ASSUME NEW i, NEW b, NEW l
      PROVE  Promise!CheckTrusted(i, b, l) = CheckTrusted(i, b, l)
  BY DEF CheckTrusted, Promise!CheckTrusted, Parse, Promise!Parse,
     ReadsAsAbsolute, Promise!ReadsAsAbsolute, SameOrigin, Promise!SameOrigin,
     Matches, Promise!Matches, Normalize, Promise!Normalize,
     TrimSlash, Promise!TrimSlash, IsPrefix, Promise!IsPrefix, Front, Promise!Front
<1>5. ASSUME NEW m, NEW b PROVE Promise!VerifyIntegrity(m, b) = VerifyIntegrity(m, b)
  BY DEF VerifyIntegrity, Promise!VerifyIntegrity, Consider, Promise!Consider,
     Rank, Promise!Rank, SriAlgorithm, Promise!SriAlgorithm, FoldLeft, Promise!FoldLeft,
     MapThenFoldSet, Promise!MapThenFoldSet, Max, Promise!Max
<1>6. \A d : Promise!Places(d) = Places(d)
  BY DEF Places, Promise!Places
<1>7. \A d, c : Promise!ChildAt(d, c) = ChildAt(d, c)
  BY DEF ChildAt, Promise!ChildAt
<1>8. \A c, e : Promise!Precedes(c, e) = Precedes(c, e)
  BY DEF Precedes, Promise!Precedes
<1> QED
  BY <1>1, <1>2, <1>3, <1>4, <1>5, <1>6, <1>7, <1>8

LEMMA PageViewIs ==
    ASSUME NEW r \in Request, tree[r] \in Seq(Node)
    PROVE  /\ PageView[r] \in Seq({Composite(n) : n \in Node})
           /\ Len(PageView[r]) = Len(tree[r])
           /\ \A i \in Nodes(r) : PageView[r][i] = Composite(tree[r][i])
<1>1. PageView[r] = [i \in 1 .. Len(tree[r]) |-> Composite(tree[r][i])]
  BY DEF PageView, Nodes
<1>2. \A i \in 1 .. Len(tree[r]) : Composite(tree[r][i]) \in {Composite(n) : n \in Node}
  OBVIOUS
<1>3. Len(tree[r]) \in Nat
  OBVIOUS
<1> QED
  BY <1>1, <1>2, <1>3 DEF Nodes

LEMMA CompositeFields ==
    \A n : /\ Composite(n).parent = n.parent /\ Composite(n).place = n.place
          /\ Composite(n).desc = n.desc /\ Composite(n).base = n.base
          /\ Composite(n).depth = n.depth /\ Composite(n).seen = n.seen
          /\ Composite(n).id = n.id /\ Composite(n).body = n.body
BY DEF Composite

LEMMA OutcomeIs ==
    ASSUME NEW r \in Request
    PROVE  /\ pc[r] = "idle" => Outcome[r] = "waiting"
           /\ pc[r] \notin {"idle", "done"} => Outcome[r] = "composing"
           /\ pc[r] = "done" =>
                Outcome[r] = IF result[r] = "ok" THEN "complete" ELSE "failed"
BY DEF Outcome

(* A child is settled in the page when it is placed or given up, and the   *)
(* one in hand is the next one to settle.                                  *)
LEMMA SettledView ==
    ASSUME IInv, NEW r \in Request, NEW i \in Nodes(r), NEW c
    PROVE  Promise!Settled(r, i, c) <=> Placed(r, i, c) \/ GivenUp(r, i, c)
<1>1. /\ Len(PageView[r]) = Len(tree[r])
      /\ \A j \in Nodes(r) : PageView[r][j] = Composite(tree[r][j])
  BY PageViewIs DEF IInv, TypeOK
<1>2. << i, c >> \in MissingView[r] <=> GivenUp(r, i, c)
  BY DEF MissingView, GivenUp, Fills
<1>3. (\E j \in 1 .. Len(PageView[r]) :
         PageView[r][j].parent = i /\ PageView[r][j].place = c) <=> Placed(r, i, c)
  BY <1>1, CompositeFields DEF Placed, Fills, Nodes
<1> QED
  BY <1>2, <1>3 DEF Promise!Settled

LEMMA NextInHand ==
    ASSUME IInv, NEW r \in Request, ChildrenOK(r), Active(r), call[r].parent # 0
    PROVE  /\ call[r].parent \in Nodes(r)
           /\ call[r].place \in Places(tree[r][call[r].parent].desc)
           /\ Promise!NextChild(r, call[r].parent, call[r].place)
<1> DEFINE i == call[r].parent
           c == call[r].place
<1>1. i \in Nodes(r)
  BY ParentInTree
<1>2. c \in Places(tree[r][i].desc) /\ InHand(r, i, c)
  BY DEF ChildrenOK, InHand, Fills
<1>3. tree[r] \in Seq(Node) /\ tree[r][i] \in Node
  BY <1>1 DEF IInv, TypeOK, Nodes
<1>4. PageView[r][i].desc = tree[r][i].desc
  BY <1>1, <1>3, PageViewIs, CompositeFields
<1>5. ~Promise!Settled(r, i, c)
  BY <1>1, <1>2, SettledView DEF ChildrenOK, ChildOK
<1>6. ASSUME NEW e \in Places(tree[r][i].desc), Precedes(e, c)
      PROVE  Promise!Settled(r, i, e)
  <2>1. e \in Place /\ c \in Place
    BY <1>2, <1>3, PlacesType DEF Node
  <2>2. ~Precedes(c, e)
    BY <1>6, <2>1 DEF Precedes, Place, SlotName
  <2>3. c # e
    BY <1>6, <2>2
  <2>4. e \notin tree[r][i].todo
    BY <1>1, <1>2, <2>2 DEF ChildrenOK, ChildOK
  <2>5. ~InHand(r, i, e)
    BY <2>3 DEF InHand, Fills
  <2> QED
    BY <1>1, <2>4, <2>5, SettledView DEF ChildrenOK, ChildOK
<1>7. Promise!NextChild(r, i, c)
  BY <1>2, <1>4, <1>5, <1>6, SameOperators DEF Promise!NextChild
<1> QED
  BY <1>1, <1>2, <1>7

-----------------------------------------------------------------------------
(* What a step of request r does to the views.                             *)

Quiet(r) == \A q \in Request \ {r} : Unmoved(q)

LEMMA ViewStep ==
    ASSUME NEW r \in Request, Quiet(r)
    PROVE  /\ PageView' = [PageView EXCEPT ![r] = PageView'[r]]
           /\ MissingView' = [MissingView EXCEPT ![r] = MissingView'[r]]
           /\ Outcome' = [Outcome EXCEPT ![r] = Outcome'[r]]
<1>1. \A q \in Request \ {r} : PageView'[q] = PageView[q]
  BY DEF Quiet, Unmoved, PageView, Nodes
<1>2. \A q \in Request \ {r} : MissingView'[q] = MissingView[q]
  BY DEF Quiet, Unmoved, MissingView
<1>3. ASSUME NEW q \in Request \ {r} PROVE Outcome'[q] = Outcome[q]
  BY DEF Quiet, Unmoved, Outcome
<1>4. PageView' = [q \in Request |-> PageView'[q]]
      /\ PageView = [q \in Request |-> PageView[q]]
  BY DEF PageView
<1>5. MissingView' = [q \in Request |-> MissingView'[q]]
      /\ MissingView = [q \in Request |-> MissingView[q]]
  BY DEF MissingView
<1>6. Outcome' = [q \in Request |-> Outcome'[q]]
      /\ Outcome = [q \in Request |-> Outcome[q]]
  BY DEF Outcome
<1> QED
  BY <1>1, <1>2, <1>3, <1>4, <1>5, <1>6

(* What does not change in the tree, the skips and the outcome of r does   *)
(* not change in the views.                                                *)
LEMMA SameViews ==
    ASSUME NEW r \in Request, Quiet(r)
    PROVE  /\ tree'[r] = tree[r] => PageView' = PageView
           /\ skipped'[r] = skipped[r] => MissingView' = MissingView
           /\ Outcome'[r] = Outcome[r] => Outcome' = Outcome
<1>1. ASSUME tree'[r] = tree[r] PROVE PageView'[r] = PageView[r]
  BY <1>1 DEF PageView, Nodes
<1>2. ASSUME skipped'[r] = skipped[r] PROVE MissingView'[r] = MissingView[r]
  BY <1>2 DEF MissingView
<1>3. /\ PageView = [q \in Request |-> PageView[q]]
      /\ MissingView = [q \in Request |-> MissingView[q]]
      /\ Outcome = [q \in Request |-> Outcome[q]]
  BY DEF PageView, MissingView, Outcome
<1> QED
  BY <1>1, <1>2, <1>3, ViewStep

LEMMA OutcomeStep ==
    ASSUME NEW r \in Request
    PROVE  /\ pc'[r] = "idle" => Outcome'[r] = "waiting"
           /\ pc'[r] \notin {"idle", "done"} => Outcome'[r] = "composing"
           /\ pc'[r] = "done" =>
                Outcome'[r] = IF result'[r] = "ok" THEN "complete" ELSE "failed"
BY DEF Outcome

LEMMA AppendView ==
    ASSUME NEW r \in Request, tree[r] \in Seq(Node), NEW n \in Node,
           tree'[r] = Append(tree[r], n)
    PROVE  PageView'[r] = Append(PageView[r], Composite(n))
<1>1. /\ Len(tree'[r]) = Len(tree[r]) + 1 /\ Len(tree[r]) \in Nat
      /\ \A i \in 1 .. Len(tree[r]) : tree'[r][i] = tree[r][i]
      /\ tree'[r][Len(tree[r]) + 1] = n
  OBVIOUS
<1>2. /\ PageView[r] \in Seq({Composite(m) : m \in Node})
      /\ Len(PageView[r]) = Len(tree[r])
      /\ \A i \in 1 .. Len(tree[r]) : PageView[r][i] = Composite(tree[r][i])
  BY PageViewIs DEF Nodes
<1>3. PageView'[r] = [i \in 1 .. Len(tree[r]) + 1 |-> Composite(tree'[r][i])]
  BY <1>1 DEF PageView, Nodes
<1>4. \A i \in 1 .. Len(tree[r]) + 1 :
        Composite(tree'[r][i]) =
          IF i <= Len(tree[r]) THEN PageView[r][i] ELSE Composite(n)
  BY <1>1, <1>2
<1> QED
  BY <1>1, <1>2, <1>3, <1>4, SMTT(30)

(* What a request creates may stand in the page.                           *)
LEMMA AddsNode ==
    ASSUME IInv, NEW r \in Request, ContextOK(r), Created(r), Quiet(r),
           NEW n \in Node, MadeOf(n, call[r]), tree'[r] = Append(tree[r], n)
    PROVE  Promise!AddNode(r, Composite(n)) /\ Outcome[r] = "composing"
<1>1. /\ Checked(call[r]) /\ Verified(call[r])
      /\ \/ Descriptor[call[r].desc].mapper = None
         \/ Descriptor[call[r].desc].mapper \in Mappers
  BY DEF ContextOK, Created
<1>2. Promise!Permitted(Composite(n))
  <2> DEFINE m == Composite(n)
  <2>1. /\ m.desc = call[r].desc /\ m.base = call[r].base /\ m.depth = call[r].depth
        /\ m.id = call[r].id /\ m.body = call[r].body
    BY CompositeFields DEF MadeOf
  <2> HIDE DEF m
  <2>2. m.depth < MaxDepth /\ m.id # None
    <3>1. call[r].depth < MaxDepth /\ call[r].id # None
      BY <1>1 DEF Checked
    <3> QED
      BY <2>1, <3>1
  <2>3. /\ Promise!CheckTrusted(m.id, m.base, Allowlist)
        /\ Promise!VerifyIntegrity(Descriptor[m.desc].integrity, m.body)
    <3>1. /\ CheckTrusted(call[r].id, call[r].base, Allowlist)
          /\ VerifyIntegrity(Descriptor[call[r].desc].integrity, call[r].body)
      BY <1>1 DEF Checked, Verified
    <3>2. /\ Promise!CheckTrusted(call[r].id, call[r].base, Allowlist)
          /\ Promise!VerifyIntegrity(Descriptor[call[r].desc].integrity, call[r].body)
      BY <3>1, SameOperators
    <3> QED
      BY <2>1, <3>2
  <2>4. Promise!Permitted(m)
    BY <1>1, <2>1, <2>2, <2>3 DEF Promise!Permitted
  <2> QED
    BY <2>4 DEF m
<1>3. PageView' = [PageView EXCEPT ![r] = Append(PageView[r], Composite(n))]
  <2>1. tree[r] \in Seq(Node)
    BY DEF IInv, TypeOK
  <2>2. PageView'[r] = Append(PageView[r], Composite(n))
    BY <2>1, AppendView
  <2> QED
    BY <2>2, ViewStep
<1>4. Outcome[r] = "composing" /\ Outcome'[r] = "composing"
  BY OutcomeIs, OutcomeStep DEF Created
<1>5. MissingView' = MissingView /\ Outcome' = Outcome
  BY <1>4, SameViews DEF Created
<1> QED
  BY <1>2, <1>3, <1>4, <1>5 DEF Promise!AddNode

LEMMA CreatedStep ==
    ASSUME IInv, ValidInv, NEW r \in Request, ContextOK(r), ChildrenOK(r),
           Created(r), Quiet(r)
    PROVE  Promise!PlaceRoot(r) \/ Promise!PlaceInline(r) \/ Promise!PlaceReferenced(r)
<1> DEFINE a == call[r]
           i == call[r].parent
           c == call[r].place
<1>1. PICK n \in Node : MadeOf(n, a) /\ tree'[r] = Append(tree[r], n)
  BY DEF Created
<1>2. Promise!AddNode(r, Composite(n)) /\ Outcome[r] = "composing"
  BY <1>1, AddsNode
<1>3. /\ pc[r] = "verify" /\ Active(r) /\ Checked(a)
      /\ a.desc \in Desc \ Malformed /\ a.body \in Body
  BY DEF Created, Active, ContextOK, IInv, WalkOK, ActivationOK, ValidInv, CallValid
<1>4. tree[r] \in Seq(Node)
  BY DEF IInv, TypeOK
<1>5. Composite(n) = [parent |-> i, place |-> c, desc |-> a.desc, base |-> a.base,
                      depth |-> a.depth, seen |-> a.seen,
                      id |-> Promise!ResolveTemplateURI(
                               Descriptor[a.desc].template, a.base),
                      body |-> a.body]
  BY <1>1, <1>3, SameOperators DEF Composite, MadeOf, Checked
<1>6. CASE i = 0
  <2>1. ForRoot(r)
    BY <1>3, <1>6 DEF ContextOK
  <2>2. PageView[r] = << >>
    <3>1. 1 .. Len(tree[r]) = {}
      BY <2>1 DEF ForRoot
    <3> QED
      BY <3>1 DEF PageView, Nodes
  <2>3. Composite(n) =
          Promise!Composed(0, None, Root[r], Promise!RootContext(r), a.body)
    BY <1>5, <1>6, <2>1
    DEF ForRoot, InContext, Promise!Composed, Promise!RootContext
  <2> QED
    BY <1>2, <1>3, <2>2, <2>3 DEF Promise!PlaceRoot
<1>7. CASE i # 0
  <2> DEFINE p == tree[r][i]
             v == PageView[r][i]
             child == ChildAt(p.desc, c)
             url == ResolveRef(child.ref, p.base)
  <2>1. /\ i \in Nodes(r) /\ c \in Places(p.desc) /\ Promise!NextChild(r, i, c)
    BY <1>3, <1>7, NextInHand
  <2>2. /\ i \in 1 .. Len(PageView[r]) /\ v.desc = p.desc /\ v.base = p.base
        /\ v.depth = p.depth /\ v.seen = p.seen
    BY <1>4, <2>1, PageViewIs, CompositeFields DEF Nodes
  <2>3. /\ c \in Promise!Places(v.desc) /\ Promise!ChildAt(v.desc, c) = child
        /\ Promise!ResolveRef(child.ref, v.base) = url
    BY <2>1, <2>2, SameOperators
  <2>4. ForChild(r)
    BY <1>3, <1>7 DEF ContextOK
  <2> HIDE DEF v
  <2>5. CASE child.ref = None
    <3>1. a.desc = child.desc /\ InContext(a, p.base, p.depth + 1, p.seen)
      BY <1>3, <2>4, <2>5 DEF ForChild, TemplateLabel
    <3>2. Composite(n) =
            Promise!Composed(i, c, child.desc, Promise!InlineContext(v), a.body)
      BY <1>5, <2>2, <3>1 DEF InContext, Promise!Composed, Promise!InlineContext
    <3> HIDE DEF child
    <3> QED
      BY <1>2, <1>3, <2>1, <2>2, <2>3, <2>5, <3>2 DEF Promise!PlaceInline, v
  <2>6. CASE child.ref # None
    <3>1. Follows(p, url) /\ InContext(a, url, p.depth + 2, p.seen \cup {url})
      BY <1>3, <2>4, <2>6 DEF ForChild, TemplateLabel
    <3>2. Composite(n) =
            Promise!Composed(i, c, a.desc, Promise!RefContext(v, url), a.body)
      BY <1>5, <2>2, <3>1 DEF InContext, Promise!Composed, Promise!RefContext
    <3>3. Promise!MayFollow(v, url)
      BY <2>2, <3>1, SameOperators DEF Follows, Promise!MayFollow
    <3> HIDE DEF child, url
    <3> QED
      BY <1>2, <1>3, <2>1, <2>2, <2>3, <2>6, <3>2, <3>3 DEF Promise!PlaceReferenced, v
  <2> QED
    BY <2>5, <2>6
<1> QED
  BY <1>6, <1>7

LEMMA FailedStep ==
    ASSUME IInv, NEW r \in Request, ContextOK(r), ChildrenOK(r), Failed(r), Quiet(r)
    PROVE  Promise!FailPage(r) \/ Promise!LeaveOut(r)
<1>0. Active(r) /\ tree'[r] = tree[r] /\ tree[r] \in Seq(Node)
  BY DEF Failed, IInv, TypeOK
<1>1. PageView' = PageView
  BY <1>0, SameViews
<1>2. CASE call[r].parent = 0
  <2>1. 1 .. Len(tree[r]) = {}
    BY <1>0, <1>2 DEF ContextOK, ForRoot
  <2>2. PageView[r] = << >>
    BY <2>1 DEF PageView, Nodes
  <2>3. Outcome[r] \in {"waiting", "composing"} /\ Outcome'[r] = "failed"
    BY <1>0, <1>2, OutcomeIs, OutcomeStep DEF Failed, Active, Reason
  <2>4. Outcome' = [Outcome EXCEPT ![r] = "failed"] /\ MissingView' = MissingView
    BY <1>2, <2>3, ViewStep, SameViews DEF Failed
  <2> QED
    BY <1>1, <2>2, <2>3, <2>4 DEF Promise!FailPage
<1>3. CASE call[r].parent # 0
  <2> DEFINE i == call[r].parent
             c == call[r].place
  <2>1. /\ i \in Nodes(r) /\ c \in Places(tree[r][i].desc)
        /\ Promise!NextChild(r, i, c)
    BY <1>0, <1>3, NextInHand
  <2>2. i \in 1 .. Len(PageView[r]) /\ c \in Promise!Places(PageView[r][i].desc)
    BY <1>0, <2>1, PageViewIs, CompositeFields, SameOperators DEF Nodes
  <2>3. PICK s : skipped'[r] = skipped[r] \cup {s} /\ s.parent = i /\ s.place = c
    BY <1>3 DEF Failed
  <2>4. MissingView'[r] = MissingView[r] \cup {<< i, c >>}
    BY <2>3 DEF MissingView
  <2>5. MissingView' = [MissingView EXCEPT ![r] = MissingView[r] \cup {<< i, c >>}]
    BY <2>4, ViewStep
  <2>6. Outcome[r] = "composing" /\ Outcome'[r] = "composing"
    BY <1>0, <1>3, OutcomeIs, OutcomeStep DEF Failed, Active, ContextOK
  <2>7. Outcome' = Outcome
    BY <2>6, SameViews
  <2> QED
    BY <1>1, <2>1, <2>2, <2>5, <2>6, <2>7 DEF Promise!LeaveOut
<1> QED
  BY <1>2, <1>3

(* The root's loop is over: every child of every node has been settled.    *)
LEMMA CompletedStep ==
    ASSUME IInv, NEW r \in Request, ChildrenOK(r), StackOK(r), Returned(r),
           tree[r][node[r]].parent = 0, Quiet(r)
    PROVE  Promise!Complete(r)
<1>0. /\ pc[r] = "slots" /\ node[r] \in 1 .. Len(tree[r]) /\ tree[r] \in Seq(Node)
  BY DEF Returned, IInv, TypeOK, WalkOK, TreeOK
<1>1. \A i \in Nodes(r) : tree[r][i].todo = {}
  BY <1>0, RootReturnsLast DEF Returned
<1>2. ASSUME NEW i \in Nodes(r), NEW c \in Places(tree[r][i].desc)
      PROVE  Promise!Settled(r, i, c)
  BY <1>0, <1>1, SettledView DEF ChildrenOK, ChildOK, InHand, Active
<1>3. \A i \in 1 .. Len(PageView[r]) :
        \A c \in Promise!Places(PageView[r][i].desc) : Promise!Settled(r, i, c)
  BY <1>0, <1>2, PageViewIs, CompositeFields, SameOperators DEF Nodes
<1>4. PageView[r] # << >>
  <2>1. Len(PageView[r]) # 0
    <3>1. Len(PageView[r]) = Len(tree[r])
      BY <1>0, PageViewIs, Zenon
    <3>2. Len(tree[r]) # 0
      BY <1>0
    <3> QED
      BY <3>1, <3>2
  <2> QED
    BY <2>1
<1>5. Outcome[r] = "composing" /\ Outcome'[r] = "complete"
  BY <1>0, OutcomeIs, OutcomeStep DEF Returned
<1>6. /\ Outcome' = [Outcome EXCEPT ![r] = "complete"]
      /\ PageView' = PageView /\ MissingView' = MissingView
  BY <1>5, ViewStep, SameViews DEF Returned
<1> QED
  BY <1>3, <1>4, <1>5, <1>6 DEF Promise!Complete

(* Fetches, cache hits, checks passed, slots entered and the returns below *)
(* the root do not show.                                                   *)
LEMMA HiddenStep ==
    ASSUME IInv, NEW r \in Request, Quiet(r),
           \/ Unmoved(r) \/ Entered(r)
           \/ (Moved(r) /\ pc[r] # "idle")
           \/ (Returned(r) /\ tree[r][node[r]].parent # 0)
    PROVE  UNCHANGED Promise!vars
<1>1. CASE Unmoved(r)
  <2>1. Outcome'[r] = Outcome[r]
    BY <1>1 DEF Unmoved, Outcome
  <2> QED
    BY <1>1, <2>1, SameViews DEF Unmoved, Promise!vars
<1>2. CASE Moved(r) /\ pc[r] # "idle"
  <2>1. Outcome[r] = "composing" /\ Outcome'[r] = "composing"
    BY <1>2, OutcomeIs, OutcomeStep DEF Moved, Active
  <2> QED
    BY <1>2, <2>1, SameViews DEF Moved, Promise!vars
<1>3. CASE Returned(r) /\ tree[r][node[r]].parent # 0
  <2>1. Outcome[r] = "composing" /\ Outcome'[r] = "composing"
    BY <1>3, OutcomeIs, OutcomeStep DEF Returned
  <2> QED
    BY <1>3, <2>1, SameViews DEF Returned, Promise!vars
<1>4. CASE Entered(r)
  <2> DEFINE p == tree[r][node[r]]
  <2>1. /\ tree[r] \in Seq(Node) /\ node[r] \in 1 .. Len(tree[r])
        /\ p \in Node
    <3>1. /\ tree[r] \in Seq(Node) /\ node[r] \in Nat
          /\ node[r] <= Len(tree[r]) /\ node[r] # 0
      BY <1>4 DEF Entered, IInv, TypeOK, WalkOK, TreeOK
    <3> QED
      BY <3>1
  <2>2. PICK c \in p.todo :
          tree'[r] = [tree[r] EXCEPT ![node[r]] = [p EXCEPT !.todo = p.todo \ {c}]]
    BY <1>4 DEF Entered
  <2> DEFINE m == [p EXCEPT !.todo = p.todo \ {c}]
  <2>3. Composite(m) = Composite(p) /\ tree'[r] = [tree[r] EXCEPT ![node[r]] = m]
    BY <2>1, <2>2 DEF Composite, Node
  <2> HIDE DEF m
  <2>4. /\ Len(tree'[r]) = Len(tree[r])
        /\ \A i \in 1 .. Len(tree[r]) : Composite(tree'[r][i]) = Composite(tree[r][i])
    BY <2>1, <2>3
  <2>5. PageView'[r] = PageView[r]
    BY <2>4 DEF PageView, Nodes
  <2>6. PageView = [q \in Request |-> PageView[q]]
    BY DEF PageView
  <2>7. PageView' = PageView
    BY <2>5, <2>6, ViewStep
  <2>8. Outcome[r] = "composing" /\ Outcome'[r] = "composing"
    BY <1>4, OutcomeIs, OutcomeStep DEF Entered
  <2>9. skipped'[r] = skipped[r]
    BY <1>4 DEF Entered
  <2> QED
    BY <2>7, <2>8, <2>9, SameViews DEF Promise!vars
<1> QED
  BY <1>1, <1>2, <1>3, <1>4

LEMMA BeginStep ==
    ASSUME IInv, NEW r \in Request, Moved(r), pc[r] = "idle",
           Resolve(r) \/ Step(r), Quiet(r)
    PROVE  Promise!Begin(r)
<1>1. Resolve(r)
  BY DEF Step, CheckTemplate, LoadTemplate, FetchTemplate, StoreTemplate, CreateNode,
     EnterSlot, Return, CheckRef, LoadRef, FetchRef, StoreRef
<1>2. Root[r] \notin Malformed
  BY <1>1 DEF Resolve, Fail, Goto, Moved, Active, IInv, TypeOK
<1>3. Outcome[r] = "waiting" /\ Outcome'[r] = "composing"
  BY OutcomeIs, OutcomeStep DEF Moved, Active
<1>4. /\ Outcome' = [Outcome EXCEPT ![r] = "composing"]
      /\ PageView' = PageView /\ MissingView' = MissingView
  BY <1>3, ViewStep, SameViews DEF Moved
<1> QED
  BY <1>2, <1>3, <1>4 DEF Promise!Begin

-----------------------------------------------------------------------------
(* Resolve composes pages as Composition promises: for every set of        *)
(* requests, every graph of descriptors, any servers and any interleaving, *)
(* each step of the resolver is a step of the promise or shows nothing.    *)
THEOREM PromiseKept == Spec => KeepsPromise
<1>1. Init => Promise!Init
  <2> SUFFICES ASSUME Init PROVE Promise!Init
    OBVIOUS
  <2>1. PageView = [r \in Request |-> << >>]
    <3>1. ASSUME NEW r \in Request PROVE [i \in Nodes(r) |-> Composite(tree[r][i])] = << >>
      <4>1. Nodes(r) = {}
        BY DEF Init, Nodes
      <4> QED
        BY <4>1
    <3> QED
      BY <3>1 DEF PageView
  <2>2. MissingView = [r \in Request |-> {}]
    BY DEF Init, MissingView
  <2>3. \A r \in Request : Outcome[r] = "waiting"
    BY OutcomeIs DEF Init
  <2>4. Outcome = [r \in Request |-> "waiting"]
    BY <2>3 DEF Outcome
  <2> QED
    BY <2>1, <2>2, <2>4 DEF Promise!Init
<1>2. IInv /\ ValidInv /\ WalkInv /\ ContextInv /\ [Next]_vars
        => [Promise!Next]_(Promise!vars)
  <2> SUFFICES ASSUME IInv, ValidInv, WalkInv, ContextInv, [Next]_vars
               PROVE  Promise!Next \/ UNCHANGED Promise!vars
    OBVIOUS
  <2>1. CASE UNCHANGED vars
    BY <2>1 DEF vars, Promise!vars, PageView, MissingView, Outcome, Nodes
  <2>2. ASSUME NEW r \in Request, Resolve(r) \/ Step(r)
        PROVE  Promise!Next \/ UNCHANGED Promise!vars
    <3>1. Quiet(r)
      BY <2>2, OthersUnmoved DEF Quiet
    <3>2. ChildrenOK(r) /\ StackOK(r) /\ ContextOK(r)
      BY DEF WalkInv, ContextInv
    <3>3. CASE Failed(r)
      BY <3>1, <3>2, <3>3, FailedStep DEF Promise!Next
    <3>4. CASE Created(r)
      BY <3>1, <3>2, <3>4, CreatedStep DEF Promise!Next
    <3>5. CASE Returned(r) /\ tree[r][node[r]].parent = 0
      BY <3>1, <3>2, <3>5, CompletedStep DEF Promise!Next
    <3>6. CASE Moved(r) /\ pc[r] = "idle"
      BY <2>2, <3>1, <3>6, BeginStep DEF Promise!Next
    <3>7. CASE \/ Unmoved(r) \/ Entered(r)
               \/ (Moved(r) /\ pc[r] # "idle")
               \/ (Returned(r) /\ tree[r][node[r]].parent # 0)
      BY <3>1, <3>7, HiddenStep
    <3> QED
      BY <3>3, <3>4, <3>5, <3>6, <3>7, StepKinds
  <2> QED
    BY <2>1, <2>2 DEF Next, AllDone
<1> QED
  BY <1>1, <1>2, Invariance, ValidInvariance, WalkInvariance, ContextInvariance, PTL
  DEF Spec, KeepsPromise, Promise!Spec

-----------------------------------------------------------------------------
(* The answers.                                                            *)

Announced(r) == RootOutcomes(Root[r], RootBase[r], Allowlist, Mappers)
RootId(r) == ResolveTemplateURI(Descriptor[Root[r]].template, RootBase[r])

(* The activation in progress is the one Resolve began with.               *)
AtRoot(r) == pc[r] \notin {"slots", "done"} /\ call[r].parent = 0

PassedByRoot(r) ==
    /\ pc[r] \in {"idle", "resolve", "load", "fetch", "store", "verify"}
    /\ call[r].desc = Root[r] /\ call[r].base = RootBase[r] /\ call[r].depth = 0
    /\ pc[r] # "idle" => Root[r] \notin Malformed
    /\ pc[r] \in {"load", "fetch", "store", "verify"} =>
         /\ call[r].id = RootId(r) /\ RootId(r) # None
         /\ CheckTrusted(RootId(r), RootBase[r], Allowlist)
    /\ pc[r] \in {"fetch", "store", "verify"} => FetchAllowed(FetchURL(RootId(r)))

AnswerOK(r) ==
    /\ pc[r] = "idle" => call[r] = RootActivation(r)
    /\ AtRoot(r) => PassedByRoot(r)
    /\ tree[r] # << >> => "ok" \in Announced(r)
    /\ result[r] # "none" => result[r] \in Announced(r)

AnswerInv == \A r \in Request : AnswerOK(r)

(* The root is never too deep: the depth limit is at least one.            *)
LEMMA RootNotTooDeep == ~TooDeep(0)
BY ResolverAssumption DEF TooDeep, MaxDepth, DefaultMaxDepth

(* Which answers the checks of the root leave possible.                    *)
LEMMA AnnouncedByChecks ==
    ASSUME NEW r \in Request
    PROVE  /\ Root[r] \in Malformed => "malformed" \in Announced(r)
           /\ Root[r] \notin Malformed =>
                /\ RootId(r) = None => "no-base" \in Announced(r)
                /\ RootId(r) # None =>
                     /\ ~CheckTrusted(RootId(r), RootBase[r], Allowlist)
                          => "rejected" \in Announced(r)
                     /\ CheckTrusted(RootId(r), RootBase[r], Allowlist)
                          => Announced(r) =
                               FetchOutcomes(Root[r], RootId(r), Mappers)
BY DEF Announced, RootOutcomes, RootId

(* Which answers the fetched body leaves possible.                         *)
LEMMA AnnouncedByBody ==
    ASSUME NEW d, NEW id, NEW b \in Body
    PROVE  /\ "fetch" \in FetchOutcomes(d, id, Mappers)
           /\ FetchAllowed(FetchURL(id)) =>
                /\ ~VerifyIntegrity(Descriptor[d].integrity, b)
                     => "integrity-failed" \in FetchOutcomes(d, id, Mappers)
                /\ VerifyIntegrity(Descriptor[d].integrity, b) =>
                     IF Descriptor[d].mapper = None \/ Descriptor[d].mapper \in Mappers
                     THEN "ok" \in FetchOutcomes(d, id, Mappers)
                     ELSE "mapper-unknown" \in FetchOutcomes(d, id, Mappers)
<1> DEFINE verified == {c \in Body : VerifyIntegrity(Descriptor[d].integrity, c)}
<1>1. VerifyIntegrity(Descriptor[d].integrity, b) => verified # {}
  OBVIOUS
<1>2. ~VerifyIntegrity(Descriptor[d].integrity, b) => verified # Body
  OBVIOUS
<1> HIDE DEF verified
<1>3. FetchOutcomes(d, id, Mappers) =
        {"fetch"} \cup
        IF ~FetchAllowed(FetchURL(id)) THEN {}
        ELSE {o \in {"integrity-failed", "mapper-unknown", "ok"} :
                CASE o = "integrity-failed" -> verified # Body
                  [] o = "mapper-unknown" -> verified # {}
                       /\ ~(Descriptor[d].mapper \in Mappers \cup {None})
                  [] o = "ok" -> verified # {}
                       /\ Descriptor[d].mapper \in Mappers \cup {None}}
  BY DEF FetchOutcomes, verified
<1> QED
  BY <1>1, <1>2, <1>3

-----------------------------------------------------------------------------
(* An activation that fails: at the root, with an announced answer.        *)
LEMMA FailAnswer ==
    ASSUME IInv, NEW r \in Request, AnswerOK(r), NEW why, Fail(r, why),
           call[r].parent = 0 => why \in Announced(r)
    PROVE  AnswerOK(r)'
<1>1. /\ pc'[r] \in {"slots", "done"} /\ tree'[r] = tree[r]
      /\ result'[r] = IF call[r].parent = 0 THEN why ELSE result[r]
  BY DEF Fail, Goto, IInv, TypeOK
<1> QED
  BY <1>1 DEF AnswerOK, AtRoot, Announced

(* An activation that goes on, with the checks it has passed by then.      *)
LEMMA MoveAnswer ==
    ASSUME NEW r \in Request, AnswerOK(r),
           pc[r] \notin {"slots", "done"}, pc'[r] # "idle",
           call'[r].parent = call[r].parent,
           tree'[r] = tree[r], result'[r] = result[r],
           AtRoot(r) => PassedByRoot(r)'
    PROVE  AnswerOK(r)'
BY DEF AnswerOK, AtRoot, Announced

LEMMA AnswerStep ==
    ASSUME IInv, SecureInv, NEW r \in Request, AnswerOK(r), [Next]_vars
    PROVE  AnswerOK(r)'
<1> DEFINE d == Descriptor[Root[r]]
<1>0. /\ call[r] \in Activation /\ call \in [Request -> Activation]
      /\ pc \in [Request -> Label] /\ tree \in [Request -> Seq(Node)]
      /\ result \in [Request -> {"none", "ok"} \cup Reason]
      /\ AtRoot(r) => PassedByRoot(r)
  BY DEF IInv, TypeOK, AnswerOK
<1>1. ASSUME pc'[r] = pc[r], call'[r] = call[r], result'[r] = result[r],
             Len(tree'[r]) = Len(tree[r]), tree'[r] \in Seq(Node)
      PROVE  AnswerOK(r)'
  <2>1. tree'[r] = << >> <=> tree[r] = << >>
    BY <1>0, <1>1
  <2> QED
    BY <1>1, <2>1 DEF AnswerOK, AtRoot, PassedByRoot, Announced, RootActivation,
       NewActivation, RootId
<1>2. ASSUME NEW q \in Request, q # r, Resolve(q) \/ Step(q) PROVE AnswerOK(r)'
  <2>1. pc'[r] = pc[r] /\ call'[r] = call[r] /\ result'[r] = result[r]
    BY <1>0, <1>2 DEF Resolve, Step, Fail, Goto, Follow, CheckTemplate, LoadTemplate,
       FetchTemplate, StoreTemplate, CreateNode, EnterSlot, Return, CheckRef,
       LoadRef, FetchRef, StoreRef
  <2>2. tree'[r] = tree[r]
    <3>1. tree' = tree \/ (\E x : tree' = [tree EXCEPT ![q] = x]) \/ EnterSlot(q)
      BY <1>2 DEF Resolve, Step, Fail, Follow, CheckTemplate, LoadTemplate,
         FetchTemplate, StoreTemplate, CreateNode, Return, CheckRef, LoadRef,
         FetchRef, StoreRef
    <3>2. CASE EnterSlot(q)
      BY <1>0, <1>2, <3>2 DEF EnterSlot
    <3> QED
      BY <1>0, <1>2, <3>1, <3>2
  <2> QED
    BY <1>0, <1>1, <2>1, <2>2
<1>3. CASE Resolve(r)
  <2>0. pc[r] = "idle" /\ call[r] = RootActivation(r)
    BY <1>3 DEF Resolve, AnswerOK
  <2>1. CASE Root[r] \in Malformed
    BY <1>3, <2>1, FailAnswer, AnnouncedByChecks DEF Resolve
  <2>2. CASE Root[r] \notin Malformed
    <3>1. /\ pc'[r] = "resolve" /\ call'[r] = call[r] /\ tree'[r] = tree[r]
          /\ result'[r] = result[r]
      BY <1>0, <1>3, <2>2 DEF Resolve, Goto
    <3>2. PassedByRoot(r)'
      BY <2>0, <2>2, <3>1 DEF PassedByRoot, RootActivation, NewActivation
    <3> QED
      BY <2>0, <3>1, <3>2, MoveAnswer
  <2> QED
    BY <2>1, <2>2
<1>4. CASE CheckTemplate(r)
  <2> DEFINE a == call[r]
             id == ResolveTemplateURI(Descriptor[a.desc].template, a.base)
  <2>0. pc[r] = "resolve"
    BY <1>4 DEF CheckTemplate
  <2>1. a.parent = 0 => /\ PassedByRoot(r) /\ id = RootId(r) /\ ~TooDeep(a.depth)
                        /\ Root[r] \notin Malformed /\ a.base = RootBase[r]
    BY <1>0, <2>0, RootNotTooDeep DEF AtRoot, PassedByRoot, RootId
  <2> HIDE DEF id
  <2>2. CASE TooDeep(a.depth)
    BY <1>4, <2>1, <2>2, FailAnswer DEF CheckTemplate
  <2>3. CASE ~TooDeep(a.depth) /\ id = None
    BY <1>4, <2>1, <2>3, FailAnswer, AnnouncedByChecks DEF CheckTemplate, id
  <2>4. CASE ~TooDeep(a.depth) /\ id # None /\ ~CheckTrusted(id, a.base, Allowlist)
    BY <1>4, <2>1, <2>4, FailAnswer, AnnouncedByChecks DEF CheckTemplate, id
  <2>5. CASE ~TooDeep(a.depth) /\ id # None /\ CheckTrusted(id, a.base, Allowlist)
    <3>1. /\ pc'[r] = "load" /\ call' = [call EXCEPT ![r] = [a EXCEPT !.id = id]]
          /\ tree'[r] = tree[r] /\ result'[r] = result[r]
      BY <1>0, <1>4, <2>5 DEF CheckTemplate, Goto, id
    <3>2. /\ call'[r].parent = a.parent /\ call'[r].desc = a.desc
          /\ call'[r].base = a.base /\ call'[r].depth = a.depth /\ call'[r].id = id
      BY <1>0, <3>1 DEF Activation
    <3>3. AtRoot(r) => PassedByRoot(r)'
      BY <2>1, <2>5, <3>1, <3>2 DEF AtRoot, PassedByRoot, RootId
    <3> QED
      BY <2>0, <3>1, <3>2, <3>3, MoveAnswer
  <2> QED
    BY <2>2, <2>3, <2>4, <2>5
<1>5. CASE LoadTemplate(r)
  <2>0. pc[r] = "load"
    BY <1>5 DEF LoadTemplate
  <2>1. CASE Cached(call[r])
    <3>1. /\ pc'[r] = "verify" /\ tree'[r] = tree[r] /\ result'[r] = result[r]
          /\ call' = [call EXCEPT ![r] =
               [call[r] EXCEPT !.body = cache[Key(call[r])], !.kind = "cached"]]
      BY <1>0, <1>5, <2>1 DEF LoadTemplate, Goto
    <3>2. /\ call'[r].parent = call[r].parent /\ call'[r].desc = call[r].desc
          /\ call'[r].base = call[r].base /\ call'[r].depth = call[r].depth
          /\ call'[r].id = call[r].id
      BY <1>0, <3>1 DEF Activation
    <3>3. FetchAllowed(FetchURL(call[r].id))
      BY <2>1 DEF SecureInv, FetchedSecurely, Cached, Key
    <3>4. AtRoot(r) => PassedByRoot(r)'
      BY <1>0, <2>0, <3>1, <3>2, <3>3 DEF PassedByRoot, RootId
    <3> QED
      BY <2>0, <3>1, <3>2, <3>4, MoveAnswer
  <2>2. CASE ~Cached(call[r]) /\ ~FetchAllowed(FetchURL(call[r].id))
    <3>1. Fail(r, "fetch")
      BY <1>5, <2>2 DEF LoadTemplate
    <3>2. call[r].parent = 0 => "fetch" \in Announced(r)
      BY <1>0, <2>0, AnnouncedByChecks DEF AtRoot, PassedByRoot, FetchOutcomes
    <3> QED
      BY <3>1, <3>2, FailAnswer
  <2>3. CASE ~Cached(call[r]) /\ FetchAllowed(FetchURL(call[r].id))
    <3>1. /\ pc'[r] = "fetch" /\ tree'[r] = tree[r] /\ result'[r] = result[r]
          /\ call'[r] = call[r]
      BY <1>0, <1>5, <2>3 DEF LoadTemplate, Goto
    <3>2. AtRoot(r) => PassedByRoot(r)'
      BY <1>0, <2>0, <2>3, <3>1 DEF PassedByRoot, RootId
    <3> QED
      BY <2>0, <3>1, <3>2, MoveAnswer
  <2> QED
    BY <2>1, <2>2, <2>3
<1>6. CASE FetchTemplate(r)
  <2>0. pc[r] = "fetch"
    BY <1>6 DEF FetchTemplate
  <2>1. CASE Fail(r, "fetch")
    <3>1. call[r].parent = 0 => "fetch" \in Announced(r)
      BY <1>0, <2>0, AnnouncedByChecks DEF AtRoot, PassedByRoot, FetchOutcomes
    <3> QED
      BY <2>1, <3>1, FailAnswer
  <2>2. CASE ~Fail(r, "fetch")
    <3>1. PICK body \in Body :
            /\ pc'[r] = "store" /\ tree'[r] = tree[r] /\ result'[r] = result[r]
            /\ call' = [call EXCEPT ![r] =
                 [call[r] EXCEPT !.body = body, !.kind = "fetch"]]
      BY <1>0, <1>6, <2>2 DEF FetchTemplate, Goto
    <3>2. /\ call'[r].parent = call[r].parent /\ call'[r].desc = call[r].desc
          /\ call'[r].base = call[r].base /\ call'[r].depth = call[r].depth
          /\ call'[r].id = call[r].id
      BY <1>0, <3>1 DEF Activation
    <3>3. AtRoot(r) => PassedByRoot(r)'
      BY <1>0, <2>0, <3>1, <3>2 DEF PassedByRoot, RootId
    <3> QED
      BY <2>0, <3>1, <3>2, <3>3, MoveAnswer
  <2> QED
    BY <2>1, <2>2
<1>7. CASE StoreTemplate(r)
  <2>1. /\ pc[r] = "store" /\ pc'[r] = "verify" /\ call'[r] = call[r]
        /\ tree'[r] = tree[r] /\ result'[r] = result[r]
    BY <1>0, <1>7 DEF StoreTemplate, Goto
  <2>2. AtRoot(r) => PassedByRoot(r)'
    BY <1>0, <2>1 DEF PassedByRoot, RootId
  <2> QED
    BY <2>1, <2>2, MoveAnswer
<1>8. CASE CreateNode(r)
  <2>0. pc[r] = "verify" /\ call[r].body \in Body
    BY <1>8 DEF CreateNode, IInv, WalkOK, ActivationOK
  <2>1. call[r].parent = 0 =>
          /\ call[r].desc = Root[r] /\ FetchAllowed(FetchURL(RootId(r)))
          /\ Announced(r) = FetchOutcomes(Root[r], RootId(r), Mappers)
    BY <1>0, <2>0, AnnouncedByChecks DEF AtRoot, PassedByRoot
  <2>2. CASE ~Verified(call[r])
    <3>1. Fail(r, "integrity-failed")
      BY <1>8, <2>2 DEF CreateNode
    <3>2. call[r].parent = 0 => "integrity-failed" \in Announced(r)
      BY <2>0, <2>1, <2>2, AnnouncedByBody DEF Verified
    <3> QED
      BY <3>1, <3>2, FailAnswer
  <2>3. CASE /\ Verified(call[r])
             /\ Descriptor[call[r].desc].mapper # None
             /\ Descriptor[call[r].desc].mapper \notin Mappers
    <3>1. Fail(r, "mapper-unknown")
      BY <1>8, <2>3 DEF CreateNode
    <3>2. call[r].parent = 0 => "mapper-unknown" \in Announced(r)
      BY <2>0, <2>1, <2>3, AnnouncedByBody DEF Verified
    <3> QED
      BY <3>1, <3>2, FailAnswer
  <2>4. CASE /\ Verified(call[r])
             /\ \/ Descriptor[call[r].desc].mapper = None
                \/ Descriptor[call[r].desc].mapper \in Mappers
    <3>1. /\ pc'[r] = "slots" /\ result'[r] = result[r]
      BY <1>0, <1>8, <2>4 DEF CreateNode, Goto
    <3>2. "ok" \in Announced(r)
      <4>1. CASE call[r].parent = 0
        BY <2>0, <2>1, <2>4, <4>1, AnnouncedByBody DEF Verified
      <4>2. CASE call[r].parent # 0
        <5>1. node[r] = call[r].parent /\ node[r] <= Len(tree[r]) /\ node[r] \in Nat
          BY <2>0 DEF IInv, TypeOK, WalkOK, ActivationOK, TreeOK
        <5>2. tree[r] # << >>
          BY <1>0, <4>2, <5>1
        <5> QED
          BY <5>2 DEF AnswerOK
      <4> QED
        BY <4>1, <4>2
    <3> QED
      BY <3>1, <3>2 DEF AnswerOK, AtRoot, Announced
  <2> QED
    BY <2>2, <2>3, <2>4
<1>9. CASE EnterSlot(r)
  <2>0. node[r] \in 1 .. Len(tree[r])
    BY <1>9 DEF EnterSlot, IInv, TypeOK, WalkOK, TreeOK
  <2>1. /\ call'[r].parent = node[r] /\ pc'[r] \in {"resolve", "ref"}
        /\ result'[r] = result[r]
    BY <1>0, <1>9 DEF EnterSlot, Goto, NewActivation
  <2>2. tree[r] # << >>
    BY <1>0, <2>0
  <2> QED
    BY <2>0, <2>1, <2>2 DEF AnswerOK, AtRoot, Announced
<1>10. CASE Return(r)
  <2>0. pc[r] = "slots" /\ node[r] \in 1 .. Len(tree[r])
    BY <1>10 DEF Return, IInv, TypeOK, WalkOK, TreeOK
  <2>1. tree[r] # << >> /\ "ok" \in Announced(r)
    BY <1>0, <2>0 DEF AnswerOK
  <2>2. /\ pc'[r] \in {"slots", "done"} /\ tree'[r] = tree[r]
        /\ result'[r] \in {result[r], "ok"}
    BY <1>0, <1>10 DEF Return, Goto
  <2> QED
    BY <2>1, <2>2 DEF AnswerOK, AtRoot, Announced
<1>11. ASSUME pc[r] \in {"ref", "loadRef", "fetchRef", "storeRef"}
       PROVE  call[r].parent # 0
  BY <1>0, <1>11 DEF AtRoot, PassedByRoot
<1>12. ASSUME NEW e, Follow(r, e), pc[r] \in {"loadRef", "storeRef"} PROVE AnswerOK(r)'
  <2>1. /\ pc'[r] = "resolve" /\ call'[r].parent = call[r].parent
        /\ tree'[r] = tree[r] /\ result'[r] = result[r]
    BY <1>0, <1>12 DEF Follow, Goto, Activation
  <2> QED
    BY <1>11, <1>12, <2>1, MoveAnswer DEF AtRoot
<1>13. CASE CheckRef(r) \/ LoadRef(r) \/ FetchRef(r) \/ StoreRef(r)
  <2>0. /\ pc[r] \in {"ref", "loadRef", "fetchRef", "storeRef"}
        /\ call[r].parent # 0
    BY <1>11, <1>13 DEF CheckRef, LoadRef, FetchRef, StoreRef
  <2>1. CASE \E why : Fail(r, why)
    BY <2>0, <2>1, FailAnswer
  <2>2. CASE \E e : Follow(r, e) /\ pc[r] \in {"loadRef", "storeRef"}
    BY <1>12, <2>2
  <2>3. CASE /\ ~ \E why : Fail(r, why)
             /\ ~ \E e : Follow(r, e) /\ pc[r] \in {"loadRef", "storeRef"}
    <3>1. /\ pc'[r] \in {"loadRef", "fetchRef", "storeRef"}
          /\ call'[r].parent = call[r].parent
          /\ tree'[r] = tree[r] /\ result'[r] = result[r]
      BY <1>0, <1>13, <2>3
      DEF CheckRef, LoadRef, FetchRef, StoreRef, Goto, Activation
    <3> QED
      BY <2>0, <3>1, MoveAnswer DEF AtRoot
  <2> QED
    BY <2>1, <2>2, <2>3
<1>14. CASE UNCHANGED vars
  BY <1>0, <1>1, <1>14 DEF vars
<1> QED
  BY <1>2, <1>3, <1>4, <1>5, <1>6, <1>7, <1>8, <1>9, <1>10, <1>13, <1>14
  DEF Next, Step, AllDone

(* Resolve answers as its root, its base and its allowlist announce,       *)
(* whatever stands below the root, whatever the servers send and whatever  *)
(* other requests leave in the caches: a hit never passes a check that a   *)
(* fetch would have failed.                                                *)
THEOREM AnswersAnnounced == Spec => []AnswersAsAnnounced
<1>1. Init => AnswerInv
  BY DEF Init, AnswerInv, AnswerOK, AtRoot, PassedByRoot, RootActivation, NewActivation
<1>2. IInv /\ SecureInv /\ AnswerInv /\ [Next]_vars => AnswerInv'
  <2> SUFFICES ASSUME IInv, SecureInv, AnswerInv, [Next]_vars, NEW r \in Request
               PROVE  AnswerOK(r)'
    BY DEF AnswerInv
  <2> QED
    BY AnswerStep DEF AnswerInv
<1>3. AnswerInv => AnswersAsAnnounced
  BY DEF AnswerInv, AnswerOK, Announced, AnswersAsAnnounced
<1> QED
  BY <1>1, <1>2, <1>3, Invariance, SecureInvariance, PTL DEF Spec

-----------------------------------------------------------------------------
(* Fetches.                                                                *)

(* The templates request r has used or tried to use.                       *)
Uses(r) == {tree[r][i] : i \in Nodes(r)} \cup skipped[r]
FetchedBy(r, k) == \E u \in Uses(r) : u.kind = "fetch" /\ u.id = k
HeldFetch(r) ==
    \E u \in Uses(r) : u.kind = "fetch" /\ u.id = call[r].id /\ u.body = call[r].body

FetchOK(r) ==
    /\ \A u \in Uses(r) : u.kind = "fetch" => u.id \in DOMAIN cache
    /\ \A i, j \in Nodes(r) :
         /\ tree[r][i].kind = "fetch" /\ tree[r][j].kind = "fetch"
         /\ tree[r][i].id = tree[r][j].id
         => i = j
    /\ \A s, t \in skipped[r] :
         s.kind = "fetch" /\ t.kind = "fetch" /\ s.id = t.id => s = t
    /\ \A i \in Nodes(r), s \in skipped[r] :
         ~(tree[r][i].kind = "fetch" /\ s.kind = "fetch" /\ tree[r][i].id = s.id)
    /\ Active(r) /\ pc[r] \notin {"store", "verify"} => call[r].kind = "none"
    /\ pc[r] = "store" => call[r].kind = "fetch"
    /\ pc[r] \in {"fetch", "store"} => ~FetchedBy(r, call[r].id)
    /\ pc[r] = "verify" /\ call[r].kind = "fetch" =>
         ~FetchedBy(r, call[r].id) /\ call[r].id \in DOMAIN cache
    /\ pc[r] = "slots" /\ call[r].kind = "fetch" => HeldFetch(r)
    /\ pc[r] = "done" /\ call[r].kind = "fetch" =>
         HeldFetch(r) \/ ~FetchedBy(r, call[r].id)

(* How a step that stays within an activation changes what it holds.       *)
LEMMA MovedFetch ==
    ASSUME IInv, NEW r \in Request, FetchOK(r), Moved(r), [Next]_vars
    PROVE  \/ /\ pc'[r] \notin {"fetch", "store", "verify"}
              /\ call[r].kind = "none" /\ call'[r].kind = "none"
           \/ /\ pc[r] = "load" /\ pc'[r] = "fetch" /\ call'[r] = call[r]
              /\ call[r].id \notin DOMAIN cache
           \/ /\ pc[r] = "load" /\ pc'[r] = "verify" /\ call'[r].kind = "cached"
              /\ call'[r].id = call[r].id /\ call[r].id \in DOMAIN cache
              /\ call'[r].body = cache[call[r].id] /\ call[r].kind = "none"
           \/ /\ pc[r] = "fetch" /\ pc'[r] = "store" /\ call'[r].kind = "fetch"
              /\ call'[r].id = call[r].id /\ call[r].kind = "none"
           \/ /\ pc[r] = "store" /\ pc'[r] = "verify" /\ call'[r] = call[r]
              /\ cache' = Put(cache, call[r].id, call[r].body)
           \/ Unmoved(r)
<1> DEFINE Local == /\ pc'[r] \notin {"fetch", "store", "verify"}
                    /\ call[r].kind = "none" /\ call'[r].kind = "none"
<1>0. /\ pc \in [Request -> Label] /\ call \in [Request -> Activation]
      /\ call[r] \in Activation
  BY DEF IInv, TypeOK
<1>1. ~ \E why : Fail(r, why)
  BY <1>0 DEF Moved, Fail, Goto, Active
<1>2. ASSUME NEW d, Follow(r, d), pc[r] \in {"loadRef", "storeRef"} PROVE Local
  BY <1>0, <1>2 DEF Follow, Goto, Activation, FetchOK, Active
<1>3. CASE Resolve(r) \/ CheckTemplate(r) \/ CheckRef(r)
  <2>1. /\ pc[r] \in {"idle", "resolve", "ref"}
        /\ pc'[r] \in {"resolve", "load", "loadRef"}
    BY <1>0, <1>1, <1>3 DEF Resolve, CheckTemplate, CheckRef, Goto
  <2>2. \/ call' = call
        \/ \E x : \/ call' = [call EXCEPT ![r] = [call[r] EXCEPT !.id = x]]
                \/ call' = [call EXCEPT ![r] = [call[r] EXCEPT !.url = x]]
    BY <1>1, <1>3 DEF Resolve, CheckTemplate, CheckRef
  <2>3. call'[r].kind = call[r].kind
    BY <1>0, <2>2 DEF Activation
  <2> QED
    BY <2>1, <2>3 DEF FetchOK, Active
<1>4. CASE LoadTemplate(r)
  <2>1. CASE Cached(call[r])
    <3>1. /\ pc[r] = "load" /\ pc'[r] = "verify"
          /\ call'[r] = [call[r] EXCEPT !.body = cache[call[r].id], !.kind = "cached"]
      BY <1>0, <1>4, <2>1 DEF LoadTemplate, Goto, Key
    <3> QED
      BY <1>0, <2>1, <3>1 DEF Activation, Cached, Key, FetchOK, Active
  <2>2. CASE ~Cached(call[r])
    BY <1>0, <1>1, <1>4, <2>2 DEF LoadTemplate, Goto, Cached, Key
  <2> QED
    BY <2>1, <2>2
<1>5. CASE FetchTemplate(r)
  <2>1. PICK b : /\ pc[r] = "fetch" /\ pc'[r] = "store"
                 /\ call'[r] = [call[r] EXCEPT !.body = b, !.kind = "fetch"]
    BY <1>0, <1>1, <1>5 DEF FetchTemplate, Goto
  <2> QED
    BY <1>0, <2>1 DEF Activation, FetchOK, Active
<1>6. CASE StoreTemplate(r)
  BY <1>0, <1>6 DEF StoreTemplate, Goto, Key
<1>7. CASE LoadRef(r)
  <2>1. CASE \E d : Follow(r, d)
    BY <1>2, <1>7, <2>1 DEF LoadRef
  <2>2. CASE ~ \E d : Follow(r, d)
    <3>1. pc[r] = "loadRef" /\ pc'[r] = "fetchRef" /\ call'[r] = call[r]
      BY <1>0, <1>1, <1>7, <2>2 DEF LoadRef, Goto
    <3> QED
      BY <3>1 DEF FetchOK, Active
  <2> QED
    BY <2>1, <2>2
<1>8. CASE FetchRef(r)
  <2>1. PICK d : /\ pc[r] = "fetchRef" /\ pc'[r] = "storeRef"
                 /\ call'[r] = [call[r] EXCEPT !.desc = d]
    BY <1>0, <1>1, <1>8 DEF FetchRef, Goto
  <2> QED
    BY <1>0, <2>1 DEF Activation, FetchOK, Active
<1>9. CASE StoreRef(r)
  BY <1>2, <1>9 DEF StoreRef
<1>10. ~CreateNode(r) /\ ~EnterSlot(r) /\ ~Return(r)
  BY <1>0, <1>1 DEF Moved, CreateNode, EnterSlot, Return, Active, Goto
<1>11. (\A q \in Request \ {r} : ~(Resolve(q) \/ Step(q))) \/ Unmoved(r)
  BY OthersUnmoved
<1>12. UNCHANGED vars => Unmoved(r)
  BY DEF vars, Unmoved
<1> QED
  BY <1>3, <1>4, <1>5, <1>6, <1>7, <1>8, <1>9, <1>10, <1>11, <1>12
  DEF Next, Step, AllDone

LEMMA CacheGrows ==
    ASSUME IInv, [Next]_vars
    PROVE  DOMAIN cache \subseteq DOMAIN cache'
BY CacheStep DEF Put

LEMMA FetchStep ==
    ASSUME IInv, NEW r \in Request, FetchOK(r), [Next]_vars
    PROVE  FetchOK(r)'
<1>0. /\ tree[r] \in Seq(Node) /\ Len(tree[r]) \in Nat
      /\ \A i \in Nodes(r) : tree[r][i] \in Node
      /\ DOMAIN cache \subseteq DOMAIN cache'
  BY CacheGrows DEF IInv, TypeOK, Nodes
<1>1. ASSUME tree'[r] = tree[r], skipped'[r] = skipped[r]
      PROVE  /\ Nodes(r)' = Nodes(r) /\ Uses(r)' = Uses(r)
             /\ \A k : FetchedBy(r, k)' <=> FetchedBy(r, k)
             /\ call'[r] = call[r] => (HeldFetch(r)' <=> HeldFetch(r))
  <2>1. Nodes(r)' = Nodes(r) /\ Uses(r)' = Uses(r)
    BY <1>1 DEF Nodes, Uses
  <2> QED
    BY <2>1 DEF FetchedBy, HeldFetch
<1>2. CASE Unmoved(r)
  <2>1. /\ Nodes(r)' = Nodes(r) /\ Uses(r)' = Uses(r)
        /\ \A k : FetchedBy(r, k)' <=> FetchedBy(r, k)
        /\ HeldFetch(r)' <=> HeldFetch(r)
    BY <1>1, <1>2 DEF Unmoved
  <2> QED
    BY <1>0, <1>2, <2>1 DEF FetchOK, Unmoved, Active
<1>3. CASE Moved(r) /\ ~Unmoved(r)
  <2>1. /\ Nodes(r)' = Nodes(r) /\ Uses(r)' = Uses(r)
        /\ \A k : FetchedBy(r, k)' <=> FetchedBy(r, k)
        /\ tree'[r] = tree[r] /\ skipped'[r] = skipped[r]
        /\ pc'[r] \notin {"slots", "done"} /\ Active(r)
    BY <1>1, <1>3 DEF Moved, Active
  <2>2. CASE /\ pc'[r] \notin {"fetch", "store", "verify"}
             /\ call'[r].kind = "none"
    BY <1>0, <2>1, <2>2 DEF FetchOK
  <2>3. CASE /\ pc[r] = "load" /\ pc'[r] = "fetch" /\ call'[r] = call[r]
             /\ call[r].id \notin DOMAIN cache
    <3>1. ~FetchedBy(r, call[r].id) /\ call[r].kind = "none"
      BY <2>1, <2>3 DEF FetchOK, FetchedBy
    <3> QED
      BY <1>0, <2>1, <2>3, <3>1 DEF FetchOK
  <2>4. CASE pc'[r] = "verify" /\ call'[r].kind = "cached"
    BY <1>0, <2>1, <2>4 DEF FetchOK
  <2>5. CASE /\ pc[r] = "fetch" /\ pc'[r] = "store" /\ call'[r].kind = "fetch"
             /\ call'[r].id = call[r].id
    BY <1>0, <2>1, <2>5 DEF FetchOK
  <2>6. CASE /\ pc[r] = "store" /\ pc'[r] = "verify" /\ call'[r] = call[r]
             /\ cache' = Put(cache, call[r].id, call[r].body)
    <3>1. call[r].id \in DOMAIN cache'
      BY <2>6 DEF Put
    <3> QED
      BY <1>0, <2>1, <2>6, <3>1 DEF FetchOK
  <2> QED
    BY <1>3, <2>2, <2>3, <2>4, <2>5, <2>6, MovedFetch
<1>4. CASE Failed(r) /\ ~Unmoved(r)
  <2>1. Active(r) /\ call'[r] = call[r] /\ tree'[r] = tree[r]
        /\ pc'[r] \in {"slots", "done"} /\ Nodes(r)' = Nodes(r)
    BY <1>4 DEF Failed, Nodes
  <2>2. pc[r] # "store"
    <3>1. Resolve(r) \/ Step(r)
      BY <1>4, OthersUnmoved DEF Next, AllDone, vars, Unmoved
    <3>2. StoreTemplate(r) => pc'[r] = "verify"
      BY DEF StoreTemplate, Goto, IInv, TypeOK
    <3> QED
      BY <2>1, <3>1, <3>2
      DEF Step, Resolve, CheckTemplate, LoadTemplate, FetchTemplate, CreateNode,
          EnterSlot, Return, CheckRef, LoadRef, FetchRef, StoreRef
  <2>3. call[r].kind = "fetch" =>
          pc[r] = "verify" /\ ~FetchedBy(r, call[r].id) /\ call[r].id \in DOMAIN cache
    BY <2>1, <2>2 DEF FetchOK
  <2>4. CASE call[r].parent = 0
    <3>1. pc'[r] = "done" /\ skipped'[r] = skipped[r]
      BY <1>4, <2>4 DEF Failed
    <3>2. /\ Nodes(r)' = Nodes(r) /\ Uses(r)' = Uses(r)
          /\ \A k : FetchedBy(r, k)' <=> FetchedBy(r, k)
      BY <1>1, <2>1, <3>1
    <3> QED
      BY <1>0, <2>1, <2>3, <3>1, <3>2 DEF FetchOK, Active
  <2>5. CASE call[r].parent # 0
    <3>1. PICK s : /\ skipped'[r] = skipped[r] \cup {s} /\ pc'[r] = "slots"
                   /\ s.id = call[r].id /\ s.body = call[r].body
                   /\ s.kind = call[r].kind
      BY <1>4, <2>5 DEF Failed
    <3>2. Uses(r)' = Uses(r) \cup {s}
      BY <2>1, <3>1 DEF Uses
    <3>3. call[r].kind = "fetch" =>
            /\ \A i \in Nodes(r) :
                 ~(tree[r][i].kind = "fetch" /\ tree[r][i].id = s.id)
            /\ \A t \in skipped[r] : ~(t.kind = "fetch" /\ t.id = s.id)
            /\ s.id \in DOMAIN cache
      BY <2>3, <3>1 DEF FetchedBy, Uses
    <3>4. call[r].kind = "fetch" => HeldFetch(r)'
      BY <2>1, <3>1, <3>2 DEF HeldFetch
    <3> QED
      BY <1>0, <2>1, <3>1, <3>2, <3>3, <3>4 DEF FetchOK, Active
  <2> QED
    BY <2>4, <2>5
<1>5. CASE Created(r)
  <2>1. PICK n \in Node : MadeOf(n, call[r]) /\ tree'[r] = Append(tree[r], n)
    BY <1>5 DEF Created
  <2>2. /\ pc[r] = "verify" /\ pc'[r] = "slots"
        /\ call'[r] = call[r] /\ skipped'[r] = skipped[r]
    BY <1>5 DEF Created
  <2>3. PICK m : m = Len(tree[r]) + 1
    OBVIOUS
  <2>4. /\ Nodes(r)' = Nodes(r) \cup {m} /\ m \notin Nodes(r) /\ tree'[r][m] = n
        /\ \A i \in Nodes(r) : tree'[r][i] = tree[r][i]
    BY <1>0, <2>1, <2>3 DEF Nodes
  <2>5. Uses(r)' = Uses(r) \cup {n}
    BY <2>2, <2>4 DEF Uses
  <2>6. n.id = call[r].id /\ n.body = call[r].body /\ n.kind = call[r].kind
    BY <2>1 DEF MadeOf
  <2>7. call[r].kind = "fetch" =>
          /\ \A i \in Nodes(r) : ~(tree[r][i].kind = "fetch" /\ tree[r][i].id = n.id)
          /\ \A t \in skipped[r] : ~(t.kind = "fetch" /\ t.id = n.id)
          /\ n.id \in DOMAIN cache
    BY <2>2, <2>6 DEF FetchOK, FetchedBy, Uses
  <2>8. call[r].kind = "fetch" => HeldFetch(r)'
    BY <2>2, <2>5, <2>6 DEF HeldFetch
  <2>9. \A u \in Uses(r)' : u.kind = "fetch" => u.id \in DOMAIN cache'
    BY <1>0, <2>5, <2>6, <2>7 DEF FetchOK
  <2>10. \A i, j \in Nodes(r)' :
           /\ tree'[r][i].kind = "fetch" /\ tree'[r][j].kind = "fetch"
           /\ tree'[r][i].id = tree'[r][j].id
           => i = j
    BY <2>4, <2>6, <2>7 DEF FetchOK
  <2>11. \A i \in Nodes(r)', s \in skipped'[r] :
           ~(tree'[r][i].kind = "fetch" /\ s.kind = "fetch" /\ tree'[r][i].id = s.id)
    BY <2>2, <2>4, <2>6, <2>7 DEF FetchOK
  <2> QED
    BY <2>2, <2>8, <2>9, <2>10, <2>11 DEF FetchOK, Active
<1>6. CASE Entered(r)
  <2>1. PICK c : tree'[r] = [tree[r] EXCEPT ![node[r]] =
                    [tree[r][node[r]] EXCEPT !.todo = tree[r][node[r]].todo \ {c}]]
    BY <1>6 DEF Entered
  <2>2. /\ Nodes(r)' = Nodes(r)
        /\ \A i \in Nodes(r) :
             /\ tree'[r][i].id = tree[r][i].id /\ tree'[r][i].kind = tree[r][i].kind
    BY <1>0, <2>1 DEF Nodes, Node
  <2>3. /\ pc'[r] \in {"resolve", "ref"} /\ call'[r].kind = "none"
        /\ skipped'[r] = skipped[r]
    BY <1>6 DEF Entered, NewActivation
  <2>4. \A u \in Uses(r)' : u.kind = "fetch" => u.id \in DOMAIN cache'
    BY <1>0, <2>2, <2>3 DEF FetchOK, Uses
  <2> QED
    BY <2>2, <2>3, <2>4 DEF FetchOK, Active
<1>7. CASE Returned(r)
  <2>1. /\ pc[r] = "slots" /\ pc'[r] \in {"slots", "done"} /\ call'[r] = call[r]
        /\ tree'[r] = tree[r] /\ skipped'[r] = skipped[r]
    BY <1>7 DEF Returned
  <2>2. /\ Nodes(r)' = Nodes(r) /\ Uses(r)' = Uses(r)
        /\ HeldFetch(r)' <=> HeldFetch(r)
    BY <1>1, <2>1
  <2> QED
    BY <1>0, <2>1, <2>2 DEF FetchOK, Active
<1> QED
  BY <1>2, <1>3, <1>4, <1>5, <1>6, <1>7, StepKinds

FetchInv == \A r \in Request : FetchOK(r)

LEMMA FetchInvariance == Spec => []FetchInv
<1>1. Init => FetchInv
  BY DEF Init, FetchInv, FetchOK, Uses, FetchedBy, HeldFetch, Nodes, Active,
     RootActivation, NewActivation
<1>2. IInv /\ FetchInv /\ [Next]_vars => FetchInv'
  BY FetchStep DEF FetchInv
<1> QED
  BY <1>1, <1>2, Invariance, PTL DEF Spec

(* A request goes to the network for one template at most once, however    *)
(* many of its nodes use it and whichever of them are skipped: what it has *)
(* fetched stays cached until the request is answered.                     *)
THEOREM FetchedOnce == Spec => []FetchedOncePerRequest
<1>1. IInv /\ FetchInv => FetchedOncePerRequest
  <2> SUFFICES ASSUME IInv, FetchInv, NEW r \in Request, NEW k
               PROVE  Cardinality({i \in Nodes(r) : tree[r][i].id = k
                                                     /\ tree[r][i].kind = "fetch"})
                      + Cardinality({s \in skipped[r] : s.id = k
                                                         /\ s.kind = "fetch"}) <= 1
    BY DEF FetchedOncePerRequest
  <2> DEFINE P == {i \in Nodes(r) : tree[r][i].id = k /\ tree[r][i].kind = "fetch"}
             G == {s \in skipped[r] : s.id = k /\ s.kind = "fetch"}
  <2>1. FetchOK(r)
    BY DEF FetchInv
  <2>2. P = {} \/ G = {}
    BY <2>1 DEF FetchOK
  <2>3. \A i, j \in P : i = j
    BY <2>1 DEF FetchOK
  <2>4. \A s, t \in G : s = t
    BY <2>1 DEF FetchOK
  <2> HIDE DEF P, G
  <2>5. ASSUME NEW S, \A x, y \in S : x = y PROVE Cardinality(S) \in {0, 1}
    <3>1. S = {} \/ \E x : S = {x}
      BY <2>5
    <3> QED
      BY <3>1, FS_Singleton, FS_EmptySet
  <2>6. Cardinality({}) = 0
    BY FS_EmptySet
  <2>7. Cardinality(P) + Cardinality(G) <= 1
    BY <2>2, <2>3, <2>4, <2>5, <2>6
  <2> QED
    BY <2>7 DEF P, G
<1> QED
  BY <1>1, FetchInvariance, Invariance, PTL

-----------------------------------------------------------------------------
(* Where the bodies come from.                                             *)

(* The nodes, the skips and the activation in hand, as Fetches has them.   *)
LEMMA InFetches ==
    ASSUME NEW r \in Request, NEW u, u \in Uses(r) \cup {call[r]}, u.kind = "fetch"
    PROVE  << u.id, u.body >> \in Fetches(r)
BY DEF Fetches, Uses

LEMMA OfFetches ==
    ASSUME NEW r \in Request, NEW f \in Fetches(r)
    PROVE  \E u \in Uses(r) \cup {call[r]} :
              u.kind = "fetch" /\ f = << u.id, u.body >>
BY DEF Fetches, Uses

(* No step forgets a fetch.                                                *)
LEMMA FetchesGrow ==
    ASSUME IInv, NEW r \in Request, FetchOK(r), [Next]_vars
    PROVE  Fetches(r) \subseteq Fetches(r)'
<1>0. /\ tree[r] \in Seq(Node) /\ Len(tree[r]) \in Nat
      /\ \A i \in Nodes(r) : tree[r][i] \in Node
  BY DEF IInv, TypeOK, Nodes
<1>1. ASSUME Nodes(r) \subseteq Nodes(r)', skipped[r] \subseteq skipped'[r],
             \A i \in Nodes(r) : tree'[r][i] = tree[r][i],
             call'[r] = call[r] \/ call[r].kind # "fetch"
      PROVE  Fetches(r) \subseteq Fetches(r)'
  BY <1>1 DEF Fetches
<1>2. CASE Unmoved(r)
  BY <1>1, <1>2 DEF Unmoved, Nodes
<1>3. CASE Moved(r) /\ ~Unmoved(r)
  <2>1. call'[r] = call[r] \/ call[r].kind # "fetch"
    BY <1>3, MovedFetch
  <2> QED
    BY <1>1, <1>3, <2>1 DEF Moved, Nodes
<1>4. CASE Failed(r)
  <2>1. skipped[r] \subseteq skipped'[r]
    BY <1>4 DEF Failed
  <2> QED
    BY <1>1, <1>4, <2>1 DEF Failed, Nodes
<1>5. CASE Created(r)
  <2>1. PICK n : tree'[r] = Append(tree[r], n)
    BY <1>5 DEF Created
  <2>2. /\ Nodes(r) \subseteq Nodes(r)'
        /\ \A i \in Nodes(r) : tree'[r][i] = tree[r][i]
    BY <1>0, <2>1 DEF Nodes
  <2> QED
    BY <1>1, <1>5, <2>2 DEF Created
<1>6. CASE Entered(r)
  <2>1. PICK c : tree'[r] = [tree[r] EXCEPT ![node[r]] =
                    [tree[r][node[r]] EXCEPT !.todo = tree[r][node[r]].todo \ {c}]]
    BY <1>6 DEF Entered
  <2>2. /\ Nodes(r)' = Nodes(r)
        /\ \A i \in Nodes(r) :
             /\ tree'[r][i].id = tree[r][i].id /\ tree'[r][i].kind = tree[r][i].kind
             /\ tree'[r][i].body = tree[r][i].body
    BY <1>0, <2>1 DEF Nodes, Node
  <2>3. skipped'[r] = skipped[r] /\ pc[r] = "slots"
    BY <1>6 DEF Entered
  <2>4. ASSUME NEW u \in Uses(r), u.kind = "fetch"
        PROVE  << u.id, u.body >> \in Fetches(r)'
    BY <2>2, <2>3, <2>4 DEF Uses, Fetches
  <2>5. call[r].kind = "fetch" => << call[r].id, call[r].body >> \in Fetches(r)'
    BY <2>3, <2>4 DEF FetchOK, HeldFetch
  <2> QED
    BY <2>4, <2>5, OfFetches
<1>7. CASE Returned(r)
  BY <1>1, <1>7 DEF Returned, Nodes
<1> QED
  BY <1>2, <1>3, <1>4, <1>5, <1>6, <1>7, StepKinds

FetchedFor(k, b) == \E q \in Request : << k, b >> \in Fetches(q)

(* Who holds body b for identity k: the cache, an activation about to make *)
(* its node, and the nodes made.                                           *)
CacheHolds(k, b) == k \in DOMAIN cache /\ b = cache[k]
CallHolds(r, k, b) == pc[r] = "verify" /\ k = call[r].id /\ b = call[r].body
NodeHolds(r, k, b) == \E i \in Nodes(r) : k = tree[r][i].id /\ b = tree[r][i].body
Holds(k, b) ==
    CacheHolds(k, b) \/ \E r \in Request : CallHolds(r, k, b) \/ NodeHolds(r, k, b)

SourceInv == \A k, b : Holds(k, b) => FetchedFor(k, b)

(* A step makes somebody hold only what was held or stored by a fetch.     *)
LEMMA HoldsStep ==
    ASSUME IInv, FetchInv, [Next]_vars, NEW k, NEW b, Holds(k, b)'
    PROVE  \/ Holds(k, b)
           \/ \E q \in Request : pc[q] = "store" /\ k = call[q].id /\ b = call[q].body
<1>1. CASE CacheHolds(k, b)'
  <2>1. CASE cache' = cache
    BY <1>1, <2>1 DEF CacheHolds, Holds
  <2>2. CASE cache' # cache
    <3>1. PICK q \in Request :
            pc[q] = "store" /\ cache' = Put(cache, call[q].id, call[q].body)
      BY <2>2, CacheStep
    <3> QED
      BY <1>1, <3>1 DEF CacheHolds, Holds, Put
  <2> QED
    BY <2>1, <2>2
<1>2. ASSUME NEW r \in Request, CallHolds(r, k, b)'
      PROVE  \/ Holds(k, b)
             \/ pc[r] = "store" /\ k = call[r].id /\ b = call[r].body
  <2>1. CASE Unmoved(r)
    BY <1>2, <2>1 DEF Unmoved, CallHolds, Holds
  <2>2. CASE Moved(r) /\ ~Unmoved(r)
    <3>1. \/ /\ call[r].id \in DOMAIN cache /\ call'[r].id = call[r].id
             /\ call'[r].body = cache[call[r].id]
          \/ pc[r] = "store" /\ call'[r] = call[r]
      BY <1>2, <2>2, MovedFetch DEF FetchInv, CallHolds
    <3> QED
      BY <1>2, <3>1 DEF CallHolds, CacheHolds, Holds
  <2>3. ~Failed(r) /\ ~Created(r) /\ ~Entered(r) /\ ~Returned(r)
    BY <1>2 DEF CallHolds, Failed, Created, Entered, Returned
  <2> QED
    BY <2>1, <2>2, <2>3, StepKinds
<1>3. ASSUME NEW r \in Request, NodeHolds(r, k, b)' PROVE Holds(k, b)
  <2>0. /\ tree[r] \in Seq(Node) /\ Len(tree[r]) \in Nat
        /\ \A i \in Nodes(r) : tree[r][i] \in Node
    BY DEF IInv, TypeOK, Nodes
  <2>1. PICK i \in Nodes(r)' : k = tree'[r][i].id /\ b = tree'[r][i].body
    BY <1>3 DEF NodeHolds
  <2>2. CASE /\ i \in Nodes(r) /\ tree'[r][i].id = tree[r][i].id
             /\ tree'[r][i].body = tree[r][i].body
    BY <2>1, <2>2 DEF NodeHolds, Holds
  <2>3. CASE Unmoved(r) \/ Failed(r) \/ Moved(r) \/ Returned(r)
    <3>1. tree'[r] = tree[r]
      BY <2>3 DEF Unmoved, Failed, Moved, Returned
    <3> QED
      BY <2>1, <2>2, <3>1 DEF Nodes
  <2>4. CASE Created(r)
    <3>1. PICK n : MadeOf(n, call[r]) /\ tree'[r] = Append(tree[r], n)
      BY <2>4 DEF Created
    <3>2. \/ i \in Nodes(r) /\ tree'[r][i] = tree[r][i]
          \/ tree'[r][i] = n
      BY <2>0, <2>1, <3>1 DEF Nodes
    <3>3. CASE tree'[r][i] = n
      BY <2>1, <2>4, <3>1, <3>3 DEF Created, MadeOf, CallHolds, Holds
    <3> QED
      BY <2>2, <3>2, <3>3
  <2>5. CASE Entered(r)
    <3>1. PICK c : tree'[r] = [tree[r] EXCEPT ![node[r]] =
                    [tree[r][node[r]] EXCEPT !.todo = tree[r][node[r]].todo \ {c}]]
      BY <2>5 DEF Entered
    <3>2. /\ i \in Nodes(r) /\ tree'[r][i].id = tree[r][i].id
          /\ tree'[r][i].body = tree[r][i].body
      BY <2>0, <2>1, <3>1 DEF Nodes, Node
    <3> QED
      BY <2>2, <3>2
  <2> QED
    BY <2>3, <2>4, <2>5, StepKinds
<1> QED
  BY <1>1, <1>2, <1>3 DEF Holds

LEMMA SourceStep ==
    ASSUME IInv, FetchInv, SourceInv, [Next]_vars
    PROVE  SourceInv'
<1> SUFFICES ASSUME NEW k, NEW b, Holds(k, b)' PROVE FetchedFor(k, b)'
  BY DEF SourceInv
<1>1. FetchedFor(k, b)
  <2>1. CASE Holds(k, b)
    BY <2>1 DEF SourceInv
  <2>2. CASE \E q \in Request : pc[q] = "store" /\ k = call[q].id /\ b = call[q].body
    BY <2>2, InFetches DEF FetchInv, FetchOK, FetchedFor
  <2> QED
    BY <2>1, <2>2, HoldsStep
<1>2. PICK q \in Request : << k, b >> \in Fetches(q)
  BY <1>1 DEF FetchedFor
<1>3. << k, b >> \in Fetches(q)'
  BY <1>2, FetchesGrow DEF FetchInv
<1> QED
  BY <1>3 DEF FetchedFor

LEMMA SourceInvariance == Spec => []SourceInv
<1>1. Init => SourceInv
  BY DEF Init, SourceInv, Holds, CacheHolds, CallHolds, NodeHolds, Empty, Nodes
<1>2. IInv /\ FetchInv /\ SourceInv /\ [Next]_vars => SourceInv'
  BY SourceStep
<1> QED
  BY <1>1, <1>2, Invariance, FetchInvariance, PTL DEF Spec

(* The body a node holds, from the network or from the cache, was fetched  *)
(* for the identity of that node, by this request or by another.           *)
THEOREM BodiesFetched == Spec => []BodyProvenance
<1>1. SourceInv => BodyProvenance
  BY DEF SourceInv, Holds, NodeHolds, FetchedFor, BodyProvenance
<1> QED
  BY <1>1, SourceInvariance, PTL

(* What one request fetches for an identity is one body.                   *)
LEMMA OneBody ==
    ASSUME IInv, NEW r \in Request, FetchOK(r), NEW k, NEW b, NEW c,
           << k, b >> \in Fetches(r), << k, c >> \in Fetches(r)
    PROVE  b = c
<1>1. ASSUME NEW u \in Uses(r), NEW v \in Uses(r), u.kind = "fetch", v.kind = "fetch",
             u.id = v.id
      PROVE  u = v
  BY <1>1 DEF FetchOK, Uses
<1>2. ASSUME NEW u \in Uses(r), u.kind = "fetch", call[r].kind = "fetch",
             u.id = call[r].id
      PROVE  u.body = call[r].body
  <2>1. FetchedBy(r, call[r].id)
    BY <1>2 DEF FetchedBy
  <2>2. HeldFetch(r)
    BY <1>2, <2>1 DEF FetchOK, Active
  <2> QED
    BY <1>1, <1>2, <2>2 DEF HeldFetch
<1>3. PICK u \in Uses(r) \cup {call[r]} : u.kind = "fetch" /\ u.id = k /\ u.body = b
  BY OfFetches
<1>4. PICK v \in Uses(r) \cup {call[r]} : v.kind = "fetch" /\ v.id = k /\ v.body = c
  BY OfFetches
<1> QED
  BY <1>1, <1>2, <1>3, <1>4

(* Two versions of one template in one page come from two requests: a      *)
(* request alone sees one version from start to finish, whatever the       *)
(* server does in between.                                                 *)
THEOREM TornOnlyByRace == Spec => []TornPageNeedsRace
<1>1. IInv /\ FetchInv /\ SourceInv => TornPageNeedsRace
  <2> SUFFICES ASSUME IInv, FetchInv, SourceInv, NEW r \in Request,
                      NEW i \in Nodes(r), NEW j \in Nodes(r),
                      tree[r][i].id = tree[r][j].id, tree[r][i].body # tree[r][j].body
               PROVE  \E p, q \in Request :
                         /\ p # q
                         /\ << tree[r][i].id, tree[r][i].body >> \in Fetches(p)
                         /\ << tree[r][j].id, tree[r][j].body >> \in Fetches(q)
    BY DEF TornPageNeedsRace
  <2>1. PICK p \in Request : << tree[r][i].id, tree[r][i].body >> \in Fetches(p)
    BY DEF SourceInv, Holds, NodeHolds, FetchedFor
  <2>2. PICK q \in Request : << tree[r][j].id, tree[r][j].body >> \in Fetches(q)
    BY DEF SourceInv, Holds, NodeHolds, FetchedFor
  <2>3. p # q
    BY <2>1, <2>2, OneBody DEF FetchInv
  <2> QED
    BY <2>1, <2>2, <2>3
<1> QED
  BY <1>1, Invariance, FetchInvariance, SourceInvariance, PTL
=============================================================================
