------------------------------ MODULE RenderProofs ------------------------------
(***************************************************************************)
(* Proofs about the rendered page, for every descriptor graph, every       *)
(* choice of transforms, templates and failures, and any number of pages.  *)
(*                                                                         *)
(* The shape of a resolved tree comes first: one root, and siblings in the *)
(* order of their places.  Then what its paths are, what renderNode        *)
(* answers at each depth, and by induction on the depth, which counts      *)
(* upwards from the leaves to the root, the properties of the page.        *)
(***************************************************************************)
EXTENDS RenderProps, ResolverWalk, SequenceFacts

-----------------------------------------------------------------------------
(* The shape of the tree, as the walk leaves it.                           *)

Siblings(r, i, j) == tree[r][i].parent = tree[r][j].parent

(* Node i is the root, or stands before its younger siblings, those still  *)
(* to do and the one in hand.                                              *)
InOrder(r, i) ==
    LET n == tree[r][i]
    IN  /\ n.place \in Place
        /\ \A j \in Nodes(r) : Siblings(r, i, j) /\ i < j => Precedes(n.place, tree[r][j].place)
        /\ \A c \in tree[r][n.parent].todo : Precedes(n.place, c)
        /\ Active(r) /\ call[r].parent = n.parent => Precedes(n.place, call[r].place)

ShapeOK(r) ==
    /\ result[r] = "ok" => tree[r] # << >>
    /\ \A i \in Nodes(r) : IF tree[r][i].parent = 0 THEN i = 1 ELSE InOrder(r, i)

ShapeInv == \A r \in Request : ShapeOK(r)

(* Every step keeps the shape: a node is added last, when what is still to *)
(* do comes after it.                                                      *)
LEMMA ShapeStep ==
    ASSUME IInv, NEW r \in Request, ChildrenOK(r), ContextOK(r), ShapeOK(r), [Next]_vars
    PROVE  ShapeOK(r)'
<1>0. /\ tree[r] \in Seq(Node) /\ Len(tree[r]) \in Nat /\ node[r] \in Nat
      /\ call[r] \in Activation
      /\ \A i \in Nodes(r) : tree[r][i] \in Node /\ tree[r][i].parent < i
  BY DEF IInv, TypeOK, WalkOK, TreeOK, Nodes
<1>1. ASSUME tree'[r] = tree[r], result'[r] = result[r] \/ result'[r] # "ok",
             Active(r)' => /\ Active(r)
                           /\ call'[r].parent = call[r].parent
                           /\ call'[r].place = call[r].place
      PROVE  ShapeOK(r)'
  <2>1. Nodes(r)' = Nodes(r)
    BY <1>1 DEF Nodes
  <2>2. ASSUME NEW i \in Nodes(r), InOrder(r, i) PROVE InOrder(r, i)'
    BY <1>1, <2>1, <2>2 DEF InOrder, Siblings
  <2> QED
    BY <1>1, <2>1, <2>2 DEF ShapeOK
<1>2. CASE Unmoved(r)
  BY <1>1, <1>2 DEF Unmoved, Active
<1>3. CASE Failed(r)
  <2>1. result'[r] = result[r] \/ result'[r] # "ok"
    BY <1>3 DEF Failed, Reason
  <2> QED
    BY <1>1, <1>3, <2>1 DEF Failed, Active
<1>4. CASE Moved(r)
  BY <1>1, <1>4 DEF Moved
<1>5. CASE Returned(r)
  <2>1. tree'[r] = tree[r] /\ ~Active(r)'
    BY <1>5 DEF Returned, Active
  <2>2. tree[r] # << >>
    <3>1. node[r] # 0 /\ node[r] <= Len(tree[r])
      BY <1>5 DEF Returned, IInv, WalkOK, TreeOK
    <3> QED
      BY <1>0, <3>1
  <2>3. Nodes(r)' = Nodes(r)
    BY <2>1 DEF Nodes
  <2>4. ASSUME NEW i \in Nodes(r), InOrder(r, i) PROVE InOrder(r, i)'
    BY <2>1, <2>3, <2>4 DEF InOrder, Siblings
  <2> QED
    BY <2>1, <2>2, <2>3, <2>4 DEF ShapeOK
<1>6. CASE Created(r)
  <2> DEFINE a == call[r]
  <2>0. PICK m : m = Len(tree[r]) + 1
    OBVIOUS
  <2>1. PICK n \in Node : MadeOf(n, a) /\ tree'[r] = Append(tree[r], n)
    BY <1>6 DEF Created
  <2>2. /\ Active(r) /\ ~Active(r)' /\ result'[r] = result[r]
        /\ m \in Nat \ {0} /\ m \notin Nodes(r)
        /\ Nodes(r)' = Nodes(r) \cup {m} /\ tree'[r] # << >> /\ tree'[r][m] = n
        /\ \A i \in Nodes(r) : tree'[r][i] = tree[r][i] /\ i < m
    <3>1. Len(tree'[r]) = m /\ tree'[r] # << >> /\ tree'[r][m] = n
      BY <1>0, <2>0, <2>1
    <3>2. \A i \in Nodes(r) : tree'[r][i] = tree[r][i] /\ i < m
      BY <1>0, <2>0, <2>1 DEF Nodes
    <3>3. m \in Nat \ {0} /\ m \notin Nodes(r) /\ Nodes(r)' = Nodes(r) \cup {m}
      BY <1>0, <2>0, <3>1 DEF Nodes
    <3>4. Active(r) /\ ~Active(r)' /\ result'[r] = result[r]
      BY <1>6 DEF Created, Active
    <3> QED
      BY <3>1, <3>2, <3>3, <3>4
  <2>3. a.parent \in Nodes(r) \cup {0}
    BY <2>2, ParentInTree
  <2>4. CASE a.parent = 0
    <3>1. Nodes(r) = {} /\ m = 1
      BY <2>0, <2>2, <2>4 DEF ContextOK, ForRoot, Nodes
    <3> QED
      BY <2>1, <2>2, <2>4, <3>1 DEF ShapeOK, MadeOf
  <2>5. CASE a.parent # 0
    <3>1. /\ a.parent \in Nodes(r) /\ n.parent = a.parent /\ n.place = a.place
          /\ a.place \in Place /\ a.place \in Places(tree[r][a.parent].desc)
          /\ m # a.parent
      BY <2>1, <2>2, <2>3, <2>5 DEF MadeOf, ChildrenOK, IInv, WalkOK, ActivationOK, Active
    <3>2. \A c \in tree[r][a.parent].todo : Precedes(a.place, c)
      BY <2>2, <3>1 DEF ChildrenOK, ChildOK, InHand, Fills
    <3>3. ASSUME NEW i \in Nodes(r), tree[r][i].parent # 0 PROVE InOrder(r, i)'
      <4>1. InOrder(r, i) /\ tree'[r][i] = tree[r][i]
        BY <2>2, <3>3 DEF ShapeOK
      <4>2. tree[r][i].parent \in Nodes(r)
        BY <1>0, <3>3 DEF Nodes, Node
      <4>3. \A j \in Nodes(r) : tree'[r][j] = tree[r][j]
        BY <2>2
      <4>4. Siblings(r, i, m)' => Precedes(tree[r][i].place, n.place)
        BY <2>2, <3>1, <4>1 DEF InOrder, Siblings
      <4>5. \A j \in Nodes(r) : Siblings(r, i, j)' <=> Siblings(r, i, j)
        BY <4>1, <4>3 DEF Siblings
      <4> QED
        BY <2>2, <4>1, <4>2, <4>3, <4>4, <4>5 DEF InOrder
    <3>4. InOrder(r, m)'
      <4>1. tree'[r][m].place = a.place /\ tree'[r][m].parent = a.parent
        BY <2>2, <3>1
      <4>2. tree'[r][a.parent].todo = tree[r][a.parent].todo
        BY <2>2, <3>1
      <4>3. ASSUME NEW j \in Nodes(r)' PROVE ~(m < j)
        BY <1>0, <2>2, <4>3 DEF Nodes
      <4> QED
        BY <2>2, <3>1, <3>2, <4>1, <4>2, <4>3 DEF InOrder
    <3>5. tree'[r][m].parent # 0
      BY <2>2, <2>5, <3>1
    <3> QED
      BY <2>2, <3>3, <3>4, <3>5 DEF ShapeOK
  <2> QED
    BY <2>4, <2>5
<1>7. CASE Entered(r)
  <2> DEFINE k == node[r]
             p == tree[r][k]
  <2>1. pc[r] = "slots" /\ k # 0 /\ k \in Nodes(r) /\ p \in Node /\ ~Active(r)
    BY <1>0, <1>7 DEF Entered, Active, IInv, WalkOK, TreeOK, Nodes
  <2>2. PICK c \in p.todo :
          /\ call'[r].parent = k /\ call'[r].place = c
          /\ tree'[r] = [tree[r] EXCEPT ![k] = [p EXCEPT !.todo = p.todo \ {c}]]
    <3>1. PICK c \in p.todo :
            /\ call'[r] = NewActivation(k, c, ChildAt(p.desc, c).ref,
                             ChildAt(p.desc, c).desc, p.base, p.depth + 1, p.seen)
            /\ tree'[r] = [tree[r] EXCEPT ![k] = [p EXCEPT !.todo = p.todo \ {c}]]
      BY <1>7 DEF Entered
    <3>2. call'[r].parent = k /\ call'[r].place = c
      BY <3>1 DEF NewActivation
    <3> QED
      BY <3>1, <3>2
  <2>3. /\ Nodes(r)' = Nodes(r) /\ result'[r] = result[r]
        /\ tree[r] # << >> => tree'[r] # << >>
        /\ \A i \in Nodes(r) : /\ tree'[r][i].parent = tree[r][i].parent
                               /\ tree'[r][i].place = tree[r][i].place
                               /\ tree'[r][i].todo \subseteq tree[r][i].todo
    <3>1. /\ Len(tree'[r]) = Len(tree[r])
          /\ \A i \in Nodes(r) : tree'[r][i] = IF i = k THEN [p EXCEPT !.todo = p.todo \ {c}]
                                               ELSE tree[r][i]
      BY <1>0, <2>2 DEF Nodes
    <3>2. tree[r] # << >> => tree'[r] # << >>
      BY <1>0, <2>1, <2>2, <3>1 DEF Nodes
    <3> QED
      BY <1>7, <2>1, <3>1, <3>2 DEF Entered, Nodes, Node
  <2>4. ASSUME NEW i \in Nodes(r), tree[r][i].parent # 0 PROVE InOrder(r, i)'
    <3>1. InOrder(r, i) /\ tree[r][i].parent \in Nodes(r)
      BY <1>0, <2>4 DEF ShapeOK, Nodes, Node
    <3>2. tree[r][i].parent = k => Precedes(tree[r][i].place, c)
      BY <3>1 DEF InOrder
    <3> QED
      BY <2>2, <2>3, <3>1, <3>2 DEF InOrder, Siblings
  <2> QED
    BY <2>3, <2>4 DEF ShapeOK
<1> QED
  BY <1>2, <1>3, <1>4, <1>5, <1>6, <1>7, StepKinds

(* The shape is an invariant, on top of the walk and its contexts.         *)
LEMMA ShapeInvariance == Spec => []ShapeInv
<1>1. Init => ShapeInv
  BY DEF Init, ShapeInv, ShapeOK, Nodes
<1>2. IInv /\ WalkInv /\ ContextInv /\ ShapeInv /\ [Next]_vars => ShapeInv'
  BY ShapeStep DEF WalkInv, ContextInv, ShapeInv
<1> QED
  BY <1>1, <1>2, Invariance, WalkInvariance, ContextInvariance, PTL DEF Spec

-----------------------------------------------------------------------------
(* The paths of a tree.                                                    *)

PageInv == IInv /\ ShapeInv /\ AncestryInv

(* What the invariants say of one tree, in the form the proofs below use.  *)
LEMMA TreeFacts ==
    ASSUME PageInv, NEW r \in Request
    PROVE  /\ tree[r] \in Seq(Node) /\ Len(tree[r]) \in Nat
           /\ Nodes(r) = 1 .. Len(tree[r])
           /\ \A i \in Nodes(r) :
                /\ i \in Nat \ {0} /\ tree[r][i] \in Node
                /\ tree[r][i].parent \in Nat /\ tree[r][i].parent < i
                /\ tree[r][i].parent # 0 => tree[r][i].parent \in Nodes(r)
                /\ tree[r][i].parent = 0 <=> i = 1
<1>1. tree[r] \in Seq(Node) /\ Len(tree[r]) \in Nat /\ Nodes(r) = 1 .. Len(tree[r])
  BY DEF PageInv, IInv, TypeOK, Nodes
<1>2. ASSUME NEW i \in Nodes(r)
      PROVE  /\ i \in Nat \ {0} /\ tree[r][i] \in Node
             /\ tree[r][i].parent \in Nat /\ tree[r][i].parent < i
  <2>1. i \in 1 .. Len(tree[r]) /\ tree[r][i].parent < i
    BY DEF PageInv, IInv, WalkOK, TreeOK, Nodes
  <2>2. i \in Nat \ {0} /\ tree[r][i] \in Node
    BY <1>1, <2>1
  <2> QED
    BY <2>1, <2>2 DEF Node
<1>3. ASSUME NEW i \in Nodes(r)
      PROVE  /\ tree[r][i].parent # 0 => tree[r][i].parent \in Nodes(r)
             /\ tree[r][i].parent = 0 <=> i = 1
  <2>1. tree[r][i].parent = 0 => i = 1
    BY DEF PageInv, ShapeInv, ShapeOK
  <2> QED
    BY <1>1, <1>2, <2>1
<1> QED
  BY <1>1, <1>2, <1>3

(* A path is the node's own and its parent's path.                         *)
LEMMA PathSteps ==
    ASSUME PageInv, NEW r \in Request, NEW i \in Nodes(r)
    PROVE  LET up == Path2Root(r)
           IN  /\ up[i] = {i} \cup (IF tree[r][i].parent = 0 THEN {} ELSE up[tree[r][i].parent])
               /\ up[i] \subseteq 1 .. i /\ up[i] \subseteq Nodes(r) /\ IsFiniteSet(up[i])
               /\ Cardinality(up[i]) \in Nat \ {0}
<1> DEFINE up == Path2Root(r)
<1>1. IsUp(r, up)
  <2>1. PICK g : IsUp(r, g)
    BY DEF PageInv, AncestryInv, AncestryOK
  <2> QED
    BY <2>1, PathIsUp
<1>2. up[i] = {i} \cup (IF tree[r][i].parent = 0 THEN {} ELSE up[tree[r][i].parent])
  <2> HIDE DEF up
  <2> QED
    BY <1>1 DEF IsUp
<1>3. PathOK(r, i, up[i])
  BY PathsOK DEF PageInv
<1>4. up[i] \subseteq 1 .. i /\ up[i] \subseteq Nodes(r) /\ IsFiniteSet(up[i]) /\ up[i] # {}
  BY <1>3, TreeFacts DEF PathOK
<1>5. Cardinality(up[i]) \in Nat \ {0}
  BY <1>4, FS_CardinalityType, FS_EmptySet
<1> QED
  BY <1>2, <1>4, <1>5

(* A level below its parent.                                               *)
LEMMA PathLength ==
    ASSUME PageInv, NEW r \in Request, NEW i \in Nodes(r)
    PROVE  LET up == Path2Root(r)
           IN  /\ i = 1 => Cardinality(up[i]) = 1
               /\ i # 1 => Cardinality(up[i]) = Cardinality(up[tree[r][i].parent]) + 1
<1>1. PICK up : up = Path2Root(r)
  OBVIOUS
<1>2. CASE i = 1
  <2>1. tree[r][i].parent = 0
    BY <1>2, TreeFacts
  <2>2. up[i] = {1}
    BY <1>1, <1>2, <2>1, PathSteps
  <2>3. Cardinality({1}) = 1
    BY FS_Singleton
  <2> QED
    BY <1>1, <1>2, <2>2, <2>3
<1>3. CASE i # 1
  <2>1. PICK p \in Nodes(r) : p = tree[r][i].parent /\ p < i /\ p # 0
    BY <1>3, TreeFacts
  <2>2. up[i] = {i} \cup up[p] /\ IsFiniteSet(up[p]) /\ up[p] \subseteq 1 .. p
    BY <1>1, <2>1, PathSteps
  <2>3. i \notin up[p]
    BY <2>1, <2>2, TreeFacts
  <2>4. Cardinality(up[p] \cup {i}) = Cardinality(up[p]) + 1
    BY <2>2, <2>3, FS_AddElement
  <2>5. up[i] = up[p] \cup {i}
    BY <2>2
  <2> QED
    BY <1>1, <1>3, <2>1, <2>4, <2>5
<1> QED
  BY <1>2, <1>3

(* What holds of every path: it begins at the root, it holds the paths of  *)
(* its nodes, it branches nowhere, and below each of its nodes but the     *)
(* last it goes on with a child.                                           *)
PathShape(r, i) ==
    LET up == Path2Root(r)
    IN  /\ 1 \in up[i]
        /\ \A j \in up[i] : up[j] \subseteq up[i]
        /\ \A j, k \in up[i] : Siblings(r, j, k) => j = k
        /\ \A j, k \in up[i] : j \in up[k] \/ k \in up[j]
        /\ \A j \in up[i] \ {i} : \E c \in up[i] : tree[r][c].parent = j

(* A node's path has its shape if the path of its parent has.              *)
LEMMA PathStep ==
    ASSUME PageInv, NEW r \in Request, NEW i \in Nodes(r),
           i # 1 => PathShape(r, tree[r][i].parent)
    PROVE  PathShape(r, i)
<1>1. PICK up : up = Path2Root(r)
  OBVIOUS
<1>2. CASE i = 1
  <2>1. up[i] = {1} /\ up[1] = {1}
    BY <1>1, <1>2, TreeFacts, PathSteps
  <2> QED
    BY <1>1, <1>2, <2>1 DEF PathShape
<1>3. CASE i # 1
  <2>1. PICK p \in Nodes(r) : p = tree[r][i].parent /\ p < i /\ p # 0
    BY <1>3, TreeFacts
  <2>2. PathShape(r, p)
    BY <1>3, <2>1
  <2>3. /\ up[i] = {i} \cup up[p] /\ up[p] \subseteq 1 .. p /\ up[p] \subseteq Nodes(r)
        /\ p \in up[p]
    <3>1. up[p] = {p} \cup (IF tree[r][p].parent = 0 THEN {} ELSE up[tree[r][p].parent])
      BY <1>1, PathSteps
    <3> QED
      BY <1>1, <2>1, <3>1, PathSteps
  <2>4. 1 \in up[i] /\ \A j \in up[i] : up[j] \subseteq up[i]
    BY <1>1, <2>2, <2>3 DEF PathShape
  <2>5. ASSUME NEW k \in up[p] PROVE ~Siblings(r, i, k)
    BY <2>1, <2>3, TreeFacts DEF Siblings
  <2>6. \A j, k \in up[i] : Siblings(r, j, k) => j = k
    <3>1. \A j, k \in up[p] : Siblings(r, j, k) => j = k
      BY <1>1, <2>2 DEF PathShape
    <3> QED
      BY <2>3, <2>5, <3>1 DEF Siblings
  <2>7. \A j, k \in up[i] : j \in up[k] \/ k \in up[j]
    BY <1>1, <2>2, <2>3 DEF PathShape
  <2>8. \A j \in up[i] \ {i} : \E c \in up[i] : tree[r][c].parent = j
    BY <1>1, <2>1, <2>2, <2>3 DEF PathShape
  <2> QED
    BY <1>1, <2>4, <2>6, <2>7, <2>8 DEF PathShape
<1> QED
  BY <1>2, <1>3

(* Every path has it: induction along the indices, parents first.          *)
LEMMA PathsShape ==
    ASSUME PageInv, NEW r \in Request
    PROVE  \A i \in Nodes(r) : PathShape(r, i)
<1>1. PICK n \in Nat : n = Len(tree[r]) /\ Nodes(r) = 1 .. n
  BY TreeFacts
<1> DEFINE T == {m \in 0 .. n : \A i \in 1 .. m : PathShape(r, i)}
<1>2. 0 \in T
  BY <1>1
<1>3. ASSUME NEW m \in 0 .. n, m \in T, m < n PROVE m + 1 \in T
  <2>1. m + 1 \in Nodes(r) /\ m + 1 \in 0 .. n
    BY <1>1, <1>3
  <2>2. m + 1 # 1 => tree[r][m + 1].parent \in 1 .. m
    BY <1>1, <1>3, <2>1, TreeFacts
  <2>3. PathShape(r, m + 1)
    BY <1>3, <2>1, <2>2, PathStep
  <2>4. \A i \in 1 .. m + 1 : i \in 1 .. m \/ i = m + 1
    BY <1>3
  <2> QED
    BY <1>3, <2>1, <2>3, <2>4
<1>4. 0 .. n \subseteq T
  <2> HIDE DEF T
  <2> QED
    BY <1>1, <1>2, <1>3, IndexInduction
<1> QED
  BY <1>1, <1>4

(* The resolver's limit is reached before the renderer's.                  *)
LEMMA PathsShort ==
    ASSUME PageInv, NEW r \in Request, NEW i \in Nodes(r)
    PROVE  Cardinality(Path2Root(r)[i]) <= MaxRenderDepth
<1>1. PathOK(r, i, Path2Root(r)[i])
  BY PathsOK DEF PageInv
<1>2. /\ Cardinality(Path2Root(r)[i]) \in Nat
      /\ Cardinality(tree[r][i].seen) \in Nat
  BY <1>1, FS_CardinalityType DEF PathOK
<1>3. MaxDepth \in Int /\ MaxRenderDepth \in Int
  BY ResolverAssumption DEF MaxDepth, DefaultMaxDepth, MaxRenderDepth
<1> QED
  BY <1>1, <1>2, <1>3, DepthAssumption DEF PathOK

(* All of this holds in every reachable state.                             *)
LEMMA PageInvariance == Spec => []PageInv
BY Invariance, ShapeInvariance, AncestryInvariance, PTL DEF PageInv

(* No tree that Resolve returns has a node that the renderer's guard would *)
(* cut: its levels are no more than what the resolver's limit allows.      *)
THEOREM GuardStaysIdle == Spec => []GuardIsNeverNeeded
<1>1. PageInv => GuardIsNeverNeeded
  BY PathsShort DEF GuardIsNeverNeeded, Resolved
<1> QED
  BY <1>1, PageInvariance, PTL

-----------------------------------------------------------------------------
(* What renderNode answers at each depth.                                  *)

Level(t, h, d) ==
    h[d] = [x \in (1 .. Len(t)) \X Input |->
              IF d >= MaxRenderDepth THEN << >>
              ELSE RenderNode(t, x[1], x[2], h[d + 1])]

IsHtml(t, h) ==
    h = [d \in 0 .. MaxRenderDepth |->
           [x \in (1 .. Len(t)) \X Input |->
              IF d >= MaxRenderDepth THEN << >>
              ELSE RenderNode(t, x[1], x[2], h[d + 1])]]

(* The function exists: level by level, from the guard up to the root.     *)
LEMMA HtmlExists ==
    ASSUME NEW t PROVE \E h : IsHtml(t, h)
<1>0. PICK n \in Nat : n = MaxRenderDepth
  BY DEF MaxRenderDepth
<1> DEFINE Done(h, m) == DOMAIN h = 0 .. n /\ \A d \in n - m .. n : Level(t, h, d)
           T == {m \in 0 .. n : \E h : Done(h, m)}
<1>1. 0 \in T
  <2>1. PICK e : e = [x \in (1 .. Len(t)) \X Input |-> << >>]
    OBVIOUS
  <2>2. PICK h : h = [d \in 0 .. n |-> e]
    OBVIOUS
  <2>3. h[n] = e /\ n >= n
    BY <2>2
  <2>4. Level(t, h, n)
    BY <1>0, <2>1, <2>3 DEF Level
  <2>5. \A d \in n - 0 .. n : d = n
    OBVIOUS
  <2> QED
    BY <2>2, <2>4, <2>5
<1>2. ASSUME NEW m \in 0 .. n, m \in T, m < n PROVE m + 1 \in T
  <2>1. PICK h : Done(h, m)
    BY <1>2
  <2>2. PICK k \in 0 .. n : k = n - (m + 1) /\ k < n /\ k + 1 = n - m
    BY <1>2
  <2>3. PICK g : g = [d \in 0 .. n |->
                        IF d = k
                        THEN [x \in (1 .. Len(t)) \X Input |->
                                IF k >= MaxRenderDepth THEN << >>
                                ELSE RenderNode(t, x[1], x[2], h[k + 1])]
                        ELSE h[d]]
    OBVIOUS
  <2>4. \A d \in 0 .. n : d # k => g[d] = h[d]
    BY <2>3
  <2>5. Level(t, g, k)
    <3>1. k + 1 \in 0 .. n /\ k + 1 # k
      BY <2>2
    <3>2. g[k + 1] = h[k + 1]
      BY <2>4, <3>1
    <3> QED
      BY <2>2, <2>3, <3>2 DEF Level
  <2>6. ASSUME NEW d \in k + 1 .. n PROVE Level(t, g, d)
    <3>1. Level(t, h, d) /\ d \in 0 .. n /\ d # k
      BY <2>1, <2>2
    <3>2. d < n => d + 1 \in 0 .. n /\ d + 1 # k
      BY <2>2
    <3>3. CASE d = n
      BY <1>0, <2>4, <3>1, <3>3 DEF Level
    <3>4. CASE d # n
      <4>1. g[d] = h[d] /\ g[d + 1] = h[d + 1]
        BY <2>4, <3>1, <3>2, <3>4
      <4> QED
        BY <3>1, <4>1 DEF Level
    <3> QED
      BY <3>3, <3>4
  <2>7. \A d \in n - (m + 1) .. n : d = k \/ d \in k + 1 .. n
    BY <2>2
  <2>8. Done(g, m + 1)
    <3>1. DOMAIN g = 0 .. n
      BY <2>3
    <3> QED
      BY <2>5, <2>6, <2>7, <3>1
  <2> HIDE DEF Done
  <2> QED
    BY <1>2, <2>8
<1>3. 0 .. n \subseteq T
  <2> HIDE DEF T
  <2> QED
    BY <1>1, <1>2, IndexInduction
<1>4. PICK h : Done(h, n)
  <2> HIDE DEF Done
  <2> QED
    BY <1>3
<1>5. n - n .. n = 0 .. n
  OBVIOUS
<1>6. IsHtml(t, [d \in 0 .. n |-> h[d]])
  <2>1. PICK g : g = [d \in 0 .. n |-> h[d]]
    OBVIOUS
  <2>2. ASSUME NEW d \in 0 .. n
        PROVE  g[d] = [x \in (1 .. Len(t)) \X Input |->
                         IF d >= MaxRenderDepth THEN << >>
                         ELSE RenderNode(t, x[1], x[2], g[d + 1])]
    <3>1. Level(t, h, d) /\ g[d] = h[d]
      BY <1>4, <1>5, <2>1
    <3>2. CASE d = n
      BY <1>0, <3>1, <3>2 DEF Level
    <3>3. CASE d # n
      <4>1. g[d + 1] = h[d + 1]
        BY <2>1, <3>3
      <4> QED
        BY <3>1, <4>1 DEF Level
    <3> QED
      BY <3>2, <3>3
  <2>3. g = [d \in 0 .. n |->
               [x \in (1 .. Len(t)) \X Input |->
                  IF d >= MaxRenderDepth THEN << >>
                  ELSE RenderNode(t, x[1], x[2], g[d + 1])]]
    <3>1. DOMAIN g = 0 .. n /\ g = [d \in 0 .. n |-> g[d]]
      BY <2>1
    <3> QED
      BY <2>2, <3>1
  <2>4. IsHtml(t, g)
    BY <1>0, <2>3 DEF IsHtml
  <2> QED
    BY <2>1, <2>4
<1> QED
  BY <1>6

(* What Html answers at a depth, from what it answers one level below.     *)
LEMMA HtmlLevels ==
    ASSUME NEW t, NEW d \in 0 .. MaxRenderDepth, NEW i \in 1 .. Len(t), NEW input \in Input
    PROVE  Html(t)[d][<< i, input >>] =
             IF d >= MaxRenderDepth THEN << >>
             ELSE RenderNode(t, i, input, Html(t)[d + 1])
<1>1. Html(t) = CHOOSE h : IsHtml(t, h)
  BY DEF Html, IsHtml
<1>2. PICK h : h = Html(t) /\ IsHtml(t, h)
  BY <1>1, HtmlExists
<1>3. h[d] = [x \in (1 .. Len(t)) \X Input |->
               IF d >= MaxRenderDepth THEN << >>
               ELSE RenderNode(t, x[1], x[2], h[d + 1])]
  BY <1>2 DEF IsHtml
<1>4. PICK x \in (1 .. Len(t)) \X Input : x = << i, input >>
  OBVIOUS
<1>5. h[d][x] = IF d >= MaxRenderDepth THEN << >> ELSE RenderNode(t, x[1], x[2], h[d + 1])
  BY <1>3, <1>4
<1> QED
  BY <1>2, <1>4, <1>5

Shown(t) == [node : 1 .. Len(t), model : Input]
Answer(t) == [(1 .. Len(t)) \X Input -> Seq(Shown(t))]

(* A model is an input again.                                              *)
LEMMA ModelType ==
    ASSUME NEW n \in Node, NEW input \in Input PROVE Model(n, input) \in Input
<1>1. n.desc \in Desc
  BY DEF Node
<1>2. ASSUME Descriptor[n.desc].mapper # None
      PROVE  Model(n, input) = Append(input, Descriptor[n.desc].mapper)
             /\ Descriptor[n.desc].mapper \in Projection
  BY <1>1, <1>2 DEF Model, Projection
<1>3. ASSUME Descriptor[n.desc].mapper = None, Transform[n.desc] # None
      PROVE  Model(n, input) = Append(input, Transform[n.desc])
             /\ Transform[n.desc] \in Projection
  BY <1>1, <1>3 DEF Model, Projection
<1>4. ASSUME Descriptor[n.desc].mapper = None, Transform[n.desc] = None
      PROVE  Model(n, input) = input
  BY <1>4 DEF Model
<1> QED
  BY <1>2, <1>3, <1>4 DEF Input

(* The children of node i that fill slot s, joined by Slot.                *)
Fillers(t, i, s, input, below) ==
    [j \in 1 .. Len(t) |-> IF InSlot(t, j, i, s) THEN below[<< j, input >>] ELSE << >>]

(* The parts a slot is joined from.                                        *)
LEMMA SlotType ==
    ASSUME NEW t \in Seq(Node), NEW i, NEW s, NEW input \in Input, NEW below \in Answer(t)
    PROVE  /\ Fillers(t, i, s, input, below) \in Seq(Seq(Shown(t)))
           /\ Len(Fillers(t, i, s, input, below)) = Len(t)
           /\ Slot(t, i, s, input, below) = FlattenSeq(Fillers(t, i, s, input, below))
           /\ Slot(t, i, s, input, below) \in Seq(Shown(t))
<1> DEFINE ss == Fillers(t, i, s, input, below)
<1>1. ss \in Seq(Seq(Shown(t))) /\ Len(ss) = Len(t)
  <2>1. \A j \in 1 .. Len(t) : << j, input >> \in (1 .. Len(t)) \X Input
    OBVIOUS
  <2>2. \A j \in 1 .. Len(t) : below[<< j, input >>] \in Seq(Shown(t))
    BY <2>1 DEF Answer
  <2>3. ss \in [1 .. Len(t) -> Seq(Shown(t))]
    BY <2>2 DEF Fillers
  <2> QED
    BY <2>3
<1>2. Slot(t, i, s, input, below) = FlattenSeq(ss)
  BY DEF Slot, Fillers
<1> QED
  BY <1>1, <1>2, FlattenType

(* What a template writes: itself, and what each of its calls gives.       *)
Written(t, i, input, below) ==
    LET calls == Calls[t[i].body]
    IN  [k \in 1 .. Len(calls) |-> Slot(t, i, calls[k], input, below)]

(* The parts a node is joined from.                                        *)
LEMMA NodeType ==
    ASSUME NEW t \in Seq(Node), NEW i \in 1 .. Len(t), NEW input \in Input,
           NEW below \in Answer(t)
    PROVE  LET calls == Calls[t[i].body]
               m == Model(t[i], input)
               ss == Written(t, i, input, below)
           IN  /\ calls \in Seq(SlotName) /\ m \in Input
               /\ ss \in Seq(Seq(Shown(t))) /\ Len(ss) = Len(calls)
               /\ << [node |-> i, model |-> m] >> \in Seq(Shown(t))
               /\ RenderNode(t, i, input, below) =
                    IF << t[i].body, m >> \in Fails THEN << >>
                    ELSE << [node |-> i, model |-> m] >> \o FlattenSeq(ss)
               /\ RenderNode(t, i, input, below) \in Seq(Shown(t))
<1> DEFINE calls == Calls[t[i].body]
           m == Model(t[i], input)
           ss == Written(t, i, input, below)
           own == << [node |-> i, model |-> m] >>
<1>1. calls \in Seq(SlotName) /\ m \in Input
  <2>0. t[i] \in Node
    OBVIOUS
  <2>1. t[i].body \in Body
    BY <2>0 DEF Node
  <2> QED
    BY <2>0, <2>1, ModelType, RenderAssumption
<1>2. ss \in Seq(Seq(Shown(t))) /\ Len(ss) = Len(calls)
  <2>1. \A k \in 1 .. Len(calls) : Slot(t, i, calls[k], input, below) \in Seq(Shown(t))
    BY SlotType
  <2>2. Len(calls) \in Nat
    BY <1>1
  <2> HIDE DEF calls
  <2>3. [k \in 1 .. Len(calls) |-> Slot(t, i, calls[k], input, below)] \in Seq(Seq(Shown(t)))
        /\ Len([k \in 1 .. Len(calls) |-> Slot(t, i, calls[k], input, below)]) = Len(calls)
    BY <2>1, <2>2
  <2> QED
    BY <2>3 DEF Written, calls
<1>3. own \in Seq(Shown(t))
  BY <1>1 DEF Shown
<1>4. RenderNode(t, i, input, below) =
        IF << t[i].body, m >> \in Fails THEN << >> ELSE own \o FlattenSeq(ss)
  BY DEF RenderNode, Written
<1>5. RenderNode(t, i, input, below) \in Seq(Shown(t))
  <2>1. FlattenSeq(ss) \in Seq(Shown(t))
    BY <1>2, FlattenType
  <2> HIDE DEF own, ss
  <2> QED
    BY <1>3, <1>4, <2>1
<1> QED
  BY <1>1, <1>2, <1>3, <1>4, <1>5

(* At every depth the answers are pages of the tree: induction from the    *)
(* guard upwards.                                                          *)
LEMMA HtmlType ==
    ASSUME NEW t \in Seq(Node) PROVE \A d \in 0 .. MaxRenderDepth : Html(t)[d] \in Answer(t)
<1>0. PICK n \in Nat : n = MaxRenderDepth
  BY DEF MaxRenderDepth
<1>1. PICK h : h = Html(t) /\ IsHtml(t, h)
  <2>1. Html(t) = CHOOSE h : IsHtml(t, h)
    BY DEF Html, IsHtml
  <2> QED
    BY <2>1, HtmlExists
<1> DEFINE T == {d \in 0 .. n : h[d] \in Answer(t)}
<1>2. ASSUME NEW d \in 0 .. n,
             \A i \in 1 .. Len(t), input \in Input : h[d][<< i, input >>] \in Seq(Shown(t))
      PROVE  d \in T
  <2>1. h[d] = [x \in (1 .. Len(t)) \X Input |->
                  IF d >= MaxRenderDepth THEN << >> ELSE RenderNode(t, x[1], x[2], h[d + 1])]
    BY <1>0, <1>1 DEF IsHtml
  <2>2. \A x \in (1 .. Len(t)) \X Input : h[d][x] \in Seq(Shown(t))
    BY <1>2
  <2>3. h[d] = [x \in (1 .. Len(t)) \X Input |-> h[d][x]]
    BY <2>1
  <2>4. PICK g : g = h[d]
    OBVIOUS
  <2>5. g \in Answer(t)
    BY <2>2, <2>3, <2>4 DEF Answer
  <2> QED
    BY <2>4, <2>5
<1>3. n \in T
  <2>1. n \in 0 .. n /\ n >= n
    BY <1>0
  <2>2. \A i \in 1 .. Len(t), input \in Input : h[n][<< i, input >>] = << >>
    BY <1>0, <1>1, <2>1, HtmlLevels
  <2>3. << >> \in Seq(Shown(t))
    OBVIOUS
  <2> HIDE DEF T
  <2> QED
    BY <1>2, <2>1, <2>2, <2>3
<1>4. ASSUME NEW d \in 0 .. n, d < n, d + 1 \in T PROVE d \in T
  <2>1. \A i \in 1 .. Len(t), input \in Input :
           h[d][<< i, input >>] = RenderNode(t, i, input, h[d + 1])
    <3>1. ~(d >= n)
      BY <1>4
    <3> QED
      BY <1>0, <1>1, <3>1, HtmlLevels
  <2>2. h[d + 1] \in Answer(t)
    BY <1>4
  <2>3. \A i \in 1 .. Len(t), input \in Input :
           RenderNode(t, i, input, h[d + 1]) \in Seq(Shown(t))
    BY <2>2, NodeType
  <2> QED
    BY <1>2, <2>1, <2>3
<1>5. 0 .. n \subseteq T
  <2> HIDE DEF T
  <2> QED
    BY <1>3, <1>4, DownInduction
<1> QED
  BY <1>0, <1>1, <1>5

(* What stands in the output of a template after itself: element a of what *)
(* its child c gives, where it calls a slot for the p-th time.             *)
Given(t, i, input, below, x, p, c, a) ==
    LET calls == Calls[t[i].body]
    IN  /\ p \in 1 .. Len(calls) /\ c \in 1 .. Len(t) /\ InSlot(t, c, i, calls[p])
        /\ a \in 1 .. Len(below[<< c, input >>]) /\ x = below[<< c, input >>][a]

(* x comes before y: from an earlier call, an earlier child, or earlier in *)
(* what that child gives.                                                  *)
Earlier(t, i, input, below, x, y) ==
    \E p, c, a, q, e, b :
       /\ Given(t, i, input, below, x, p, c, a) /\ Given(t, i, input, below, y, q, e, b)
       /\ p <= q /\ (p = q => c <= e) /\ (p = q /\ c = e => a < b)

(* Every entry of a slot comes from a child in that slot.                  *)
LEMMA SlotParts ==
    ASSUME NEW t \in Seq(Node), NEW i \in 1 .. Len(t), NEW input \in Input,
           NEW below \in Answer(t), NEW p \in 1 .. Len(Calls[t[i].body]),
           NEW html, html = Slot(t, i, Calls[t[i].body][p], input, below)
    PROVE  /\ \A k \in 1 .. Len(html) :
                \E c, a : Given(t, i, input, below, html[k], p, c, a)
           /\ \A k, l \in 1 .. Len(html) : k < l =>
                Earlier(t, i, input, below, html[k], html[l])
<1> DEFINE s == Calls[t[i].body][p]
           ss == Fillers(t, i, s, input, below)
           G(x, c, a) == Given(t, i, input, below, x, p, c, a)
<1>1. ss \in Seq(Seq(Shown(t))) /\ Len(ss) = Len(t) /\ html = FlattenSeq(ss)
  BY SlotType
<1>2. Ordered(html, ss, Len(t))
  <2> HIDE DEF ss
  <2> QED
    BY <1>1, FlattenOrdered
<1>3. ASSUME NEW c \in 1 .. Len(t), NEW a \in 1 .. Len(ss[c]), NEW x, x = ss[c][a]
      PROVE  G(x, c, a)
  <2>1. ss[c] = IF InSlot(t, c, i, s) THEN below[<< c, input >>] ELSE << >>
    BY DEF Fillers
  <2>2. InSlot(t, c, i, s)
    BY <2>1
  <2> QED
    BY <1>3, <2>1, <2>2 DEF Given
<1> HIDE DEF s, ss, G
<1>4. ASSUME NEW k \in 1 .. Len(html) PROVE \E c, a : G(html[k], c, a)
  <2>1. PICK c \in 1 .. Len(t) : \E a \in 1 .. Len(ss[c]) : html[k] = ss[c][a]
    BY <1>2 DEF Ordered
  <2> QED
    BY <1>3, <2>1
<1>5. ASSUME NEW k \in 1 .. Len(html), NEW l \in 1 .. Len(html), k < l
      PROVE  Earlier(t, i, input, below, html[k], html[l])
  <2>1. PICK c \in 1 .. Len(t), e \in 1 .. Len(t) :
           \E a \in 1 .. Len(ss[c]), b \in 1 .. Len(ss[e]) :
              /\ html[k] = ss[c][a] /\ html[l] = ss[e][b]
              /\ c <= e /\ (c = e => a < b)
    <3>1. Before(html[k], html[l], ss, Len(t))
      BY <1>2, <1>5 DEF Ordered
    <3> QED
      BY <3>1 DEF Before
  <2>2. PICK a \in 1 .. Len(ss[c]), b \in 1 .. Len(ss[e]) :
              /\ html[k] = ss[c][a] /\ html[l] = ss[e][b]
              /\ c <= e /\ (c = e => a < b)
    BY <2>1
  <2>3. G(html[k], c, a) /\ G(html[l], e, b)
    BY <1>3, <2>2
  <2>4. p <= p
    OBVIOUS
  <2> QED
    BY <2>2, <2>3, <2>4 DEF Earlier, G
<1> QED
  BY <1>4, <1>5 DEF G

(* Every entry of a rendered node is its own, or comes from a child in a   *)
(* slot it calls.                                                          *)
LEMMA NodeParts ==
    ASSUME NEW t \in Seq(Node), NEW i \in 1 .. Len(t), NEW input \in Input,
           NEW below \in Answer(t), NEW html, html = RenderNode(t, i, input, below)
    PROVE  /\ Len(html) > 0 => html[1] = [node |-> i, model |-> Model(t[i], input)]
           /\ \A k \in 1 .. Len(html) : k > 1 =>
                \E p, c, a : Given(t, i, input, below, html[k], p, c, a)
           /\ \A k, l \in 1 .. Len(html) : 1 < k /\ k < l =>
                Earlier(t, i, input, below, html[k], html[l])
<1> DEFINE calls == Calls[t[i].body]
           m == Model(t[i], input)
           ss == Written(t, i, input, below)
           G(x, p, c, a) == Given(t, i, input, below, x, p, c, a)
<1>0. CASE html = << >>
  BY <1>0
<1>1. CASE html # << >>
  <2>1. PICK own : own = [node |-> i, model |-> m]
    OBVIOUS
  <2>2. PICK rest : rest = FlattenSeq(ss)
    OBVIOUS
  <2>3. /\ ss \in Seq(Seq(Shown(t))) /\ Len(ss) = Len(calls) /\ << own >> \in Seq(Shown(t))
        /\ html = << own >> \o rest
    <3> HIDE DEF ss, calls, m
    <3>1. /\ ss \in Seq(Seq(Shown(t))) /\ Len(ss) = Len(calls)
          /\ << own >> \in Seq(Shown(t))
          /\ html = IF << t[i].body, m >> \in Fails THEN << >> ELSE << own >> \o rest
      BY <2>1, <2>2, NodeType DEF ss, calls, m
    <3> QED
      BY <1>1, <3>1
  <2>4. rest \in Seq(Shown(t)) /\ Ordered(rest, ss, Len(ss)) /\ Len(calls) \in Nat
    <3> HIDE DEF ss, calls
    <3> QED
      BY <2>2, <2>3, FlattenType, FlattenOrdered
  <2>5. \A p \in 1 .. Len(ss) : ss[p] = Slot(t, i, calls[p], input, below)
    BY <2>3 DEF Written
  <2> HIDE DEF ss, calls, m
  <2>6. /\ html[1] = own /\ Len(html) = Len(rest) + 1 /\ Len(rest) \in Nat
        /\ \A k \in 1 .. Len(html) : k > 1 => k - 1 \in 1 .. Len(rest) /\ html[k] = rest[k - 1]
    <3>1. html[1] = own /\ Len(html) = Len(rest) + 1 /\ Len(rest) \in Nat
      BY <2>3, <2>4
    <3>2. ASSUME NEW k \in 1 .. Len(html), k > 1
          PROVE  k - 1 \in 1 .. Len(rest) /\ html[k] = rest[k - 1]
      <4>1. k - 1 \in 1 .. Len(rest)
        BY <3>1, <3>2
      <4> QED
        BY <2>3, <2>4, <3>1, <3>2, <4>1
    <3> QED
      BY <3>1, <3>2
  <2>7. ASSUME NEW p \in 1 .. Len(ss), NEW a \in 1 .. Len(ss[p])
        PROVE  \E c, b : G(ss[p][a], p, c, b)
    <3>1. p \in 1 .. Len(calls) /\ ss[p] = Slot(t, i, calls[p], input, below)
      BY <2>3, <2>5
    <3> QED
      BY <3>1, SlotParts DEF calls
  <2>8. ASSUME NEW k \in 1 .. Len(html), k > 1 PROVE \E p, c, a : G(html[k], p, c, a)
    <3>1. PICK x \in 1 .. Len(rest) : html[k] = rest[x]
      BY <2>6, <2>8
    <3>2. PICK p \in 1 .. Len(ss) : \E a \in 1 .. Len(ss[p]) : html[k] = ss[p][a]
      BY <2>4, <3>1 DEF Ordered
    <3> HIDE DEF G
    <3> QED
      BY <2>7, <3>2
  <2>9. ASSUME NEW k \in 1 .. Len(html), NEW l \in 1 .. Len(html), 1 < k, k < l
        PROVE  Earlier(t, i, input, below, html[k], html[l])
    <3>1. PICK k1 \in 1 .. Len(rest), l1 \in 1 .. Len(rest) :
             k1 < l1 /\ html[k] = rest[k1] /\ html[l] = rest[l1]
      <4>1. k - 1 \in 1 .. Len(rest) /\ html[k] = rest[k - 1]
        BY <2>6, <2>9
      <4>2. l - 1 \in 1 .. Len(rest) /\ html[l] = rest[l - 1] /\ k - 1 < l - 1
        BY <2>6, <2>9
      <4> QED
        BY <4>1, <4>2
    <3>2. PICK p \in 1 .. Len(ss), q \in 1 .. Len(ss) :
            \E a \in 1 .. Len(ss[p]), b \in 1 .. Len(ss[q]) :
              /\ html[k] = ss[p][a] /\ html[l] = ss[q][b]
              /\ p <= q /\ (p = q => a < b)
      <4>1. \E p, q \in 1 .. Len(ss) : \E a \in 1 .. Len(ss[p]), b \in 1 .. Len(ss[q]) :
               /\ rest[k1] = ss[p][a] /\ rest[l1] = ss[q][b]
               /\ p <= q /\ (p = q => a < b)
        <5>1. Before(rest[k1], rest[l1], ss, Len(ss))
          BY <2>4, <3>1 DEF Ordered
        <5> QED
          BY <5>1 DEF Before
      <4> QED
        BY <3>1, <4>1
    <3>3. PICK a \in 1 .. Len(ss[p]), b \in 1 .. Len(ss[q]) :
              /\ html[k] = ss[p][a] /\ html[l] = ss[q][b]
              /\ p <= q /\ (p = q => a < b)
      BY <3>2
    <3>4. CASE p = q
      <4>1. p \in 1 .. Len(calls) /\ ss[p] = Slot(t, i, calls[p], input, below)
        BY <2>3, <2>5
      <4>2. PICK slot : slot = Slot(t, i, calls[p], input, below)
        OBVIOUS
      <4>3. /\ a \in 1 .. Len(slot) /\ b \in 1 .. Len(slot) /\ a < b
            /\ html[k] = slot[a] /\ html[l] = slot[b]
        BY <3>3, <3>4, <4>1, <4>2
      <4> QED
        BY <4>1, <4>2, <4>3, SlotParts DEF calls
    <3>5. CASE p # q
      <4>1. PICK c, d : G(html[k], p, c, d)
        BY <2>7, <3>3
      <4>2. PICK e, f : G(html[l], q, e, f)
        BY <2>7, <3>3
      <4> QED
        BY <3>3, <3>5, <4>1, <4>2 DEF Earlier
    <3> QED
      BY <3>4, <3>5
  <2> QED
    BY <2>1, <2>6, <2>8, <2>9 DEF m
<1> QED
  BY <1>0, <1>1

-----------------------------------------------------------------------------
(* Projections.  Whatever node q gives stands below q, and is rendered     *)
(* against its own projection.                                             *)

Faithful(r, q, html) ==
    \A k \in 1 .. Len(html) :
        /\ html[k].node \in Nodes(r) /\ q \in Path2Root(r)[html[k].node]
        /\ html[k].model = Model(tree[r][html[k].node], Representation)

(* Rendering begins with the representation, which is an input.            *)
LEMMA InputBegins == Representation \in Input
BY DEF Representation, Input

(* A child stands on the path of what is below it, and its parent too.     *)
LEMMA AboveChild ==
    ASSUME PageInv, NEW r \in Request, NEW q \in Nodes(r), NEW c \in Nodes(r),
           tree[r][c].parent = q, NEW i \in Nodes(r), c \in Path2Root(r)[i]
    PROVE  LET up == Path2Root(r)
           IN  /\ q \in up[i] /\ up[q] \subseteq up[i] /\ up[c] \subseteq up[i]
               /\ up[c] = {c} \cup up[q] /\ q \in up[q] /\ c \notin up[q] /\ c # q
<1>1. PICK up : up = Path2Root(r)
  OBVIOUS
<1>2. q # 0 /\ q \in Nat /\ c \in Nat /\ q < c
  BY TreeFacts
<1>3. up[c] = {c} \cup up[q] /\ up[q] \subseteq 1 .. q
  BY <1>1, <1>2, PathSteps
<1>4. q \in up[q]
  BY <1>1, PathSteps
<1>5. up[c] \subseteq up[i]
  BY <1>1, PathsShape DEF PathShape
<1> QED
  BY <1>1, <1>2, <1>3, <1>4, <1>5

(* A page faithful to what is below each child is faithful to the node.    *)
LEMMA FaithfulStep ==
    ASSUME PageInv, NEW r \in Request, NEW q \in Nodes(r), NEW below \in Answer(tree[r]),
           \A c \in Nodes(r) : Faithful(r, c, below[<< c, Representation >>]),
           NEW html, html = RenderNode(tree[r], q, Representation, below)
    PROVE  Faithful(r, q, html)
<1> DEFINE t == tree[r]
<1>1. t \in Seq(Node) /\ Nodes(r) = 1 .. Len(t)
  BY TreeFacts
<1>2. /\ Len(html) > 0 =>
           html[1] = [node |-> q, model |-> Model(t[q], Representation)]
      /\ \A k \in 1 .. Len(html) : k > 1 =>
           \E p, c, a : Given(t, q, Representation, below, html[k], p, c, a)
  <2> HIDE DEF t
  <2> QED
    BY <1>1, InputBegins, NodeParts DEF t
<1>3. ASSUME NEW k \in 1 .. Len(html)
      PROVE  /\ html[k].node \in Nodes(r) /\ q \in Path2Root(r)[html[k].node]
             /\ html[k].model = Model(t[html[k].node], Representation)
  <2>1. CASE k = 1
    <3>1. Len(html) > 0
      BY <2>1
    <3>2. q \in Path2Root(r)[q]
      BY PathSteps
    <3> QED
      BY <1>2, <2>1, <3>1, <3>2
  <2>2. CASE k # 1
    <3>1. PICK p, c, a : Given(t, q, Representation, below, html[k], p, c, a)
      BY <1>2, <2>2
    <3>2. /\ c \in Nodes(r) /\ t[c].parent = q
          /\ a \in 1 .. Len(below[<< c, Representation >>])
          /\ html[k] = below[<< c, Representation >>][a]
      BY <1>1, <3>1 DEF Given, InSlot
    <3>3. /\ html[k].node \in Nodes(r) /\ c \in Path2Root(r)[html[k].node]
          /\ html[k].model = Model(t[html[k].node], Representation)
      BY <3>2 DEF Faithful
    <3> QED
      BY <3>2, <3>3, AboveChild
  <2> QED
    BY <2>1, <2>2
<1> QED
  BY <1>3 DEF Faithful

(* At every depth, that is; h is what the nodes of a tree answer at one.   *)
LEMMA HtmlFaithful ==
    ASSUME PageInv, NEW r \in Request
    PROVE  \A d \in 0 .. MaxRenderDepth : \A q \in Nodes(r) :
              Faithful(r, q, Html(tree[r])[d][<< q, Representation >>])
<1>0. PICK n \in Nat : n = MaxRenderDepth
  BY DEF MaxRenderDepth
<1>1. PICK h : h = Html(tree[r])
  OBVIOUS
<1>2. tree[r] \in Seq(Node) /\ Nodes(r) = 1 .. Len(tree[r])
  BY TreeFacts
<1> DEFINE T == {d \in 0 .. n : \A q \in Nodes(r) : Faithful(r, q, h[d][<< q, Representation >>])}
<1>3. n \in T
  <2>1. n \in 0 .. n /\ n >= n
    BY <1>0
  <2>2. \A q \in Nodes(r) : h[n][<< q, Representation >>] = << >>
    BY <1>0, <1>1, <1>2, <2>1, InputBegins, HtmlLevels
  <2> QED
    BY <2>1, <2>2 DEF Faithful
<1>4. ASSUME NEW d \in 0 .. n, d < n, d + 1 \in T PROVE d \in T
  <2>1. d + 1 \in 0 .. n /\ ~(d >= n)
    BY <1>4
  <2>2. h[d + 1] \in Answer(tree[r])
    BY <1>0, <1>1, <1>2, <2>1, HtmlType
  <2>3. ASSUME NEW q \in Nodes(r) PROVE Faithful(r, q, h[d][<< q, Representation >>])
    <3>1. h[d][<< q, Representation >>] = RenderNode(tree[r], q, Representation, h[d + 1])
      BY <1>0, <1>1, <1>2, <2>1, InputBegins, HtmlLevels
    <3>2. \A c \in Nodes(r) : Faithful(r, c, h[d + 1][<< c, Representation >>])
      BY <1>4
    <3> QED
      BY <2>2, <3>1, <3>2, FaithfulStep
  <2> QED
    BY <2>3
<1>5. 0 .. n \subseteq T
  <2> HIDE DEF T
  <2> QED
    BY <1>3, <1>4, DownInduction
<1> QED
  BY <1>0, <1>1, <1>5

(* The tree of a resolved page has a root, its first node.                 *)
LEMMA RootFirst ==
    ASSUME PageInv, NEW r \in Resolved PROVE 1 \in Nodes(r) /\ r \in Request
<1>1. r \in Request /\ tree[r] # << >>
  BY DEF Resolved, PageInv, ShapeInv, ShapeOK
<1> QED
  BY <1>1, TreeFacts

(* Every template is executed against its own projection of the original   *)
(* representation, however deep it stands below others that transform it.  *)
THEOREM ProjectionsIndependent == Spec => []IndependentProjection
<1>1. PageInv => IndependentProjection
  <2> SUFFICES ASSUME PageInv, NEW r \in Resolved
               PROVE  \A k \in 1 .. Len(Rendered(tree[r])) :
                         Rendered(tree[r])[k].model =
                           Model(tree[r][Rendered(tree[r])[k].node], Representation)
    BY DEF IndependentProjection
  <2>1. 1 \in Nodes(r) /\ r \in Request /\ 0 \in 0 .. MaxRenderDepth
    BY RootFirst DEF MaxRenderDepth
  <2>2. Faithful(r, 1, Rendered(tree[r]))
    BY <2>1, HtmlFaithful DEF Rendered
  <2> QED
    BY <2>2 DEF Faithful
<1> QED
  BY <1>1, PageInvariance, PTL

-----------------------------------------------------------------------------
(* The order of an array, in what any node gives.                          *)

Once(r, i) ==
    \A j \in Path2Root(r)[i] : tree[r][j].parent # 0 => TimesCalled(r, j) = 1

(* Where the paths of x and y lead through the same array, they do so in   *)
(* its order.                                                              *)
InArrayOrder(r, x, y) ==
    \A i \in Path2Root(r)[x], j \in Path2Root(r)[y] :
        /\ Siblings(r, i, j) /\ tree[r][i].parent # 0
        /\ tree[r][i].place[1] = tree[r][j].place[1] /\ Once(r, i)
        => tree[r][i].place[2] <= tree[r][j].place[2]

ArraysInOrder(r, html) ==
    \A k, l \in 1 .. Len(html) : k < l => InArrayOrder(r, html[k].node, html[l].node)

(* The place of a child is a slot name and an index.                       *)
LEMMA PlaceType ==
    ASSUME PageInv, NEW r \in Request, NEW i \in Nodes(r), tree[r][i].parent # 0
    PROVE  tree[r][i].place \in Place /\ tree[r][i].place[1] \in Nat
           /\ tree[r][i].place[2] \in Nat
<1>1. tree[r][i].place \in Place
  BY DEF PageInv, ShapeInv, ShapeOK, InOrder
<1> QED
  BY <1>1 DEF Place, SlotName

(* A slot called once is called at one place.                              *)
LEMMA CalledOnce ==
    ASSUME PageInv, NEW r \in Request, NEW c \in Nodes(r), TimesCalled(r, c) = 1,
           NEW calls, calls = Calls[tree[r][tree[r][c].parent].body], Len(calls) \in Nat,
           NEW p \in 1 .. Len(calls), NEW q \in 1 .. Len(calls),
           calls[p] = tree[r][c].place[1], calls[q] = tree[r][c].place[1]
    PROVE  p = q
<1> DEFINE K == {k \in 1 .. Len(calls) : calls[k] = tree[r][c].place[1]}
<1>1. Cardinality(K) = 1
  BY DEF TimesCalled
<1>2. IsFiniteSet(K)
  <2>1. K \subseteq 1 .. Len(calls)
    OBVIOUS
  <2>2. 1 \in Int /\ Len(calls) \in Int
    OBVIOUS
  <2> HIDE DEF K
  <2> QED
    BY <2>1, <2>2, FS_Interval, FS_Subset
<1>3. p \in K /\ q \in K
  OBVIOUS
<1> HIDE DEF K
<1>4. PICK x : K = {x}
  BY <1>1, <1>2, FS_Singleton
<1> QED
  BY <1>3, <1>4

(* Two nodes on one path are in order: they are the same.                  *)
LEMMA SamePath ==
    ASSUME PageInv, NEW r \in Request, NEW x \in Nodes(r),
           NEW i \in Path2Root(r)[x], NEW j \in Path2Root(r)[x],
           Siblings(r, i, j), tree[r][i].parent # 0
    PROVE  tree[r][i].place[2] <= tree[r][j].place[2]
<1>1. i = j
  BY PathsShape DEF PathShape
<1>2. i \in Nodes(r)
  BY PathSteps
<1>3. tree[r][i].place[2] \in Nat
  BY <1>2, PlaceType
<1> QED
  BY <1>1, <1>3

(* Putting together ordered pages of the children keeps an array's order.  *)
LEMMA OrderStep ==
    ASSUME PageInv, NEW r \in Request, NEW q \in Nodes(r), NEW below \in Answer(tree[r]),
           \A c \in Nodes(r) : /\ Faithful(r, c, below[<< c, Representation >>])
                               /\ ArraysInOrder(r, below[<< c, Representation >>]),
           NEW html, html = RenderNode(tree[r], q, Representation, below)
    PROVE  ArraysInOrder(r, html)
<1>1. PICK t \in Seq(Node) : t = tree[r] /\ Nodes(r) = 1 .. Len(t)
  BY TreeFacts
<1>2. PICK up : up = Path2Root(r)
  OBVIOUS
<1>3. PICK calls \in Seq(SlotName) : calls = Calls[t[q].body] /\ Len(calls) \in Nat
  <2>1. Calls[t[q].body] \in Seq(SlotName)
    BY <1>1, InputBegins, NodeType
  <2> QED
    BY <2>1
<1>4. /\ Len(html) > 0 =>
           html[1] = [node |-> q, model |-> Model(t[q], Representation)]
      /\ \A k, l \in 1 .. Len(html) : 1 < k /\ k < l =>
           Earlier(t, q, Representation, below, html[k], html[l])
  BY <1>1, InputBegins, NodeParts
<1>5. Faithful(r, q, html)
  BY FaithfulStep
<1> SUFFICES ASSUME NEW k \in 1 .. Len(html), NEW l \in 1 .. Len(html), k < l,
                    NEW i \in up[html[k].node], NEW j \in up[html[l].node],
                    Siblings(r, i, j), t[i].parent # 0,
                    t[i].place[1] = t[j].place[1], Once(r, i)
             PROVE  t[i].place[2] <= t[j].place[2]
  BY <1>1, <1>2 DEF ArraysInOrder, InArrayOrder
<1>6. PICK x \in Nodes(r), y \in Nodes(r) :
         x = html[k].node /\ y = html[l].node /\ q \in up[x] /\ q \in up[y]
  BY <1>2, <1>5 DEF Faithful
<1>7. i \in Nodes(r) /\ j \in Nodes(r) /\ i \in up[x] /\ j \in up[y]
  BY <1>2, <1>6, PathSteps
<1>8. up[q] \subseteq up[x] /\ up[q] \subseteq up[y]
  BY <1>2, <1>6, PathsShape DEF PathShape
<1>9. ASSUME i \in up[q] \/ j \in up[q] PROVE t[i].place[2] <= t[j].place[2]
  BY <1>1, <1>2, <1>6, <1>7, <1>8, <1>9, SamePath
<1>10. CASE k = 1
  <2>1. x = q
    BY <1>4, <1>6, <1>10
  <2> QED
    BY <1>7, <1>9, <2>1
<1>11. CASE k # 1 /\ i \notin up[q] /\ j \notin up[q]
  <2>1. PICK m, c, a, n, e, b :
          /\ Given(t, q, Representation, below, html[k], m, c, a)
          /\ Given(t, q, Representation, below, html[l], n, e, b)
          /\ m <= n /\ (m = n => c <= e) /\ (m = n /\ c = e => a < b)
    BY <1>4, <1>11 DEF Earlier
  <2>2. /\ c \in Nodes(r) /\ t[c].parent = q /\ m \in 1 .. Len(calls)
        /\ calls[m] = t[c].place[1]
        /\ a \in 1 .. Len(below[<< c, Representation >>])
        /\ html[k] = below[<< c, Representation >>][a]
    BY <1>1, <1>3, <2>1 DEF Given, InSlot
  <2>3. /\ e \in Nodes(r) /\ t[e].parent = q /\ n \in 1 .. Len(calls)
        /\ calls[n] = t[e].place[1]
        /\ b \in 1 .. Len(below[<< e, Representation >>])
        /\ html[l] = below[<< e, Representation >>][b]
    BY <1>1, <1>3, <2>1 DEF Given, InSlot
  <2>4. c \in up[x] /\ e \in up[y]
    BY <1>2, <1>6, <2>2, <2>3 DEF Faithful
  <2>5. /\ up[c] = {c} \cup up[q] /\ up[e] = {e} \cup up[q]
        /\ q # 0 /\ Siblings(r, c, e)
    <3>1. q # 0
      BY TreeFacts
    <3>2. up[c] = {c} \cup up[q]
      BY <1>1, <1>2, <2>2, <3>1, PathSteps
    <3>3. up[e] = {e} \cup up[q]
      BY <1>1, <1>2, <2>3, <3>1, PathSteps
    <3> QED
      BY <1>1, <2>2, <2>3, <3>1, <3>2, <3>3 DEF Siblings
  <2>6. c \in up[i] /\ e \in up[j]
    <3>1. i \in up[c] \/ c \in up[i]
      BY <1>2, <1>6, <1>7, <2>4, PathsShape DEF PathShape
    <3>2. j \in up[e] \/ e \in up[j]
      BY <1>2, <1>6, <1>7, <2>4, PathsShape DEF PathShape
    <3>3. i \in up[i] /\ j \in up[j]
      BY <1>2, <1>7, PathSteps
    <3> QED
      BY <1>11, <2>5, <3>1, <3>2, <3>3
  <2>7. TimesCalled(r, c) = 1
    BY <1>1, <1>2, <2>2, <2>5, <2>6 DEF Once
  <2>8. ASSUME t[c].place[1] = t[e].place[1] PROVE m = n
    <3>1. calls = Calls[tree[r][tree[r][c].parent].body] /\ Len(calls) \in Nat
      BY <1>1, <1>3, <2>2
    <3>2. calls[m] = tree[r][c].place[1] /\ calls[n] = tree[r][c].place[1]
      BY <1>1, <2>2, <2>3, <2>8
    <3> QED
      BY <2>2, <2>3, <2>7, <3>1, <3>2, CalledOnce, ZenonT(60)
  <2>9. CASE t[i].parent = q
    <3>1. i = c
      <4>1. Siblings(r, i, c)
        BY <1>1, <2>2, <2>9 DEF Siblings
      <4> QED
        BY <1>2, <1>7, <2>4, <4>1, PathsShape DEF PathShape
    <3>2. j = e
      <4>1. Siblings(r, j, e)
        BY <1>1, <2>3, <2>9 DEF Siblings
      <4> QED
        BY <1>2, <1>7, <2>4, <4>1, PathsShape DEF PathShape
    <3>3. m = n /\ c <= e
      BY <2>1, <2>8, <3>1, <3>2
    <3>4. t[c].place[2] \in Nat /\ t[c].place[1] \in Nat
      BY <1>1, <2>2, <2>5, PlaceType
    <3>5. CASE c = e
      BY <3>1, <3>2, <3>4, <3>5
    <3>6. CASE c # e
      <4>1. c < e
        BY <1>1, <2>2, <2>3, <3>3, <3>6
      <4>2. Precedes(t[c].place, t[e].place)
        BY <1>1, <2>2, <2>3, <2>5, <4>1 DEF PageInv, ShapeInv, ShapeOK, InOrder
      <4>3. t[e].place[2] \in Nat
        BY <1>1, <2>3, <2>5, PlaceType
      <4> QED
        BY <3>1, <3>2, <3>4, <4>2, <4>3 DEF Precedes
    <3> QED
      BY <3>5, <3>6
  <2>10. CASE t[i].parent # q
    <3>1. PICK p \in Nodes(r) : p = t[i].parent /\ p = t[j].parent
      BY <1>1, <1>7, TreeFacts DEF Siblings
    <3>2. up[i] = {i} \cup up[p] /\ up[j] = {j} \cup up[p]
      <4>1. p # 0
        BY TreeFacts
      <4> QED
        BY <1>1, <1>2, <1>7, <3>1, <4>1, PathSteps
    <3>3. c \in up[p] /\ e \in up[p]
      BY <2>2, <2>3, <2>6, <2>10, <3>1, <3>2
    <3>4. c = e
      BY <1>2, <2>5, <3>3, PathsShape DEF PathShape
    <3>5. a < b
      BY <2>1, <2>8, <3>4
    <3>6. InArrayOrder(r, x, y)
      BY <1>6, <2>2, <2>3, <3>4, <3>5 DEF ArraysInOrder
    <3> QED
      BY <1>1, <1>2, <1>7, <3>6 DEF InArrayOrder
  <2> QED
    BY <2>9, <2>10
<1> QED
  BY <1>9, <1>10, <1>11

(* Hence at every depth, by induction from the guard upwards.              *)
LEMMA HtmlInOrder ==
    ASSUME PageInv, NEW r \in Request
    PROVE  \A d \in 0 .. MaxRenderDepth : \A q \in Nodes(r) :
              ArraysInOrder(r, Html(tree[r])[d][<< q, Representation >>])
<1>0. PICK n \in Nat : n = MaxRenderDepth
  BY DEF MaxRenderDepth
<1>1. PICK h : h = Html(tree[r])
  OBVIOUS
<1>2. tree[r] \in Seq(Node) /\ Nodes(r) = 1 .. Len(tree[r])
  BY TreeFacts
<1> DEFINE T == {d \in 0 .. n : \A q \in Nodes(r) :
                   ArraysInOrder(r, h[d][<< q, Representation >>])}
<1>3. n \in T
  <2>1. n \in 0 .. n /\ n >= n
    BY <1>0
  <2>2. \A q \in Nodes(r) : h[n][<< q, Representation >>] = << >>
    BY <1>0, <1>1, <1>2, <2>1, InputBegins, HtmlLevels
  <2> QED
    BY <2>1, <2>2 DEF ArraysInOrder
<1>4. ASSUME NEW d \in 0 .. n, d < n, d + 1 \in T PROVE d \in T
  <2>1. d + 1 \in 0 .. n /\ ~(d >= n)
    BY <1>4
  <2>2. h[d + 1] \in Answer(tree[r])
    BY <1>0, <1>1, <1>2, <2>1, HtmlType
  <2>3. ASSUME NEW q \in Nodes(r) PROVE ArraysInOrder(r, h[d][<< q, Representation >>])
    <3>1. h[d][<< q, Representation >>] = RenderNode(tree[r], q, Representation, h[d + 1])
      BY <1>0, <1>1, <1>2, <2>1, InputBegins, HtmlLevels
    <3>2. \A c \in Nodes(r) : /\ Faithful(r, c, h[d + 1][<< c, Representation >>])
                              /\ ArraysInOrder(r, h[d + 1][<< c, Representation >>])
      BY <1>0, <1>1, <1>4, <2>1, HtmlFaithful
    <3> QED
      BY <2>2, <3>1, <3>2, OrderStep
  <2> QED
    BY <2>3
<1>5. 0 .. n \subseteq T
  <2> HIDE DEF T
  <2> QED
    BY <1>3, <1>4, DownInduction
<1> QED
  BY <1>0, <1>1, <1>5

(* The templates of an array slot appear in the order of the array, each   *)
(* with all that stands below it, whatever is missing or fails.            *)
THEOREM ArraysKeepOrder == Spec => []ArrayOrder
<1>1. PageInv => ArrayOrder
  <2> SUFFICES ASSUME PageInv, NEW r \in Resolved,
                      NEW html, html = Rendered(tree[r]),
                      NEW k \in 1 .. Len(html), NEW l \in 1 .. Len(html), k < l,
                      NEW p \in Nodes(r),
                      NEW i \in Path2Root(r)[html[k].node], tree[r][i].parent = p,
                      NEW j \in Path2Root(r)[html[l].node], tree[r][j].parent = p,
                      tree[r][i].place[1] = tree[r][j].place[1], Once(r, i)
               PROVE  tree[r][i].place[2] <= tree[r][j].place[2]
    BY DEF ArrayOrder, Once
  <2>1. 1 \in Nodes(r) /\ r \in Request /\ 0 \in 0 .. MaxRenderDepth
    BY RootFirst DEF MaxRenderDepth
  <2>2. ArraysInOrder(r, html)
    BY <2>1, HtmlInOrder DEF Rendered
  <2>3. p # 0
    BY <2>1, TreeFacts
  <2> QED
    BY <2>2, <2>3 DEF ArraysInOrder, InArrayOrder, Siblings
<1> QED
  BY <1>1, PageInvariance, PTL

-----------------------------------------------------------------------------
(* How often a node is due, by recursion along the parents.                *)

FailsAlone(r, i) == << tree[r][i].body, Model(tree[r][i], Representation) >> \in Fails

IsDue(r, g) ==
    g = [i \in Nodes(r) |->
           IF FailsAlone(r, i) THEN 0
           ELSE IF tree[r][i].parent = 0 THEN 1
           ELSE TimesCalled(r, i) * g[tree[r][i].parent]]

(* A template calls a slot a natural number of times.                      *)
LEMMA CallsCounted ==
    ASSUME PageInv, NEW r \in Request, NEW i \in Nodes(r), tree[r][i].parent # 0
    PROVE  TimesCalled(r, i) \in Nat
<1>1. PICK calls : calls = Calls[tree[r][tree[r][i].parent].body]
  OBVIOUS
<1>2. Len(calls) \in Nat
  <2>1. tree[r][tree[r][i].parent] \in Node
    BY TreeFacts
  <2>2. tree[r][tree[r][i].parent].body \in Body
    BY <2>1 DEF Node
  <2>3. calls \in Seq(SlotName)
    BY <1>1, <2>2, RenderAssumption
  <2> QED
    BY <2>3
<1> DEFINE K == {k \in 1 .. Len(calls) : calls[k] = tree[r][i].place[1]}
<1>3. IsFiniteSet(K)
  <2>1. K \subseteq 1 .. Len(calls)
    OBVIOUS
  <2>2. 1 \in Int /\ Len(calls) \in Int
    BY <1>2
  <2> HIDE DEF K
  <2> QED
    BY <2>1, <2>2, FS_Interval, FS_Subset
<1>4. Cardinality(K) \in Nat
  BY <1>3, FS_CardinalityType
<1> QED
  BY <1>1, <1>4 DEF TimesCalled

(* The function that TimesDue defines by recursion exists: parents come    *)
(* first.                                                                  *)
LEMMA DueExists ==
    ASSUME PageInv, NEW r \in Request PROVE \E g \in [Nodes(r) -> Nat] : IsDue(r, g)
<1>1. PICK n \in Nat : n = Len(tree[r]) /\ Nodes(r) = 1 .. n
  BY TreeFacts
<1> DEFINE Due(g, i) == g[i] = IF FailsAlone(r, i) THEN 0
                               ELSE IF tree[r][i].parent = 0 THEN 1
                               ELSE TimesCalled(r, i) * g[tree[r][i].parent]
           T == {m \in 0 .. n : \E g \in [Nodes(r) -> Nat] : \A i \in 1 .. m : Due(g, i)}
<1>2. 0 \in T
  <2>1. PICK g \in [Nodes(r) -> Nat] : g = [i \in Nodes(r) |-> 0]
    OBVIOUS
  <2> HIDE DEF Due
  <2>2. \A i \in 1 .. 0 : Due(g, i)
    OBVIOUS
  <2>3. 0 \in 0 .. n
    BY <1>1
  <2> QED
    BY <2>2, <2>3
<1>3. ASSUME NEW m \in 0 .. n, m \in T, m < n PROVE m + 1 \in T
  <2>1. PICK g \in [Nodes(r) -> Nat] : \A i \in 1 .. m : Due(g, i)
    BY <1>3
  <2>2. PICK j \in Nodes(r) : j = m + 1 /\ \A i \in 1 .. m + 1 : i \in 1 .. m \/ i = j
    BY <1>1, <1>3
  <2>3. PICK x \in Nat : x = IF FailsAlone(r, j) THEN 0
                             ELSE IF tree[r][j].parent = 0 THEN 1
                             ELSE TimesCalled(r, j) * g[tree[r][j].parent]
    <3>1. ASSUME tree[r][j].parent # 0
          PROVE  TimesCalled(r, j) \in Nat /\ g[tree[r][j].parent] \in Nat
      BY <3>1, TreeFacts, CallsCounted
    <3>2. ASSUME tree[r][j].parent # 0
          PROVE  TimesCalled(r, j) * g[tree[r][j].parent] \in Nat
      BY <3>1, <3>2
    <3> QED
      BY <3>2
  <2>4. PICK f \in [Nodes(r) -> Nat] : f = [g EXCEPT ![j] = x]
    OBVIOUS
  <2>5. ASSUME NEW i \in 1 .. m + 1
        PROVE  /\ tree[r][i].parent # 0 => f[tree[r][i].parent] = g[tree[r][i].parent]
               /\ i # j => f[i] = g[i]
    <3>1. i \in Nodes(r)
      BY <1>1, <2>2
    <3>2. tree[r][i].parent < i /\ tree[r][i].parent \in Nat /\ i <= j
      BY <1>3, <2>2, <3>1, TreeFacts
    <3>3. tree[r][i].parent # 0 => tree[r][i].parent \in Nodes(r)
      BY <3>1, TreeFacts
    <3>4. tree[r][i].parent # j
      BY <1>1, <3>2
    <3> QED
      BY <2>4, <3>1, <3>3, <3>4
  <2>6. ASSUME NEW i \in 1 .. m + 1 PROVE Due(f, i)
    <3>1. CASE i = j
      BY <2>3, <2>4, <2>5, <3>1
    <3>2. CASE i # j
      BY <2>1, <2>2, <2>5, <3>2
    <3> QED
      BY <3>1, <3>2
  <2> HIDE DEF Due
  <2> QED
    BY <1>3, <2>6
<1>4. 0 .. n \subseteq T
  <2> HIDE DEF T
  <2> QED
    BY <1>1, <1>2, <1>3, IndexInduction
<1>5. PICK g \in [Nodes(r) -> Nat] : \A i \in Nodes(r) : Due(g, i)
  <2> HIDE DEF Due
  <2> QED
    BY <1>1, <1>4
<1>6. g = [i \in Nodes(r) |-> g[i]]
  OBVIOUS
<1>7. IsDue(r, g)
  BY <1>5, <1>6 DEF IsDue
<1> QED
  BY <1>7

(* So TimesDue satisfies its own equation.                                 *)
LEMMA DueSteps ==
    ASSUME PageInv, NEW r \in Request, NEW i \in Nodes(r)
    PROVE  TimesDue(r)[i] = IF FailsAlone(r, i) THEN 0
                            ELSE IF tree[r][i].parent = 0 THEN 1
                            ELSE TimesCalled(r, i) * TimesDue(r)[tree[r][i].parent]
<1>1. TimesDue(r) = CHOOSE g : IsDue(r, g)
  BY DEF TimesDue, IsDue, FailsAlone
<1>2. PICK g : g = TimesDue(r) /\ IsDue(r, g)
  BY <1>1, DueExists
<1> QED
  BY <1>2 DEF IsDue

(* And its values are natural numbers.                                     *)
LEMMA DueType ==
    ASSUME PageInv, NEW r \in Request PROVE \A i \in Nodes(r) : TimesDue(r)[i] \in Nat
<1>1. PICK n \in Nat : n = Len(tree[r]) /\ Nodes(r) = 1 .. n
  BY TreeFacts
<1>2. PICK due : due = TimesDue(r)
  OBVIOUS
<1> DEFINE T == {m \in 0 .. n : \A i \in 1 .. m : due[i] \in Nat}
<1>3. 0 \in T
  BY <1>1
<1>4. ASSUME NEW m \in 0 .. n, m \in T, m < n PROVE m + 1 \in T
  <2>1. PICK j \in Nodes(r) : j = m + 1 /\ \A i \in 1 .. m + 1 : i \in 1 .. m \/ i = j
    BY <1>1, <1>4
  <2>2. ASSUME tree[r][j].parent # 0 PROVE TimesCalled(r, j) * due[tree[r][j].parent] \in Nat
    <3>1. tree[r][j].parent \in 1 .. m
      BY <1>1, <1>4, <2>1, <2>2, TreeFacts
    <3>2. TimesCalled(r, j) \in Nat /\ due[tree[r][j].parent] \in Nat
      BY <1>4, <2>2, <3>1, CallsCounted
    <3> QED
      BY <3>2
  <2>3. due[j] \in Nat
    BY <1>2, <2>2, DueSteps
  <2> QED
    BY <1>1, <1>4, <2>1, <2>3
<1>5. 0 .. n \subseteq T
  <2> HIDE DEF T
  <2> QED
    BY <1>1, <1>3, <1>4, IndexInduction
<1> QED
  BY <1>1, <1>2, <1>5

(* Nothing below a node that is not due is due.                            *)
LEMMA DueBelow ==
    ASSUME PageInv, NEW r \in Request, NEW q \in Nodes(r), TimesDue(r)[q] = 0
    PROVE  \A i \in Nodes(r) : q \in Path2Root(r)[i] => TimesDue(r)[i] = 0
<1>1. PICK n \in Nat : n = Len(tree[r]) /\ Nodes(r) = 1 .. n
  BY TreeFacts
<1>2. PICK due : due = TimesDue(r)
  OBVIOUS
<1>3. PICK up : up = Path2Root(r)
  OBVIOUS
<1> DEFINE T == {m \in 0 .. n : \A i \in 1 .. m : q \in up[i] => due[i] = 0}
<1>4. 0 \in T
  BY <1>1
<1>5. ASSUME NEW m \in 0 .. n, m \in T, m < n PROVE m + 1 \in T
  <2>1. PICK j \in Nodes(r) : j = m + 1 /\ \A i \in 1 .. m + 1 : i \in 1 .. m \/ i = j
    BY <1>1, <1>5
  <2>2. ASSUME q \in up[j], q # j PROVE due[j] = 0
    <3>1. tree[r][j].parent # 0 /\ q \in up[tree[r][j].parent]
      BY <1>3, <2>2, PathSteps
    <3>2. tree[r][j].parent \in 1 .. m
      BY <1>1, <1>5, <2>1, <3>1, TreeFacts
    <3>3. due[tree[r][j].parent] = 0 /\ TimesCalled(r, j) \in Nat
      BY <1>5, <3>1, <3>2, CallsCounted
    <3>4. TimesCalled(r, j) * due[tree[r][j].parent] = 0
      BY <3>3
    <3> QED
      BY <1>2, <3>1, <3>4, DueSteps
  <2> QED
    BY <1>1, <1>2, <1>5, <2>1, <2>2
<1>6. 0 .. n \subseteq T
  <2> HIDE DEF T
  <2> QED
    BY <1>1, <1>4, <1>5, IndexInduction
<1> QED
  BY <1>1, <1>2, <1>3, <1>6

-----------------------------------------------------------------------------
(* How often a node is shown.                                              *)

Of(t, i) == {x \in Shown(t) : x.node = i}

(* Occurrences, as a count over a sequence.                                *)
LEMMA OccurrencesCounted ==
    ASSUME NEW t, NEW html \in Seq(Shown(t)), NEW i
    PROVE  Cardinality(Occurrences(html, i)) = Count(html, Of(t, i))
<1>1. \A k \in 1 .. Len(html) : html[k] \in Shown(t)
  OBVIOUS
<1>2. Occurrences(html, i) = Hits(html, Of(t, i))
  BY <1>1 DEF Occurrences, Hits, Of
<1> QED
  BY <1>2 DEF Count

(* Not at all in what a node gives that is not on its path.                *)
LEMMA NotElsewhere ==
    ASSUME PageInv, NEW r \in Request, NEW q \in Nodes(r), NEW html, Faithful(r, q, html),
           NEW i \in Nodes(r), q \notin Path2Root(r)[i]
    PROVE  Count(html, Of(tree[r], i)) = 0
<1>1. Hits(html, Of(tree[r], i)) = {}
  BY DEF Hits, Of, Faithful
<1> QED
  BY <1>1, FS_EmptySet DEF Count

(* In the slot s of node q: as often as the one child on its path shows    *)
(* it, if that child is in s.                                              *)
SlotEach(t, q, s, below, i, K, n) ==
    /\ K \subseteq {j \in 1 .. Len(t) : InSlot(t, j, q, s)}
    /\ \A j \in 1 .. Len(t) : InSlot(t, j, q, s) =>
         Count(below[<< j, Representation >>], Of(t, i)) = IF j \in K THEN n ELSE 0

(* A slot shows i as often as the children in K do, which all show it n    *)
(* times.                                                                  *)
LEMMA SlotCount ==
    ASSUME NEW t \in Seq(Node), NEW q, NEW s, NEW below \in Answer(t), NEW i,
           NEW K, NEW n \in Nat, SlotEach(t, q, s, below, i, K, n)
    PROVE  Count(Slot(t, q, s, Representation, below), Of(t, i)) = Cardinality(K) * n
<1>1. PICK ss : ss = Fillers(t, q, s, Representation, below)
  OBVIOUS
<1>2. /\ ss \in Seq(Seq(Shown(t))) /\ Len(ss) = Len(t)
      /\ Slot(t, q, s, Representation, below) = FlattenSeq(ss)
  BY <1>1, InputBegins, SlotType
<1>3. ASSUME NEW j \in 1 .. Len(ss)
      PROVE  Count(ss[j], Of(t, i)) = IF j \in K THEN n ELSE 0
  <2>1. ss[j] = IF InSlot(t, j, q, s) THEN below[<< j, Representation >>] ELSE << >>
    BY <1>1, <1>2 DEF Fillers
  <2>2. CASE InSlot(t, j, q, s)
    BY <1>2, <2>1, <2>2 DEF SlotEach
  <2>3. CASE ~InSlot(t, j, q, s)
    <3>1. ss[j] = << >> /\ j \notin K
      BY <2>1, <2>3 DEF SlotEach
    <3>2. Count(<< >>, Of(t, i)) = 0
      BY CountEmpty
    <3> QED
      BY <3>1, <3>2
  <2> QED
    BY <2>2, <2>3
<1>4. CountEach(ss, Of(t, i), K, n)
  BY <1>2, <1>3 DEF CountEach, SlotEach
<1>5. Count(FlattenSeq(ss), Of(t, i)) = Cardinality(K) * n
  BY <1>2, <1>4, CountFlatten
<1> QED
  BY <1>2, <1>5

(* A template that does not fail shows itself once ...                     *)
LEMMA ShowsItself ==
    ASSUME PageInv, NEW r \in Request, NEW q \in Nodes(r), NEW below \in Answer(tree[r]),
           \A c \in Nodes(r) : Faithful(r, c, below[<< c, Representation >>]),
           NEW i \in Nodes(r)
    PROVE  LET rest == FlattenSeq(Written(tree[r], q, Representation, below))
           IN  ~FailsAlone(r, q) =>
               Count(RenderNode(tree[r], q, Representation, below), Of(tree[r], i)) =
                 (IF i = q THEN 1 ELSE 0) + Count(rest, Of(tree[r], i))
<1>1. PICK t \in Seq(Node) : t = tree[r] /\ Nodes(r) = 1 .. Len(t)
  BY TreeFacts
<1>2. PICK own : own = [node |-> q, model |-> Model(t[q], Representation)]
  OBVIOUS
<1>3. PICK ss : ss = Written(t, q, Representation, below)
  OBVIOUS
<1>4. /\ << own >> \in Seq(Shown(t)) /\ ss \in Seq(Seq(Shown(t)))
      /\ RenderNode(t, q, Representation, below) =
           IF << t[q].body, Model(t[q], Representation) >> \in Fails THEN << >>
           ELSE << own >> \o FlattenSeq(ss)
  <2>1. Representation \in Input /\ q \in 1 .. Len(t) /\ below \in Answer(t)
    BY <1>1, InputBegins
  <2>2. << [node |-> q, model |-> Model(t[q], Representation)] >> \in Seq(Shown(t))
    BY <2>1, NodeType
  <2>3. Written(t, q, Representation, below) \in Seq(Seq(Shown(t)))
    BY <2>1, NodeType
  <2>4. RenderNode(t, q, Representation, below) =
           IF << t[q].body, Model(t[q], Representation) >> \in Fails THEN << >>
           ELSE << [node |-> q, model |-> Model(t[q], Representation)] >>
                \o FlattenSeq(Written(t, q, Representation, below))
    BY <2>1, NodeType
  <2> QED
    BY <1>2, <1>3, <2>2, <2>3, <2>4
<1>5. FlattenSeq(ss) \in Seq(Shown(t))
  BY <1>4, FlattenType
<1>6. Count(<< own >>, Of(t, i)) = IF i = q THEN 1 ELSE 0
  <2>1. own \in Shown(t)
    BY <1>4
  <2>2. own \in Of(t, i) <=> i = q
    BY <1>2, <2>1 DEF Of
  <2> QED
    BY <2>2, CountOne
<1>7. Count(<< own >> \o FlattenSeq(ss), Of(t, i)) =
        Count(<< own >>, Of(t, i)) + Count(FlattenSeq(ss), Of(t, i))
  BY <1>4, <1>5, CountConcat
<1> QED
  BY <1>1, <1>3, <1>4, <1>6, <1>7 DEF FailsAlone

(* ... and each of its calls shows what the child on the path shows.       *)
LEMMA CallsShow ==
    ASSUME PageInv, NEW r \in Request, NEW q \in Nodes(r), NEW below \in Answer(tree[r]),
           \A c \in Nodes(r) : Faithful(r, c, below[<< c, Representation >>]),
           NEW i \in Nodes(r)
    PROVE  LET rest == FlattenSeq(Written(tree[r], q, Representation, below))
           IN  /\ i = q => Count(rest, Of(tree[r], i)) = 0
               /\ \A c \in Nodes(r) : tree[r][c].parent = q /\ c \in Path2Root(r)[i] =>
                    Count(rest, Of(tree[r], i)) =
                      TimesCalled(r, c) * Count(below[<< c, Representation >>], Of(tree[r], i))
<1>1. PICK t \in Seq(Node) : t = tree[r] /\ Nodes(r) = 1 .. Len(t)
  BY TreeFacts
<1>2. PICK up : up = Path2Root(r)
  OBVIOUS
<1>3. PICK ss : ss = Written(t, q, Representation, below)
  OBVIOUS
<1>4. PICK calls \in Seq(SlotName) : calls = Calls[t[q].body] /\ Len(calls) \in Nat
  <2>1. Calls[t[q].body] \in Seq(SlotName)
    BY <1>1, InputBegins, NodeType
  <2> QED
    BY <2>1
<1>5. /\ ss \in Seq(Seq(Shown(t))) /\ Len(ss) = Len(calls)
      /\ \A k \in 1 .. Len(calls) : ss[k] = Slot(t, q, calls[k], Representation, below)
  <2>1. ss \in Seq(Seq(Shown(t))) /\ Len(ss) = Len(calls)
    <3>1. Representation \in Input /\ q \in 1 .. Len(t) /\ below \in Answer(t)
      BY <1>1, InputBegins
    <3>2. /\ Written(t, q, Representation, below) \in Seq(Seq(Shown(t)))
          /\ Len(Written(t, q, Representation, below)) = Len(Calls[t[q].body])
      BY <3>1, NodeType
    <3> QED
      BY <1>3, <1>4, <3>2
  <2> QED
    BY <1>3, <1>4, <2>1 DEF Written
<1>6. ASSUME NEW j \in Nodes(r), j \notin up[i]
      PROVE  Count(below[<< j, Representation >>], Of(t, i)) = 0
  BY <1>1, <1>2, <1>6, NotElsewhere
<1>7. ASSUME i = q PROVE Count(FlattenSeq(ss), Of(t, i)) = 0
  <2>1. ASSUME NEW j \in 1 .. Len(t), t[j].parent = q
        PROVE  Count(below[<< j, Representation >>], Of(t, i)) = 0
    <3>1. up[q] \subseteq 1 .. q /\ q < j
      BY <1>1, <1>2, <2>1, PathSteps, TreeFacts
    <3>2. j \notin up[i]
      BY <1>1, <1>7, <3>1, TreeFacts
    <3> QED
      BY <1>1, <1>6, <3>2
  <2>2. ASSUME NEW k \in 1 .. Len(ss) PROVE Count(ss[k], Of(t, i)) = 0
    <3>1. SlotEach(t, q, calls[k], below, i, {}, 0)
      BY <2>1 DEF SlotEach, InSlot
    <3>2. Count(Slot(t, q, calls[k], Representation, below), Of(t, i)) = Cardinality({}) * 0
      BY <1>1, <3>1, SlotCount
    <3>3. Cardinality({}) * 0 = 0
      BY FS_EmptySet
    <3> QED
      BY <1>5, <3>2, <3>3
  <2>3. CountEach(ss, Of(t, i), {}, 0)
    BY <2>2 DEF CountEach
  <2>4. Count(FlattenSeq(ss), Of(t, i)) = Cardinality({}) * 0
    BY <1>5, <2>3, CountFlatten
  <2> QED
    BY <2>4, FS_EmptySet
<1>8. ASSUME NEW c \in Nodes(r), t[c].parent = q, c \in up[i]
      PROVE  Count(FlattenSeq(ss), Of(t, i)) =
               TimesCalled(r, c) * Count(below[<< c, Representation >>], Of(t, i))
  <2>1. PICK n \in Nat : n = Count(below[<< c, Representation >>], Of(t, i))
    <3>1. << c, Representation >> \in (1 .. Len(t)) \X Input
      BY <1>1, InputBegins
    <3>2. below[<< c, Representation >>] \in Seq(Shown(t))
      BY <1>1, <3>1 DEF Answer
    <3> QED
      BY <3>2, CountType
  <2>2. ASSUME NEW j \in Nodes(r), t[j].parent = q, j # c
        PROVE  Count(below[<< j, Representation >>], Of(t, i)) = 0
    <3>1. Siblings(r, j, c)
      BY <1>1, <1>8, <2>2 DEF Siblings
    <3>2. j \notin up[i]
      BY <1>2, <1>8, <2>2, <3>1, PathsShape DEF PathShape
    <3> QED
      BY <1>6, <3>2
  <2> DEFINE K == {k \in 1 .. Len(calls) : calls[k] = t[c].place[1]}
  <2>3. ASSUME NEW k \in 1 .. Len(ss)
        PROVE  Count(ss[k], Of(t, i)) = IF k \in K THEN n ELSE 0
    <3>1. PICK C : C = {j \in {c} : InSlot(t, j, q, calls[k])}
      OBVIOUS
    <3>2. C \subseteq {j \in 1 .. Len(t) : InSlot(t, j, q, calls[k])}
      BY <1>1, <3>1
    <3>3. SlotEach(t, q, calls[k], below, i, C, n)
      BY <1>1, <2>1, <2>2, <3>1, <3>2 DEF SlotEach, InSlot
    <3>4. Count(Slot(t, q, calls[k], Representation, below), Of(t, i)) = Cardinality(C) * n
      BY <1>1, <3>3, SlotCount
    <3>5. Count(ss[k], Of(t, i)) = Cardinality(C) * n
      BY <1>5, <3>4
    <3>6. CASE k \in K
      <4>1. C = {c}
        BY <1>8, <3>1, <3>6 DEF InSlot
      <4>2. Cardinality(C) = 1
        BY <4>1, FS_Singleton
      <4> QED
        BY <3>5, <3>6, <4>2
    <3>7. CASE k \notin K
      <4>1. C = {}
        BY <1>5, <3>1, <3>7 DEF InSlot
      <4>2. Cardinality(C) = 0
        BY <4>1, FS_EmptySet
      <4> QED
        BY <3>5, <3>7, <4>2
    <3> QED
      BY <3>6, <3>7
  <2>4. K \subseteq 1 .. Len(ss) /\ Cardinality(K) = TimesCalled(r, c)
    BY <1>1, <1>4, <1>5, <1>8 DEF TimesCalled
  <2> HIDE DEF K
  <2>5. Count(FlattenSeq(ss), Of(t, i)) = Cardinality(K) * n
    <3>1. CountEach(ss, Of(t, i), K, n)
      BY <2>3, <2>4 DEF CountEach
    <3> QED
      BY <1>5, <3>1, CountFlatten
  <2> QED
    BY <2>1, <2>4, <2>5
<1> QED
  BY <1>1, <1>2, <1>3, <1>7, <1>8

(* How often the templates above node q call for it.                       *)
Called(r, q) ==
    IF tree[r][q].parent = 0 THEN 1
    ELSE TimesCalled(r, q) * TimesDue(r)[tree[r][q].parent]

(* What q gives, as often as it is called for, shows what is due below it. *)
ShowsDue(r, q, html) ==
    \A i \in Nodes(r) : q \in Path2Root(r)[i] =>
        Called(r, q) * Count(html, Of(tree[r], i)) = TimesDue(r)[i]

(* If the children's pages show what is due below them, the node's page    *)
(* does.                                                                   *)
LEMMA ShownStep ==
    ASSUME PageInv, NEW r \in Request, NEW q \in Nodes(r), NEW below \in Answer(tree[r]),
           \A c \in Nodes(r) : Faithful(r, c, below[<< c, Representation >>]),
           \A c \in Nodes(r) : tree[r][c].parent = q =>
              ShowsDue(r, c, below[<< c, Representation >>]),
           NEW html, html = RenderNode(tree[r], q, Representation, below)
    PROVE  ShowsDue(r, q, html)
<1>1. PICK t \in Seq(Node) : t = tree[r] /\ Nodes(r) = 1 .. Len(t)
  BY TreeFacts
<1>2. PICK due : due = TimesDue(r) /\ \A i \in Nodes(r) : due[i] \in Nat
  BY DueType
<1>3. PICK w \in Nat : w = Called(r, q)
  <2>1. ASSUME t[q].parent # 0 PROVE TimesCalled(r, q) * due[t[q].parent] \in Nat
    <3>1. TimesCalled(r, q) \in Nat /\ due[t[q].parent] \in Nat
      BY <1>1, <1>2, <2>1, TreeFacts, CallsCounted
    <3> QED
      BY <3>1
  <2> QED
    BY <1>1, <1>2, <2>1 DEF Called
<1>4. due[q] = IF FailsAlone(r, q) THEN 0 ELSE w
  BY <1>1, <1>2, <1>3, DueSteps DEF Called
<1> SUFFICES ASSUME NEW i \in Nodes(r), q \in Path2Root(r)[i]
             PROVE  w * Count(html, Of(t, i)) = due[i]
  BY <1>1, <1>2, <1>3 DEF ShowsDue
<1>5. CASE FailsAlone(r, q)
  <2>1. due[i] = 0
    BY <1>2, <1>4, <1>5, DueBelow
  <2>2. html = << >>
    BY <1>5 DEF RenderNode, FailsAlone
  <2>3. Count(html, Of(t, i)) = 0
    BY <2>2, CountEmpty
  <2> QED
    BY <2>1, <2>3
<1>6. CASE ~FailsAlone(r, q)
  <2>1. PICK n : n = Count(FlattenSeq(Written(tree[r], q, Representation, below)), Of(t, i))
    OBVIOUS
  <2>2. Count(html, Of(t, i)) = (IF i = q THEN 1 ELSE 0) + n
    BY <1>1, <1>6, <2>1, ShowsItself
  <2>3. CASE i = q
    <3>1. n = 0
      BY <1>1, <2>1, <2>3, CallsShow
    <3> QED
      BY <1>4, <1>6, <2>2, <2>3, <3>1
  <2>4. CASE i # q
    <3>1. PICK c \in Nodes(r) : c \in Path2Root(r)[i] /\ tree[r][c].parent = q
      <4>1. PICK c \in Path2Root(r)[i] : tree[r][c].parent = q
        BY <2>4, PathsShape DEF PathShape
      <4> QED
        BY <4>1, PathSteps
    <3>2. tree[r][c].parent # 0
      BY <3>1, TreeFacts
    <3>3. PICK a \in Nat : a = TimesCalled(r, c)
      BY <3>2, CallsCounted
    <3>4. PICK b \in Nat : b = Count(below[<< c, Representation >>], Of(t, i))
      <4>1. << c, Representation >> \in (1 .. Len(t)) \X Input
        BY <1>1, InputBegins
      <4>2. below[<< c, Representation >>] \in Seq(Shown(t))
        BY <1>1, <4>1 DEF Answer
      <4> QED
        BY <4>2, CountType
    <3>5. n = a * b
      BY <1>1, <2>1, <3>1, <3>3, <3>4, CallsShow
    <3>6. Called(r, c) = a * w
      BY <1>2, <1>4, <1>6, <3>1, <3>2, <3>3 DEF Called
    <3>7. (a * w) * b = due[i]
      BY <1>1, <1>2, <3>1, <3>4, <3>6 DEF ShowsDue
    <3>8. w * (a * b) = (a * w) * b
      OBVIOUS
    <3>9. Count(html, Of(t, i)) = a * b
      BY <2>2, <2>4, <3>5
    <3> QED
      BY <3>7, <3>8, <3>9
  <2> QED
    BY <2>3, <2>4
<1> QED
  BY <1>5, <1>6

(* At the depth renderNode reaches q at, one less than its path is long.   *)
LEMMA HtmlShowsDue ==
    ASSUME PageInv, NEW r \in Request
    PROVE  \A d \in 0 .. MaxRenderDepth : \A q \in Nodes(r) :
              Cardinality(Path2Root(r)[q]) = d + 1 =>
              ShowsDue(r, q, Html(tree[r])[d][<< q, Representation >>])
<1>0. PICK n \in Nat : n = MaxRenderDepth
  BY DEF MaxRenderDepth
<1>1. PICK h : h = Html(tree[r])
  OBVIOUS
<1>2. tree[r] \in Seq(Node) /\ Nodes(r) = 1 .. Len(tree[r])
  BY TreeFacts
<1> DEFINE T == {d \in 0 .. n : \A q \in Nodes(r) :
                   Cardinality(Path2Root(r)[q]) = d + 1 =>
                   ShowsDue(r, q, h[d][<< q, Representation >>])}
<1>3. n \in T
  <2>1. n \in 0 .. n
    BY <1>0
  <2>2. ASSUME NEW q \in Nodes(r) PROVE Cardinality(Path2Root(r)[q]) # n + 1
    BY <1>0, PathsShort
  <2> QED
    BY <2>1, <2>2
<1>4. ASSUME NEW d \in 0 .. n, d < n, d + 1 \in T PROVE d \in T
  <2>1. d + 1 \in 0 .. n /\ ~(d >= n)
    BY <1>4
  <2>2. h[d + 1] \in Answer(tree[r])
    BY <1>0, <1>1, <1>2, <2>1, HtmlType
  <2>3. ASSUME NEW q \in Nodes(r), Cardinality(Path2Root(r)[q]) = d + 1
        PROVE  ShowsDue(r, q, h[d][<< q, Representation >>])
    <3>1. h[d][<< q, Representation >>] = RenderNode(tree[r], q, Representation, h[d + 1])
      BY <1>0, <1>1, <1>2, <2>1, InputBegins, HtmlLevels
    <3>2. \A c \in Nodes(r) : Faithful(r, c, h[d + 1][<< c, Representation >>])
      BY <1>0, <1>1, <1>4, <2>1, HtmlFaithful
    <3>3. ASSUME NEW c \in Nodes(r), tree[r][c].parent = q
          PROVE  ShowsDue(r, c, h[d + 1][<< c, Representation >>])
      <4>1. c # 1
        BY <3>3, TreeFacts
      <4>2. Cardinality(Path2Root(r)[c]) = (d + 1) + 1
        BY <2>3, <3>3, <4>1, PathLength
      <4> QED
        BY <1>4, <4>2
    <3> QED
      BY <2>2, <3>1, <3>2, <3>3, ShownStep
  <2> QED
    BY <2>3
<1>5. 0 .. n \subseteq T
  <2> HIDE DEF T
  <2> QED
    BY <1>3, <1>4, DownInduction
<1> QED
  BY <1>0, <1>1, <1>5

(* The page shows every resolved node as often as the templates on its     *)
(* path call for it, and no failure takes more away than its own subtree.  *)
THEOREM NodesShownAsCalled == Spec => []ShownAsCalled
<1>1. PageInv => ShownAsCalled
  <2> SUFFICES ASSUME PageInv, NEW r \in Resolved, NEW i \in Nodes(r)
               PROVE  Cardinality(Occurrences(Rendered(tree[r]), i)) = TimesDue(r)[i]
    BY DEF ShownAsCalled
  <2>1. 1 \in Nodes(r) /\ r \in Request /\ 0 \in 0 .. MaxRenderDepth
    BY RootFirst DEF MaxRenderDepth
  <2>2. PICK t \in Seq(Node) : t = tree[r] /\ Nodes(r) = 1 .. Len(t)
    BY <2>1, TreeFacts
  <2>3. PICK html : html = Rendered(t)
    OBVIOUS
  <2>4. html \in Seq(Shown(t))
    <3>1. Html(t)[0] \in Answer(t)
      BY <2>1, HtmlType
    <3>2. << 1, Representation >> \in (1 .. Len(t)) \X Input
      BY <2>1, <2>2, InputBegins
    <3> QED
      BY <2>3, <3>1, <3>2 DEF Rendered, Answer
  <2>5. ShowsDue(r, 1, html)
    <3>1. Cardinality(Path2Root(r)[1]) = 0 + 1
      BY <2>1, PathLength
    <3> QED
      BY <2>1, <2>2, <2>3, <3>1, HtmlShowsDue DEF Rendered
  <2>6. Called(r, 1) = 1 /\ 1 \in Path2Root(r)[i]
    BY <2>1, TreeFacts, PathsShape DEF Called, PathShape
  <2>7. 1 * Count(html, Of(t, i)) = TimesDue(r)[i]
    BY <2>2, <2>5, <2>6 DEF ShowsDue
  <2>8. Count(html, Of(t, i)) \in Nat
    BY <2>4, CountType
  <2> QED
    BY <2>2, <2>3, <2>4, <2>7, <2>8, OccurrencesCounted
<1> QED
  BY <1>1, PageInvariance, PTL
=============================================================================
