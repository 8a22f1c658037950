-------------------------------- MODULE Render --------------------------------
(***************************************************************************)
(* render/render.go: executing a resolved tree.  HTML is abstracted to the *)
(* sequence of the nodes whose output it contains, each with the model its *)
(* template was executed against; markup and data are left out.  A tree t  *)
(* is a sequence of nodes as in Resolver, the root first.                  *)
(***************************************************************************)
EXTENDS Descriptors

CONSTANTS
    Transform,  \* Transform[d]: the inline transform of descriptor d, or None
    Calls,      \* Calls[b]: the slots the template b calls, in its order
    Fails       \* << b, m >>: b does not parse, or not execute on model m

(* A model is the projections applied to the representation, innermost     *)
(* first: none for a node without a transform.                             *)
Representation == << >>

(* What a model may be made with, and what a model may be.                 *)
Projection == ({Descriptor[d].mapper : d \in Desc} \cup {Transform[d] : d \in Desc}) \ {None}
Input == Seq(Projection)

ASSUME RenderAssumption ==
    /\ DOMAIN Transform = Desc
    /\ Calls \in [Body -> Seq(SlotName)]
    /\ Fails \subseteq Body \X Input

MaxRenderDepth == 10   \* vdp.DefaultMaxDepth

(* model: a mapper before an inline transform, else the input unchanged.   *)
Model(n, input) ==
    LET mapper == Descriptor[n.desc].mapper
    IN  CASE mapper # None -> Append(input, mapper)
          [] mapper = None /\ Transform[n.desc] # None ->
               Append(input, Transform[n.desc])
          [] OTHER -> input

(* Node j is one of node.Slots[s] of node i.  There the nodes stand in the *)
(* order in which resolve made them, which is their order in the tree.     *)
InSlot(t, j, i, s) == t[j].parent = i /\ t[j].place[1] = s

(* Defects: the child given its parent's model; a failing child ending the *)
(* slot.                                                                   *)
BadSlotOfModel(t, i, s, input, below) ==
    FlattenSeq([j \in 1 .. Len(t) |->
        IF InSlot(t, j, i, s) THEN below[<< j, Model(t[i], input) >>] ELSE << >>])

BadSlotStops(t, i, s, input, below) ==
    FlattenSeq([j \in 1 .. Len(t) |->
        IF \A k \in 1 .. j : InSlot(t, k, i, s) => below[<< k, input >>] # << >>
        THEN IF InSlot(t, j, i, s) THEN below[<< j, input >>] ELSE << >>
        ELSE << >>])

(* The function "slot" of a template: its children in order, each against  *)
(* the original input; one that fails contributes nothing.  `below` is     *)
(* renderNode one level deeper.                                            *)
Slot(t, i, s, input, below) ==
    FlattenSeq([j \in 1 .. Len(t) |->
        IF InSlot(t, j, i, s) THEN below[<< j, input >>] ELSE << >>])

(* renderNode where the depth allows it; << >> stands for an error,        *)
(* whatever had been written.                                              *)
RenderNode(t, i, input, below) ==
    LET m == Model(t[i], input)
        calls == Calls[t[i].body]
    IN  IF << t[i].body, m >> \in Fails THEN << >>
        ELSE << [node |-> i, model |-> m] >> \o
             FlattenSeq([k \in 1 .. Len(calls) |-> Slot(t, i, calls[k], input, below)])

(* What renderNode answers at each depth, on each node and input.          *)
Html(t) ==
    LET html[depth \in 0 .. MaxRenderDepth] ==
          [x \in (1 .. Len(t)) \X Input |->
             IF depth >= MaxRenderDepth THEN << >>
             ELSE RenderNode(t, x[1], x[2], html[depth + 1])]
    IN  html

(* Render: the whole tree, against the representation.                     *)
Rendered(t) == Html(t)[0][<< 1, Representation >>]
=============================================================================
