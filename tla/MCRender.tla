------------------------------- MODULE MCRender -------------------------------
(***************************************************************************)
(* A page resolved and rendered: array slots, nodes with and without       *)
(* projections under each other, a reference that stands twice, a slot no  *)
(* template calls, and a chain of inline descriptors that is longer than   *)
(* the default depth limit, with references at the levels around it.       *)
(***************************************************************************)
EXTENDS RenderProps, MCData

CONSTANTS b1, b2   \* two templates; either may be served anywhere

MCBody == {b1, b2}
(* b1 calls slot 2, then slot 1; b2 calls slot 1 twice.                    *)
MCCalls == b1 :> << 2, 1 >> @@ b2 :> << 1, 1 >>

Shared == << "views", "shared" >>
Chain == << "d1", "d2", "d3", "d4", "d5", "d6", "d7", "d8", "d9", "d10", "d11" >>
Link(k) ==
    IF k \in {7, 8, 9} THEN 1 :> << Ref(Rooted(Shared)) >> @@ 2 :> << Inline(Chain[k + 1]) >>
    ELSE IF k < Len(Chain) THEN 2 :> << Inline(Chain[k + 1]) >>
    ELSE NoSlots

MCHost == {"app"}
MCLower == [h \in MCHost \cup {""} |-> h]

MCDescriptor ==
    "page" :> Plain(Rooted(<< "t", "page" >>),
                1 :> << Inline("panel"), Ref(Rooted(Shared)), Inline("mapped") >>
             @@ 2 :> << Inline("bare"), Inline("d1") >>)
 @@ "panel" :> Plain(Rooted(<< "t", "panel" >>),
                1 :> << Inline("mapped"), Inline("bare") >>)
 @@ "mapped" :> Full(Rooted(<< "t", "leaf" >>), << >>, "known", NoSlots)
 @@ "bare" :> Plain(Rooted(<< "t", "panel" >>),
                2 :> << Ref(Rooted(Shared)) >> @@ 3 :> << Inline("mapped") >>)
 @@ "shared" :> Leaf(Rooted(<< "t", "leaf" >>))
 @@ [d \in {Chain[k] : k \in DOMAIN Chain} |->
       Plain(Rooted(<< "t", "panel" >>),
             Link(CHOOSE k \in DOMAIN Chain : Chain[k] = d))]

MCDesc ==
    {"page", "panel", "mapped", "bare", "shared"} \cup {Chain[k] : k \in DOMAIN Chain}
MCTransform ==
    [d \in {"panel", "shared"} |-> "table"] @@ [d \in MCDesc |-> None]
(* b2 needs the representation, or the mapper's model, as it is.           *)
MCFails == {<< b2, << "table" >> >>}

MCServes == At("https", "app", Shared) :> {"shared"}

MCRequest == {"r1"}
MCRoot == [r \in MCRequest |-> "page"]
MCRootBase == [r \in MCRequest |-> At("https", "app", << "api", "page" >>)]
=============================================================================
