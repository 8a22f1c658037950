------------------------------- MODULE MCRace ---------------------------------
(***************************************************************************)
(* Requests racing through the two caches of one resolver.  The page uses  *)
(* one template twice, once pinned to version b2 by its integrity          *)
(* metadata, and one referenced descriptor whose resource changes between  *)
(* two descriptors, one of which refers back to it.                        *)
(***************************************************************************)
EXTENDS ResolverProps, MCData

CONSTANTS b1, b2, r1, r2

MCHost == {"app"}
MCLower == [h \in MCHost \cup {""} |-> h]
MCBody == {b1, b2}

Card == Rooted(<< "card" >>)
MCDescriptor ==
    "page" :> Plain(Card, 1 :> << Inline("pinned"), Ref(Rooted(<< "v" >>)) >>)
 @@ "pinned" :> Pinned(Card, "sha512", b2)
 @@ "card" :> Leaf(Card)
 @@ "menu" :> Plain(Card, 2 :> << Ref(Rooted(<< "v" >>)) >>)

MCDesc == DOMAIN MCDescriptor
MCServes == At("https", "app", << "v" >>) :> {"card", "menu"}

MCRequest == {r1, r2}
MCRoot == [r \in MCRequest |-> "page"]
MCRootBase == [r \in MCRequest |-> At("https", "app", << "api" >>)]
=============================================================================
