------------------------------- MODULE MCCircle -------------------------------
(***************************************************************************)
(* A response whose Link header names the descriptor resource /views/a,    *)
(* so that its URL is the base of the resolution, and a descriptor that    *)
(* refers back to its own resource.                                        *)
(***************************************************************************)
EXTENDS ResolverProps, MCData

MCHost == {"app"}
MCLower == [h \in MCHost \cup {""} |-> h]

ViewA == At("https", "app", << "views", "a" >>)
MCDescriptor == "a" :> Plain(Rooted(<< "t" >>), 1 :> << Ref(Relative(<< "a" >>)) >>)
MCServes == ViewA :> {"a"}
MCRoot == [r \in Request |-> "a"]
MCRootBase == [r \in Request |-> ViewA]

(* resolve.go on resolveSlot: "a chain that revisits a descriptor URL is a *)
(* cycle; abort the slot".  The root descriptor came from RootBase, so no  *)
(* node below it comes from that URL again.                                *)
RootIsNotRevisited ==
    \A r \in Request : \A i \in Nodes(r) :
        ViaReference(r, i) => tree[r][i].base # RootBase[r]
=============================================================================
