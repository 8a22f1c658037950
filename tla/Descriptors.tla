----------------------------- MODULE Descriptors ------------------------------
(***************************************************************************)
(* View descriptors as vdp/descriptor.go parses them, reduced to what the  *)
(* resolver reads: a template URI, integrity metadata, the mapper its      *)
(* transform names, and slots of inline descriptors and references.        *)
(* Inline descriptors are named too, so a descriptor tree is a finite      *)
(* graph of names.                                                         *)
(***************************************************************************)
EXTENDS TemplateURI, Integrity, FiniteSets

CONSTANTS
    Desc,         \* view descriptors, by name
    Descriptor,   \* Descriptor[d]: template, integrity, mapper, slots
    Malformed,    \* descriptors that Validate rejects
    Body          \* template sources

SlotName == Nat   \* slot names, in the order slices.Sorted gives them

(* SlotDescriptor: either an inline descriptor or a reference.             *)
Child ==
    [ref: {None}, desc: Desc] \cup [ref: DescriptorRef, desc: {None}]

(* The place of a child: slot name, then index in the array slot.          *)
Place == SlotName \X (Nat \ {0})
Places(d) ==
    UNION {{s} \X (1 .. Len(Descriptor[d].slots[s])) :
             s \in DOMAIN Descriptor[d].slots}
ChildAt(d, c) == Descriptor[d].slots[c[1]][c[2]]

(* The order in which resolve walks the children of a descriptor.          *)
Precedes(c, e) == c[1] < e[1] \/ (c[1] = e[1] /\ c[2] < e[2])
BadFirst(todo, c) == c \in todo   \* in Go's random map order, were it not sorted
First(todo, c) == c \in todo /\ \A e \in todo \ {c} : Precedes(c, e)

(* validate, one level of it: an array slot is not empty and the inline    *)
(* children are valid.  What makes a URI invalid is left to Malformed.     *)
Consistent(d) ==
    /\ \A s \in DOMAIN Descriptor[d].slots : Descriptor[d].slots[s] # << >>
    /\ \A c \in Places(d) : ChildAt(d, c).desc \notin Malformed

ASSUME DescriptorAssumption ==
    /\ \A d \in Desc :
        /\ Descriptor[d].template \in TemplateRef
        /\ DOMAIN Descriptor[d].slots \subseteq SlotName
        /\ \A s \in DOMAIN Descriptor[d].slots :
             Descriptor[d].slots[s] \in Seq(Child)
    /\ Malformed \subseteq Desc
    /\ \A d \in Desc \ Malformed : Consistent(d)
    /\ None \notin Desc \cup Body
    /\ None \notin DescriptorRef
    /\ None \notin Identity
=============================================================================
