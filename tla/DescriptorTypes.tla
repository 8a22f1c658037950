---------------------------- MODULE DescriptorTypes ----------------------------
(***************************************************************************)
(* The operators of TemplateURI and Descriptors stay within their types:   *)
(* lemmas for the proofs about Resolver and Page.                          *)
(***************************************************************************)
EXTENDS Descriptors, TLAPS

LEMMA ResolveTemplateURIType ==
    ASSUME NEW ref \in TemplateRef, NEW base \in Url \cup {None}
    PROVE  ResolveTemplateURI(ref, base) \in Identity \cup {None}
<1>1. CASE ref.form \in {"absolute", "opaque"}
  BY <1>1 DEF ResolveTemplateURI, TemplateRef, Identity
<1>2. CASE ref.form = "rooted"
  BY <1>2 DEF ResolveTemplateURI, AsIdentity, TemplateRef, Identity, Url
<1>3. CASE ref.form = "network"
  BY <1>3 DEF ResolveTemplateURI, AsIdentity, TemplateRef, Identity, Url
<1> QED
  BY <1>1, <1>2, <1>3 DEF TemplateRef

(* Against a base there always is a URL.                                   *)
LEMMA ResolveRefUrl ==
    ASSUME NEW ref \in DescriptorRef, NEW base \in Url
    PROVE  ResolveRef(ref, base) \in Url
<1>1. base # None
  BY HostAssumption
<1>2. CASE ref.form = "absolute"
  BY <1>2 DEF ResolveRef, DescriptorRef, Url
<1>3. CASE ref.form = "rooted"
  BY <1>1, <1>3 DEF ResolveRef, DescriptorRef, Url
<1>4. CASE ref.form = "network"
  BY <1>1, <1>4 DEF ResolveRef, DescriptorRef, Url
<1>5. CASE ref.form = "relative"
  <2>1. base.path \in Seq(STRING) /\ ref.path \in Seq(STRING)
    BY DEF DescriptorRef, Url, Path
  <2>2. base.path # << >> => Front(base.path) \in Seq(STRING)
    BY <2>1 DEF Front
  <2>3. ((IF base.path = << >> THEN << >> ELSE Front(base.path)) \o ref.path)
          \in Seq(STRING)
    BY <2>1, <2>2
  <2>4. ResolveRef(ref, base) = [base EXCEPT !.path =
          (IF base.path = << >> THEN << >> ELSE Front(base.path)) \o ref.path]
    BY <1>1, <1>5 DEF ResolveRef
  <2> QED
    BY <2>3, <2>4 DEF Url, Path
<1> QED
  BY <1>2, <1>3, <1>4, <1>5 DEF DescriptorRef

LEMMA ResolveRefType ==
    ASSUME NEW ref \in DescriptorRef, NEW base \in Url \cup {None}
    PROVE  ResolveRef(ref, base) \in Url \cup {None}
<1>1. CASE base = None /\ ref.form = "absolute"
  BY <1>1 DEF ResolveRef, DescriptorRef, Url
<1>2. CASE base = None /\ ref.form # "absolute"
  BY <1>2 DEF ResolveRef
<1> QED
  BY <1>1, <1>2, ResolveRefUrl

LEMMA PlacesType ==
    ASSUME NEW d \in Desc
    PROVE  /\ Places(d) \subseteq Place
           /\ \A c \in Places(d) : ChildAt(d, c) \in Child
<1>1. /\ DOMAIN Descriptor[d].slots \subseteq Nat
      /\ \A s \in DOMAIN Descriptor[d].slots :
           Descriptor[d].slots[s] \in Seq(Child)
  BY DescriptorAssumption DEF SlotName
<1>2. SUFFICES ASSUME NEW c \in Places(d)
               PROVE  c \in Place /\ ChildAt(d, c) \in Child
  OBVIOUS
<1>3. PICK s \in DOMAIN Descriptor[d].slots :
        c \in {s} \X (1 .. Len(Descriptor[d].slots[s]))
  BY <1>2 DEF Places
<1>4. c[1] = s /\ c[2] \in 1 .. Len(Descriptor[d].slots[s]) /\ c = << c[1], c[2] >>
  BY <1>3
<1>5. Descriptor[d].slots[s] \in Seq(Child)
  BY <1>1
<1>6. Descriptor[d].slots[s][c[2]] \in Child /\ c[2] \in Nat \ {0}
  BY <1>4, <1>5
<1> QED
  BY <1>1, <1>4, <1>6 DEF Place, SlotName, ChildAt
=============================================================================
