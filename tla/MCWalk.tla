------------------------------- MODULE MCWalk ---------------------------------
(***************************************************************************)
(* One request walking a descriptor graph that has everything resolve and  *)
(* resolveSlot treat specially: array slots, one template used by several  *)
(* descriptors, references that are shared, nested, relative or circular,  *)
(* a pinned body, a foreign template, an unknown mapper, a malformed       *)
(* resource, and levels beyond the limit: an inline child, a reference,    *)
(* and the template behind a reference at the last level.  The origin is   *)
(* https://app, with a scheme-less mirror "cdn".                           *)
(***************************************************************************)
EXTENDS ResolverProps, MCData

CONSTANTS b1, b2   \* two versions of a template source

MCHost == {"app", "cdn", "other"}
MCLower == [h \in MCHost \cup {""} |-> h]
MCBody == {b1, b2}

ViewA == << "views", "a" >>
ViewB == << "views", "b" >>
ViewC == << "views", "c" >>
HeroMetadata ==
    << [alg |-> "md5", of |-> b2], [alg |-> "sha256", of |-> b2],
       [alg |-> "sha384", of |-> b1] >>

MCDescriptor ==
    "page" :> Plain(Rooted(<< "t", "page" >>),
                1 :> << Ref(Rooted(ViewA)), Inline("hero") >>
             @@ 3 :> << Inline("foreign"), Ref(Rooted(ViewB)) >>)
 @@ "hero" :> Full(Opaque("cdn", << "t", "hero" >>), HeroMetadata, "known", NoSlots)
 @@ "foreign" :> Leaf(Absolute("https", "other", << "t", "page" >>))
 @@ "a" :> Plain(Rooted(<< "t", "panel" >>),
                2 :> << Ref(Relative(<< "b" >>)), Inline("plot") >>)
 @@ "b" :> Plain(Rooted(<< "t", "panel" >>), 2 :> << Ref(Relative(<< "a" >>)), Ref(Relative(<< "c" >>)) >>)
 @@ "c" :> Plain(Rooted(<< "t", "panel" >>), 2 :> << Inline("wrap") >>)
 @@ "wrap" :> Plain(Rooted(<< "t", "panel" >>),
                2 :> << Ref(Rooted(ViewA)), Inline("plot") >>)
 @@ "plot" :> Full(Rooted(<< "t", "plot" >>), << >>, "unknown", NoSlots)
 @@ "broken" :> Leaf(Rooted(<< "t", "panel" >>))

MCDesc == DOMAIN MCDescriptor
MCServes ==
    At("https", "app", ViewA) :> {"a", "broken"} @@ At("https", "app", ViewB) :> {"b"}
 @@ At("https", "app", ViewC) :> {"c"}
MCAllowlist ==
    {Absolute("https", "app", << "t", "" >>), Absolute("https", "app", << "views" >>),
     Opaque("cdn", << "t", "" >>)}

MCRequest == {"r1"}
MCRoot == [r \in MCRequest |-> "page"]
MCRootBase == [r \in MCRequest |-> At("https", "app", << "api", "page" >>)]
=============================================================================
