------------------------------ MODULE MCOrigin --------------------------------
(***************************************************************************)
(* No allowlist anywhere: the same-origin default decides.  The requests   *)
(* begin with an HTTPS base written in capitals, a loopback base over      *)
(* plain HTTP, a plain HTTP base that is not loopback, and no base at all. *)
(* They resolve a page whose children name hosts in every form, or one     *)
(* with an opaque child on the loopback host, or a single descriptor.      *)
(***************************************************************************)
EXTENDS ResolverProps, MCData

MCHost == {"app", "APP", "other", "127.0.0.1:8080", "localhost:8080"}
MCLower == [h \in MCHost \cup {""} |-> IF h = "APP" THEN "app" ELSE h]
MCLoopback == {"127.0.0.1:8080", "localhost:8080"}

MCDescriptor ==
    "page" :> Plain(Rooted(<< "t", "page" >>),
                1 :> << Ref(Network("app", << "v" >>)), Ref(Rooted(<< "v" >>)) >>
             @@ 2 :> << Inline("same"), Inline("opaque"), Inline("ported"), Inline("looped") >>
             @@ 4 :> << Ref(Absolute("https", "other", << "v" >>)) >>)
 @@ "same" :> Leaf(Absolute("https", "app", << "t", "page" >>))
 @@ "opaque" :> Leaf(Opaque("app", << "t" >>))
 @@ "ported" :> Leaf(Opaque("localhost:8080", << "t" >>))
 @@ "looped" :> Leaf(Opaque("127.0.0.1:8080", << "t" >>))
 @@ "panel" :> Plain(Network("APP", << "t", "panel" >>),
                1 :> << Inline("opaque"), Ref(Relative(<< "w" >>)) >>)
 @@ "near" :> Plain(Rooted(<< "t", "page" >>),
                1 :> << Inline("looped") >>)
 @@ "far" :> Leaf(Absolute("https", "other", << "t" >>))

MCDesc == DOMAIN MCDescriptor
MCServes ==
    At("https", "app", << "v" >>) :> {"panel"}
 @@ At("https", "APP", << "v" >>) :> {"panel"}
 @@ At("https", "other", << "v" >>) :> {"far"}
 @@ At("http", "127.0.0.1:8080", << "v" >>) :> {"looped"}
 @@ At("https", "app", << "w" >>) :> {"far"}

MCRoot == [r \in Request |-> CASE r = "nobase" -> "same"
                              [] r = "local" -> "near"
                              [] OTHER -> "page"]
MCRootBase ==
    [r \in Request |->
       CASE r = "secure" -> At("https", "APP", << "api" >>)
         [] r = "local" -> At("http", "127.0.0.1:8080", << "api" >>)
         [] r = "plain" -> At("http", "app", << "api" >>)
         [] r = "nobase" -> None]
=============================================================================
