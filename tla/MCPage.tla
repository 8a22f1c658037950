-------------------------------- MODULE MCPage --------------------------------
(***************************************************************************)
(* Two pages of one origin (r1, r2) and one of another (r3).  The first    *)
(* may be answered by every transport, alone and against the others, with  *)
(* valid and malformed descriptors, whole and cut; the discovery document  *)
(* of their origin changes between two allowlists while they race.  The    *)
(* runs that expect a violation have r1 alone.                             *)
(***************************************************************************)
EXTENDS PageProps, MCData

MCHost == {"app", "far"}
MCLower == [h \in MCHost \cup {""} |-> h]

Template(name) == Rooted(<< "t", name >>)
MCDescriptor ==
    "card" :> Leaf(Template("card"))
 @@ "table" :> Leaf(Rooted(<< "x", "table" >>))
 @@ "totals" :> Full(Template("totals"), << >>, "unknown", NoSlots)
 @@ "pinned" :> Pinned(Absolute("https", "app", << "t", "card" >>), "sha256", "b2")
 @@ "empty" :> Leaf(Template(""))
 @@ "future" :> Leaf(Template("card"))
MCDesc == DOMAIN MCDescriptor
MCMalformed == {"empty", "future"}     \* no template; an unknown member

Home == At("https", "app", << >>)
Away == At("http", "far", << >>)
MCOrigin == [r \in Request |-> IF r = "r3" THEN Away ELSE Home]
MCWanted == [r \in Request |-> IF r = "r1" THEN "compact" ELSE None]

Data == [url |-> At("https", "app", << "api" >>), json |-> TRUE, whole |-> TRUE,
         view |-> None, views |-> None, links |-> << >>, header |-> None]
ViewLink(ref) == [rel |-> "view-descriptor", url |-> ref]
ViewURL == At("https", "app", << "views" >>)
Linked == [Data EXCEPT !.links = << [rel |-> "other", url |-> None],
             ViewLink(Rooted(<< "views" >>)), ViewLink(None) >>]
Both == "default" :> "table" @@ "compact" :> "card"

MCAPIServes ==
    [r \in Request |->
       CASE r = "r1" ->
              {Data, Linked,
               [Data EXCEPT !.view = "totals"],
               [Data EXCEPT !.views = Both],
               [Data EXCEPT !.views = "other" :> "card"],
               [Data EXCEPT !.view = "card", !.views = Both],
               [Data EXCEPT !.view = "empty"],
               [Data EXCEPT !.header = "empty"],
               [Linked EXCEPT !.view = "pinned", !.header = "card"],
               [Linked EXCEPT !.view = "future", !.header = "card"],
               [Linked EXCEPT !.view = "table", !.whole = FALSE],
               [Linked EXCEPT !.view = "table", !.json = FALSE],
               [Data EXCEPT !.header = "card", !.links = << ViewLink(None) >>],
               [Data EXCEPT !.header = "card",
                            !.links = << [rel |-> "other", url |-> None] >>]}
         [] r = "r2" -> {[Data EXCEPT !.view = "table"]}
         [] r = "r3" -> {[Data EXCEPT !.links =
                            << ViewLink(Absolute("http", "far", << "views" >>)) >>]}]

MCDiscoveryServes ==
    Home :> {{}, {Absolute("https", "app", << "t", "" >>)}} @@ Away :> {{}}
MCResourceServes ==
    ViewURL :> {"default" :> "card", Both, "other" :> "card"}
 @@ At("http", "far", << "views" >>) :> {"default" :> "card"}
=============================================================================
