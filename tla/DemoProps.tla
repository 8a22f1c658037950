------------------------------- MODULE DemoProps -------------------------------
(***************************************************************************)
(* The demonstration as a whole: the pages of the BFF, resolved against    *)
(* the API and the template server of DemoAPI by one Resolver, and what    *)
(* the repository says of them.  A request is << API path, query >>.       *)
(***************************************************************************)
EXTENDS ResolverProps, DemoAPI

CONSTANTS
    MaxVisits    \* how many requests are made

Wanted(r) == IF Param(r[2], "view") = "" THEN None ELSE Param(r[2], "view")

(* resolveAndRender, up to Resolve: where the view of a request comes from.*)
Delivered(r) == Extract(Respond(r[1], r[2]))
DemoRoot ==
    [r \in Request |->
        LET e == Delivered(r)
        IN  View(IF e.descriptorURL = None THEN e.views ELSE ResourceViews(e.descriptorURL),
                 Wanted(r))]
DemoRootBase == [r \in Request |-> Delivered(r).base]

(* Nothing gets lost between the processes of the demonstration: a         *)
(* template or descriptor that is there is answered, and no other.         *)
Served(r) ==
    /\ pc[r] = "fetch" =>
         LET body == ServeTemplate(FetchURL(call[r].id).path)
         IN  IF body = None THEN pc'[r] # "store"
             ELSE pc'[r] = "store" /\ call'[r].body = body
    /\ pc[r] = "fetchRef" => pc'[r] = "storeRef"

Visited == {r \in Request : pc[r] # "idle"}
Shown == {r \in Request : pc[r] = "done"}
Visit == Cardinality(Visited) < MaxVisits /\ \E r \in Request : Resolve(r)
Work(r) == Step(r) /\ Served(r)

DemoNext ==
    \/ Visit
    \/ \E r \in Visited : Work(r)
    \/ Cardinality(Visited) = MaxVisits /\ Visited \subseteq Shown /\ UNCHANGED vars

DemoSpec == Init /\ [][DemoNext]_vars

-----------------------------------------------------------------------------

(* The failures the README lists for a request, by descriptor and slot.    *)
Documented(r) ==
    LET fail == Param(r[2], "fail")
    IN  {s \in {<< "main", 2, "fetch" >>, << "chart", 1, "integrity-failed" >>,
                << "dashboard", 2, "rejected" >>} :
           /\ r[1] = << "api", "dashboard" >>
           /\ fail # "root"
           /\ CASE s[3] = "fetch" -> fail = "chart"
                [] s[3] = "integrity-failed" -> fail = "integrity"
                [] s[3] = "rejected" -> "untrusted" \in DOMAIN Get[r[2]]}

(* README.md, "Failure modes", and integration_test.go: each switch of a   *)
(* page takes exactly its own slot away, or its root, and nothing else,    *)
(* although all pages share the caches of one resolver and may fill them   *)
(* in any order.                                                           *)
DegradesAsDocumented ==
    \A r \in Shown :
        LET fail == Param(r[2], "fail")
        IN  /\ {<< tree[r][s.parent].desc[1], s.place[1], s.why >> : s \in skipped[r]}
                 = Documented(r)
            /\ result[r] =
                 CASE r[1] = << "api", "dashboard" >> /\ fail = "root" -> "fetch"
                   [] r[1] = << "api", "summary" >> /\ fail = "mapper" -> "mapper-unknown"
                   [] OTHER -> "ok"

(* What a template is given: the members of its model and their kinds, and *)
(* the paths it would look up in vain.                                     *)
Shape(model) == [k \in DOMAIN model.map |-> DOMAIN model.map[k]]
Given ==
    [d \in Desc |-> [path \in {r[1] : r \in Request} |->
        LET model == Model(Descriptor[d], Payload(path))
        IN  [shape |-> Shape(model),
             missing |-> {p \in UNION Range(Reads) : Json!Null \in Displayed(model, p)}]]]

(* api.go on feed and statsPartial: "the same template URIs keep the same  *)
(* contracts".  Whatever page a template is used on, and however its model *)
(* is made (transform, mapper or the representation as it is), everything  *)
(* its file displays is there, in each element of what it ranges over; and *)
(* it gets the same members of the same kinds as on every other page.      *)
OneContractPerTemplate ==
    \A r \in Shown : \A i \in Nodes(r) :
        LET given == Given[tree[r][i].desc][r[1]]
        IN  /\ Reads[tree[r][i].body] \cap given.missing = {}
            /\ \A q \in Shown : \A j \in Nodes(q) :
                 tree[q][j].id = tree[r][i].id
                   => Given[tree[q][j].desc][q[1]].shape = given.shape

(* The discovery document, and what it may become: with one more templated *)
(* key, made from the path, that overlaps the key of the path and comes    *)
(* after it in sorted order ("{" comes after all letters).                 *)
Overlapping(path) ==
    {[i \in DOMAIN path |-> IF i \in at THEN e ELSE path[i]] :
        at \in (SUBSET DOMAIN path) \ {{}}, e \in Expression}
        \ {Endpoints[n][1] : n \in DOMAIN Endpoints}
Documents(path) ==
    {Endpoints} \cup
    {Append(Endpoints, << key, [form |-> "rooted", path |-> << "views", "nav.json" >>] >>) :
        key \in Overlapping(path)}
Found ==
    [path \in {r[1] : r \in Request} |-> {Endpoint(e, path) : e \in Documents(path)}]

(* discovery.go, api.go: the discovery document lets clients prefetch.  A  *)
(* client that takes the descriptor of an API path from there gets the     *)
(* view the response delivers, with the same template identities although  *)
(* its base is another, and still does when the document gets a key that   *)
(* overlaps: "a literal key beats a templated one", and the first in order *)
(* the others.  A path whose response links no resource has no entry.      *)
DiscoveryAgrees ==
    \A r \in Shown : r[2] \in {q \in Query : DOMAIN Get[q] \subseteq {"view"}} =>
        IF Delivered(r).transport \notin {"link", "_views"}
        THEN Endpoint(Endpoints, r[1]) = None
        ELSE \A entry \in Found[r[1]] :
               LET url == DescriptorURL(entry, Below(<< ".well-known", "vdp" >>))
               IN  /\ entry # None
                   /\ View(ResourceViews(url), Wanted(r)) = Root[r]
                   /\ \A i \in Nodes(r) : tree[r][i].base = RootBase[r] =>
                        ResolveTemplateURI(Descriptor[tree[r][i].desc].template, url)
                            = tree[r][i].id

-----------------------------------------------------------------------------
(* What the repository says, and the code does not do.                     *)

(* resolve.go on opaqueFetchURL: an opaque identifier is fetched over      *)
(* HTTPS, "or plain HTTP for loopback hosts": the network fetch of a       *)
(* trusted opaque identifier on a loopback host is never refused.          *)
LoopbackOpaqueIsFetched ==
    \A r \in Request :
        LET id == call[r].id
        IN  pc[r] = "load" /\ id.form = "opaque" /\ IsLoopback(id.host)
              => FetchAllowed(FetchURL(id))
=============================================================================
