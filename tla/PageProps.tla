------------------------------ MODULE PageProps -------------------------------
(***************************************************************************)
(* What the page handlers must get right, stated over the state of Page.   *)
(***************************************************************************)
EXTENDS Page

(* However many first requests race to build the resolver of an origin,    *)
(* each of them goes on with the one that is in the map, so that they share*)
(* its caches and its allowlist; and it stays there.                       *)
SharedResolver ==
    \A r \in Request :
        pc[r] # "offer" /\ resolver[r] # None =>
            /\ Origin[r] \in DOMAIN resolvers
            /\ resolvers[Origin[r]] = resolver[r]

(* Every composed page of an origin was judged by one allowlist, although  *)
(* the discovery document may change between the requests: the root        *)
(* template of each is trusted by the allowlist now in the map.            *)
PagesJudgedAlike ==
    \A r \in Request :
        shown[r] = "page" =>
            LET base == extraction[r].base
            IN  CheckTrusted(ResolveTemplateURI(Descriptor[view[r]].template, base),
                             base, resolvers[Origin[r]].allowlist)

(* The view that is resolved came by the most specific transport of the    *)
(* response: by a header only if the body decodes to no descriptor, by     *)
(* View-Template only if there is no view-descriptor link either; and it is*)
(* the wanted one if that one is there, else the default one.              *)
MostSpecificView ==
    \A r \in Request :
        view[r] # None =>
            LET resp == response[r]
                e    == extraction[r]
                body == Decodes(resp) /\ {resp.view, resp.views} # {None}
            IN  /\ (e.transport \in {"_view", "_views"}) = body
                /\ e.transport = "View-Template" =>
                     \A i \in DOMAIN resp.links : resp.links[i].rel = "other"
                /\ view[r] \in {e.views[n] : n \in DOMAIN e.views}
                /\ \A n \in DOMAIN e.views :
                     n = Wanted[r] \/ (Wanted[r] \notin DOMAIN e.views /\ n = "default")
                       => view[r] = e.views[n]

(* No way into the resolver skips the validation of the descriptor: the    *)
(* check at the top of Resolve never fails a page.                         *)
ValidatedBefore == \A r \in Request : err[r] # "malformed"

(* Every browser request is answered.                                      *)
PageAnswered == \A r \in Request : pc[r] # "idle" ~> pc[r] = "done"

-----------------------------------------------------------------------------
(* What the repository says, and the code does not do.                     *)

(* bff.go on page: "the root template failed with no transform declared;   *)
(* falling back to the raw API data".  Raw data is shown only if the       *)
(* descriptor that failed declares no transform.                           *)
RawOnlyWithoutTransform ==
    \A r \in Request :
        shown[r] = "raw" /\ view[r] # None => Descriptor[view[r]].mapper = None

(* transport_test.go: "a malformed inline descriptor must be rejected      *)
(* rather than ignored".  A response whose body carries one is given no    *)
(* other descriptor.                                                       *)
MalformedInlineRejected ==
    \A r \in Request :
        response[r] # None /\ extraction[r] # None =>
            LET resp == response[r]
            IN  resp.json /\ resp.whole => resp.view \notin Malformed
=============================================================================
