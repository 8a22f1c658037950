-------------------------------- MODULE Page ----------------------------------
(***************************************************************************)
(* server/bff.go: the page handlers of the Backend for Frontend.  Any      *)
(* number of browser requests run at once; each asks the discovery         *)
(* document of its origin for the allowlist unless a resolver for that     *)
(* origin is there already, fetches the data, extracts or fetches the view *)
(* descriptor, resolves it, renders the tree, and answers with the page,   *)
(* with the raw data, or with an error shell alone.                        *)
(*                                                                         *)
(* What Resolve may answer is taken from RootOutcome; the module Resolver  *)
(* says how it comes about.                                                *)
(***************************************************************************)
EXTENDS Extract, RootOutcome

CONSTANTS
    Request,             \* browser requests
    Origin,              \* Origin[r]: baseURL of request r
    Wanted,              \* Wanted[r]: the view query parameter, or None
    APIServes,           \* APIServes[r]: responses the API may give request r
    DiscoveryServes,     \* DiscoveryServes[o]: allowlists origin o may publish
    ResourceServes,      \* ResourceServes[u]: view maps Parse may yield for u
    LocalAllowlist,      \* BFF.TrustedTemplateURLs
    Mappers              \* mapper URIs the BFF registers

ASSUME PageAssumption ==
    /\ Origin \in [Request -> Url]
    /\ Wanted \in [Request -> ViewName \cup {None}]
    /\ \A r \in Request : APIServes[r] \subseteq Response
    /\ \A o \in DOMAIN DiscoveryServes : DiscoveryServes[o] \subseteq SUBSET Identity
    /\ \A u \in DOMAIN ResourceServes :
         ResourceServes[u] \subseteq {v \in Views : ValidViews(v)}
    /\ LocalAllowlist \subseteq Identity
    /\ None \notin [by: Request, allowlist: SUBSET Identity] \cup Extraction

VARIABLES
    resolvers,   \* sync.Map b.resolvers: the resolver of each origin
    pc,          \* pc[r]: what the handler of request r does next
    resolver,    \* resolver[r]: the resolver it uses or is about to offer
    response,    \* response[r]: the API's response (pageTrace.Data)
    extraction,  \* extraction[r]: what Extract and FetchDescriptor made of it
    view,        \* view[r]: the view descriptor it resolves
    err,         \* err[r]: the error resolveAndRender returned
    shown        \* shown[r]: what the browser got

vars == << resolvers, pc, resolver, response, extraction, view, err, shown >>

(* A *vdp.Resolver: the request that made it tells two of them apart.      *)
PageResolver == [by: Request, allowlist: SUBSET Identity]

Reason ==
    {"none", "discovery", "api", "extract", "no-descriptor", "descriptor", "view",
     "render", "malformed", "no-base", "rejected", "fetch", "integrity-failed",
     "mapper-unknown"}

TypeOK ==
    /\ DOMAIN resolvers \subseteq {Origin[r] : r \in Request}
    /\ \A o \in DOMAIN resolvers :
         /\ resolvers[o].by \in Request
         /\ resolvers[o].allowlist \subseteq Identity
    /\ pc \in [Request -> {"idle", "discover", "offer", "get", "extract",
                           "descriptor", "view", "resolve", "render", "done"}]
    /\ view \in [Request -> Desc \cup {None}]
    /\ err \in [Request -> Reason]
    /\ shown \in [Request -> {"nothing", "page", "raw", "no data", "shell"}]

Init ==
    /\ resolvers = [o \in {} |-> None]
    /\ pc = [r \in Request |-> "idle"]
    /\ resolver = [r \in Request |-> None]
    /\ response = [r \in Request |-> None]
    /\ extraction = [r \in Request |-> None]
    /\ view = [r \in Request |-> None]
    /\ err = [r \in Request |-> "none"]
    /\ shown = [r \in Request |-> "nothing"]

-----------------------------------------------------------------------------

Goto(r, label) == pc' = [pc EXCEPT ![r] = label]
Set(f, r, v) == [f EXCEPT ![r] = v]
Put(map, key, value) ==
    [k \in DOMAIN map \cup {key} |-> IF k = key THEN value ELSE map[k]]

(* resolveAndRender returned an error, and page answers: nothing but the   *)
(* error for a mapper it does not know, else the raw data, if there is any.*)
Fail(r, why) ==
    /\ Goto(r, "done")
    /\ err' = Set(err, r, why)
    /\ shown' = Set(shown, r,
         CASE why = "mapper-unknown" -> "shell"
           [] why # "mapper-unknown" /\ response[r] # None -> "raw"
           [] why # "mapper-unknown" /\ response[r] = None -> "no data")

(* A browser asks for a page; resolverFor looks for the origin's resolver. *)
LoadResolver(r) ==
    /\ pc[r] = "idle"
    /\ IF Origin[r] \in DOMAIN resolvers
       THEN /\ resolver' = Set(resolver, r, resolvers[Origin[r]])
            /\ Goto(r, "get")
       ELSE /\ Goto(r, "discover")
            /\ UNCHANGED resolver
    /\ UNCHANGED << resolvers, response, extraction, view, err, shown >>

(* resolverFor fetches the discovery document, and builds a resolver from  *)
(* it: the local allowlist comes before the published one.                 *)
Published(o) == IF o \in DOMAIN DiscoveryServes THEN DiscoveryServes[o] ELSE {}
FetchDiscovery(r) ==
    /\ pc[r] = "discover"
    /\ \/ Fail(r, "discovery") /\ UNCHANGED resolver
       \/ \E doc \in Published(Origin[r]) :
            /\ resolver' = Set(resolver, r,
                 [by |-> r, allowlist |->
                    IF LocalAllowlist = {} THEN doc ELSE LocalAllowlist])
            /\ Goto(r, "offer")
            /\ UNCHANGED << err, shown >>
    /\ UNCHANGED << resolvers, response, extraction, view >>

(* A defect: Store instead of LoadOrStore.                                 *)
BadStoreResolver(r) ==
    /\ pc[r] = "offer"
    /\ resolvers' = Put(resolvers, Origin[r], resolver[r])
    /\ Goto(r, "get")
    /\ UNCHANGED << resolver, response, extraction, view, err, shown >>

(* LoadOrStore: the first resolver offered for an origin stays, and every  *)
(* other request that raced to build one uses it too.                      *)
StoreResolver(r) ==
    /\ pc[r] = "offer"
    /\ IF Origin[r] \in DOMAIN resolvers
       THEN /\ resolver' = Set(resolver, r, resolvers[Origin[r]])
            /\ UNCHANGED resolvers
       ELSE /\ resolvers' = Put(resolvers, Origin[r], resolver[r])
            /\ UNCHANGED resolver
    /\ Goto(r, "get")
    /\ UNCHANGED << response, extraction, view, err, shown >>

(* get on the API's URL: a transport error or another status fails.        *)
GetData(r) ==
    /\ pc[r] = "get"
    /\ \/ Fail(r, "api") /\ UNCHANGED response
       \/ \E resp \in APIServes[r] :
            /\ response' = Set(response, r, resp)
            /\ Goto(r, "extract")
            /\ UNCHANGED << err, shown >>
    /\ UNCHANGED << resolvers, resolver, extraction, view >>

ExtractView(r) ==
    LET e == Extract(response[r])
    IN  /\ pc[r] = "extract"
        /\ IF e = Rejected THEN Fail(r, "extract") /\ UNCHANGED extraction
           ELSE IF e = NotFound THEN Fail(r, "no-descriptor") /\ UNCHANGED extraction
           ELSE /\ extraction' = Set(extraction, r, e)
                /\ Goto(r, "descriptor")
                /\ UNCHANGED << err, shown >>
        /\ UNCHANGED << resolvers, resolver, response, view >>

(* Resolver.FetchDescriptor: nothing to do for an inline descriptor; a     *)
(* standalone one is fetched each time, under the HTTPS rule, and Parse    *)
(* validates it.                                                           *)
Parsed(u) == IF u \in DOMAIN ResourceServes THEN ResourceServes[u] ELSE {}

(* ... and the defect of asking the API again when that fails.             *)
BadFetchDescriptor(r) ==
    LET u == extraction[r].descriptorURL
    IN  /\ pc[r] = "descriptor"
        /\ Goto(r, IF u = None THEN "view" ELSE "get")
        /\ UNCHANGED << resolvers, resolver, response, extraction, view, err, shown >>

FetchDescriptor(r) ==
    LET u == extraction[r].descriptorURL
    IN  /\ pc[r] = "descriptor"
        /\ \/ u = None /\ Goto(r, "view") /\ UNCHANGED << extraction, err, shown >>
           \/ u # None /\ Fail(r, "descriptor") /\ UNCHANGED extraction
           \/ /\ u # None
              /\ FetchAllowed(u)
              /\ \E views \in Parsed(u) :
                   extraction' = [extraction EXCEPT ![r].views = views,
                                                    ![r].descriptorURL = None]
              /\ Goto(r, "view")
              /\ UNCHANGED << err, shown >>
        /\ UNCHANGED << resolvers, resolver, response, view >>

SelectView(r) ==
    LET d == View(extraction[r].views, Wanted[r])
    IN  /\ pc[r] = "view"
        /\ IF d = None THEN Fail(r, "view") /\ UNCHANGED view
           ELSE /\ view' = Set(view, r, d)
                /\ Goto(r, "resolve")
                /\ UNCHANGED << err, shown >>
        /\ UNCHANGED << resolvers, resolver, response, extraction >>

(* Resolver.Resolve, by the answers it may give.                           *)
Resolve(r) ==
    /\ pc[r] = "resolve"
    /\ \E outcome \in RootOutcomes(view[r], extraction[r].base,
                                   resolver[r].allowlist, Mappers) :
         IF outcome = "ok" THEN Goto(r, "render") /\ UNCHANGED << err, shown >>
         ELSE Fail(r, outcome)
    /\ UNCHANGED << resolvers, resolver, response, extraction, view >>

(* render.Render: the root template may not parse or not execute.          *)
Render(r) ==
    /\ pc[r] = "render"
    /\ \/ Fail(r, "render")
       \/ /\ Goto(r, "done")
          /\ shown' = Set(shown, r, "page")
          /\ UNCHANGED err
    /\ UNCHANGED << resolvers, resolver, response, extraction, view >>

-----------------------------------------------------------------------------

(* What a handler does once its request has come in.                       *)
Step(r) ==
    \/ FetchDiscovery(r) \/ StoreResolver(r) \/ GetData(r) \/ ExtractView(r)
    \/ FetchDescriptor(r) \/ SelectView(r) \/ Resolve(r) \/ Render(r)

AllDone == (\A r \in Request : pc[r] = "done") /\ UNCHANGED vars

Next == (\E r \in Request : LoadResolver(r) \/ Step(r)) \/ AllDone

Spec == Init /\ [][Next]_vars

(* Each handler is a goroutine, every exchange ends by the client's        *)
(* timeout, and Resolve returns (Resolver!Answered); browsers need not ask.*)
FairSpec == Spec /\ \A r \in Request : WF_vars(Step(r))
=============================================================================
