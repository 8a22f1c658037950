------------------------------ MODULE Resolver -------------------------------
(***************************************************************************)
(* vdp/resolve.go: the client resolution algorithm, run by any number of   *)
(* page requests at once against one Resolver and its two caches.          *)
(*                                                                         *)
(* Each request is one call of Resolve, that is one depth-first walk of a  *)
(* view descriptor.  The recursion of resolve and resolveSlot is kept as   *)
(* data: tree[r] lists the nodes in the order they are created, every node *)
(* names its parent, and todo holds the children its loop has not reached. *)
(* The stack of the walk is therefore the path from node[r] to the root,   *)
(* and call[r] holds the arguments and locals of the activation at its     *)
(* top, up to the moment it creates its node or fails.  A node can only    *)
(* fail before it exists, so linking it to its parent when it is created   *)
(* and when its own slots are done gives the same Slots.                   *)
(*                                                                         *)
(* A cache lookup, an answer from the network and a cache store are steps  *)
(* of their own: between any two of them other requests may run.           *)
(***************************************************************************)
EXTENDS Descriptors, Integers

CONSTANTS
    Request,      \* the page requests that share the resolver
    Root,         \* Root[r]: the descriptor request r resolves
    RootBase,     \* RootBase[r]: the base URL it is resolved with, or None
    Serves,       \* Serves[u]: the descriptors a server may answer at URL u
    Mappers,      \* mapper URIs the client has registered
    Allowlist,    \* TrustedTemplateURLs
    DepthLimit    \* the MaxDepth field

ASSUME ResolverAssumption ==
    /\ Root \in [Request -> Desc]
    /\ RootBase \in [Request -> Url \cup {None}]
    /\ \A u \in DOMAIN Serves : Serves[u] \subseteq Desc
    /\ Allowlist \subseteq Identity
    /\ DepthLimit \in Int

(* maxDepth: zero or less selects the recommended default.                 *)
DefaultMaxDepth == 10
MaxDepth == IF DepthLimit <= 0 THEN DefaultMaxDepth ELSE DepthLimit
BadTooDeep(depth) == depth > MaxDepth   \* off by one
TooDeep(depth) == depth >= MaxDepth

-----------------------------------------------------------------------------

VARIABLES
    cache,      \* template bodies by identity: sync.Map r.cache
    descCache,  \* descriptors by URL: sync.Map r.descCache
    pc,         \* pc[r]: what request r does next
    call,       \* call[r]: the activation of resolve/resolveSlot in progress
    node,       \* node[r]: the node whose slots are being walked, 0 for none
    tree,       \* tree[r]: the nodes created so far
    skipped,    \* skipped[r]: the slot-skipped events
    result      \* result[r]: what Resolve returned

vars == << cache, descCache, pc, call, node, tree, skipped, result >>

Reason == {"malformed", "depth-exceeded", "no-base", "rejected", "fetch",
           "integrity-failed", "mapper-unknown", "ref-cycle", "descriptor-ref"}

Label == {"idle", "resolve", "load", "fetch", "store", "verify", "slots",
          "ref", "loadRef", "fetchRef", "storeRef", "done"}

(* The arguments of an activation (parent and place say whose slot it      *)
(* fills, ref is the reference to follow or None) and its locals: the      *)
(* absolute reference, the template identity, its body, and whether the    *)
(* body came from the network or from the cache.                           *)
Activation ==
    [parent: Nat, place: Place \cup {None}, ref: DescriptorRef \cup {None},
     desc: Desc \cup {None}, base: Url \cup {None}, depth: Nat,
     seen: SUBSET Url, url: Url \cup {None}, id: Identity \cup {None},
     body: Body \cup {None}, kind: {"none", "fetch", "cached"}]

Node ==
    [parent: Nat, place: Place \cup {None}, desc: Desc,
     base: Url \cup {None}, depth: Nat, seen: SUBSET Url, id: Identity,
     body: Body, kind: {"fetch", "cached"}, todo: SUBSET Place]

Skip ==
    [parent: Nat, place: Place, why: Reason, id: Identity \cup {None},
     body: Body \cup {None}, kind: {"none", "fetch", "cached"}]

NewActivation(parent, place, ref, d, base, depth, seen) ==
    [parent |-> parent, place |-> place, ref |-> ref, desc |-> d,
     base |-> base, depth |-> depth, seen |-> seen,
     url |-> None, id |-> None, body |-> None, kind |-> "none"]

RootActivation(r) ==
    NewActivation(0, None, None, Root[r], RootBase[r], 0, {})

TypeOK ==
    /\ DOMAIN cache \subseteq Identity /\ cache \in [DOMAIN cache -> Body]
    /\ DOMAIN descCache \subseteq Url /\ descCache \in [DOMAIN descCache -> Desc]
    /\ pc \in [Request -> Label]
    /\ call \in [Request -> Activation]
    /\ node \in [Request -> Nat]
    /\ tree \in [Request -> Seq(Node)]
    /\ skipped \in [Request -> SUBSET Skip]
    /\ result \in [Request -> {"none", "ok"} \cup Reason]

Empty == [k \in {} |-> None]
Put(map, key, value) ==
    [k \in DOMAIN map \cup {key} |-> IF k = key THEN value ELSE map[k]]

Init ==
    /\ cache = Empty
    /\ descCache = Empty
    /\ pc = [r \in Request |-> "idle"]
    /\ call = [r \in Request |-> RootActivation(r)]
    /\ node = [r \in Request |-> 0]
    /\ tree = [r \in Request |-> << >>]
    /\ skipped = [r \in Request |-> {}]
    /\ result = [r \in Request |-> "none"]

-----------------------------------------------------------------------------

Goto(r, label) == pc' = [pc EXCEPT ![r] = label]

(* Defects the properties are meant to catch are written next to what they *)
(* would replace, in definitions named Bad...; no action uses them.        *)

(* ... a slot that fails is resolved again instead of being skipped.       *)
BadFailRetries(r, why) ==
    /\ UNCHANGED << call, node, tree, skipped >>
    /\ IF call[r].parent = 0
       THEN /\ Goto(r, "done")
            /\ result' = [result EXCEPT ![r] = why]
       ELSE /\ Goto(r, IF call[r].ref = None THEN "resolve" ELSE "ref")
            /\ UNCHANGED result

(* ... a slot that fails ends the loop over its siblings.                  *)
BadFailBreaks(r, why) ==
    /\ UNCHANGED << call, node, skipped >>
    /\ IF call[r].parent = 0
       THEN /\ Goto(r, "done")
            /\ result' = [result EXCEPT ![r] = why]
            /\ UNCHANGED tree
       ELSE /\ Goto(r, "slots")
            /\ tree' = [tree EXCEPT ![r][call[r].parent].todo = {}]
            /\ UNCHANGED result

(* An activation returns an error.  At the root Resolve returns it; in a   *)
(* slot the loop of the parent records it and goes on with the next child. *)
Fail(r, why) ==
    /\ UNCHANGED << call, node, tree >>
    /\ IF call[r].parent = 0
       THEN /\ Goto(r, "done")
            /\ result' = [result EXCEPT ![r] = why]
            /\ UNCHANGED skipped
       ELSE /\ Goto(r, "slots")
            /\ skipped' = [skipped EXCEPT ![r] = @ \cup
                 {[parent |-> call[r].parent, place |-> call[r].place,
                   why |-> why, id |-> call[r].id, body |-> call[r].body,
                   kind |-> call[r].kind]}]
            /\ UNCHANGED result

(* Resolve: validate the root descriptor, then resolve it at depth 0.      *)
Resolve(r) ==
    /\ pc[r] = "idle"
    /\ UNCHANGED << cache, descCache >>
    /\ IF Root[r] \in Malformed
       THEN Fail(r, "malformed")
       ELSE /\ Goto(r, "resolve")
            /\ UNCHANGED << call, node, tree, skipped, result >>

(* resolve, up to fetchTemplate: depth bound, identity, trust.             *)
CheckTemplate(r) ==
    LET a  == call[r]
        id == ResolveTemplateURI(Descriptor[a.desc].template, a.base)
    IN  /\ pc[r] = "resolve"
        /\ UNCHANGED << cache, descCache >>
        /\ IF TooDeep(a.depth) THEN Fail(r, "depth-exceeded")
           ELSE IF id = None THEN Fail(r, "no-base")
           ELSE IF ~CheckTrusted(id, a.base, Allowlist) THEN Fail(r, "rejected")
           ELSE /\ Goto(r, "load")
                /\ call' = [call EXCEPT ![r] = [a EXCEPT !.id = id]]
                /\ UNCHANGED << node, tree, skipped, result >>

(* ... templates cached as they are written in the descriptor.             *)
BadKeyAsWritten(a) == Descriptor[a.desc].template

(* fetchTemplate: bodies are cached by template identity.                  *)
Key(a) == a.id

(* ... a pinned template always taken from the network.                    *)
BadCachedUnlessPinned(a) ==
    Key(a) \in DOMAIN cache /\ Descriptor[a.desc].integrity = << >>
Cached(a) == Key(a) \in DOMAIN cache

(* ... the HTTPS rule left out.                                            *)
BadLoadTemplateAnyScheme(r) ==
    /\ pc[r] = "load"
    /\ IF Cached(call[r])
       THEN /\ Goto(r, "verify")
            /\ call' = [call EXCEPT ![r].body = cache[Key(call[r])],
                                    ![r].kind = "cached"]
       ELSE Goto(r, "fetch") /\ UNCHANGED call
    /\ UNCHANGED << cache, descCache, node, tree, skipped, result >>

(* fetchTemplate, the cache lookup; the HTTPS rule binds only a fetch.     *)
LoadTemplate(r) ==
    LET a == call[r]
    IN  /\ pc[r] = "load"
        /\ UNCHANGED << cache, descCache >>
        /\ IF Cached(a)
           THEN /\ Goto(r, "verify")
                /\ call' = [call EXCEPT ![r] =
                     [a EXCEPT !.body = cache[Key(a)], !.kind = "cached"]]
                /\ UNCHANGED << node, tree, skipped, result >>
           ELSE IF ~FetchAllowed(FetchURL(a.id)) THEN Fail(r, "fetch")
           ELSE /\ Goto(r, "fetch")
                /\ UNCHANGED << call, node, tree, skipped, result >>

(* fetchTemplate, the exchange.  The server answers with any body it may   *)
(* hold at the time, cut at maxTemplateBytes or not; a transport error, a  *)
(* timeout, a cancelled page request or another status is a failure.       *)
FetchTemplate(r) ==
    /\ pc[r] = "fetch"
    /\ UNCHANGED << cache, descCache >>
    /\ \/ Fail(r, "fetch")
       \/ \E body \in Body :
            /\ Goto(r, "store")
            /\ call' = [call EXCEPT ![r] =
                 [call[r] EXCEPT !.body = body, !.kind = "fetch"]]
            /\ UNCHANGED << node, tree, skipped, result >>

(* ... the fetched body not stored.                                        *)
BadStoreNothing(r) ==
    /\ pc[r] = "store"
    /\ Goto(r, "verify")
    /\ UNCHANGED << cache, descCache, call, node, tree, skipped, result >>

(* fetchTemplate, r.cache.Store.  The integrity check comes after it.      *)
StoreTemplate(r) ==
    /\ pc[r] = "store"
    /\ cache' = Put(cache, Key(call[r]), call[r].body)
    /\ Goto(r, "verify")
    /\ UNCHANGED << descCache, call, node, tree, skipped, result >>

(* ... only fetched bodies verified, not cached ones.                      *)
BadVerifiedOnFetch(a) ==
    a.kind = "fetch" => VerifyIntegrity(Descriptor[a.desc].integrity, a.body)
Verified(a) == VerifyIntegrity(Descriptor[a.desc].integrity, a.body)

(* resolve, after fetchTemplate: integrity, mapper, and the node.          *)
CreateNode(r) ==
    LET a == call[r]
        d == Descriptor[a.desc]
        n == [parent |-> a.parent, place |-> a.place, desc |-> a.desc,
              base |-> a.base, depth |-> a.depth, seen |-> a.seen,
              id |-> a.id, body |-> a.body, kind |-> a.kind,
              todo |-> Places(a.desc)]
    IN  /\ pc[r] = "verify"
        /\ UNCHANGED << cache, descCache >>
        /\ IF ~Verified(a)
           THEN Fail(r, "integrity-failed")
           ELSE IF d.mapper # None /\ d.mapper \notin Mappers
           THEN Fail(r, "mapper-unknown")
           ELSE /\ Goto(r, "slots")
                /\ tree' = [tree EXCEPT ![r] = Append(@, n)]
                /\ node' = [node EXCEPT ![r] = Len(tree[r]) + 1]
                /\ UNCHANGED << call, skipped, result >>

(* The loop over the slots, one child: resolveSlot one level down, with    *)
(* the base and the reference chain of the containing descriptor.          *)
EnterSlot(r) ==
    LET p == tree[r][node[r]]
    IN  /\ pc[r] = "slots"
        /\ \E c \in p.todo :
             LET child == ChildAt(p.desc, c)
             IN  /\ First(p.todo, c)
                 /\ call' = [call EXCEPT ![r] =
                      NewActivation(node[r], c, child.ref, child.desc,
                                    p.base, p.depth + 1, p.seen)]
                 /\ tree' = [tree EXCEPT ![r][node[r]].todo = @ \ {c}]
                 /\ Goto(r, IF child.ref = None THEN "resolve" ELSE "ref")
        /\ UNCHANGED << cache, descCache, node, skipped, result >>

(* The loop is over: resolve returns the node to the loop of its parent,   *)
(* and at the root to the caller of Resolve.                               *)
Return(r) ==
    LET parent == tree[r][node[r]].parent
    IN  /\ pc[r] = "slots"
        /\ tree[r][node[r]].todo = {}
        /\ IF parent = 0
           THEN /\ Goto(r, "done")
                /\ result' = [result EXCEPT ![r] = "ok"]
                /\ UNCHANGED node
           ELSE /\ node' = [node EXCEPT ![r] = parent]
                /\ UNCHANGED << pc, result >>
        /\ UNCHANGED << cache, descCache, call, tree, skipped >>

(* ... references trusted unless an allowlist forbids them.                *)
BadTrustedReference(a, url) ==
    Allowlist # {} => CheckTrusted(AsIdentity(url), a.base, Allowlist)
TrustedReference(a, url) == CheckTrusted(AsIdentity(url), a.base, Allowlist)

(* ... one chain shared by the whole tree.                                 *)
BadOnChain(r, url) ==
    \E i \in 2 .. Len(tree[r]) : tree[r][i].base = url
OnChain(r, url) == url \in call[r].seen

(* resolveSlot on a reference, up to the fetch: depth bound, absolute URL, *)
(* trust, cycle.                                                           *)
CheckRef(r) ==
    LET a   == call[r]
        url == ResolveRef(a.ref, a.base)
    IN  /\ pc[r] = "ref"
        /\ UNCHANGED << cache, descCache >>
        /\ IF TooDeep(a.depth) THEN Fail(r, "depth-exceeded")
           ELSE IF url = None THEN Fail(r, "no-base")
           ELSE IF ~TrustedReference(a, url) THEN Fail(r, "rejected")
           ELSE IF OnChain(r, url) THEN Fail(r, "ref-cycle")
           ELSE /\ Goto(r, "loadRef")
                /\ call' = [call EXCEPT ![r] = [a EXCEPT !.url = url]]
                /\ UNCHANGED << node, tree, skipped, result >>

(* ... the followed URL not added to the chain.                            *)
BadFollowUnlinked(r, d) ==
    LET a == call[r]
    IN  /\ Goto(r, "resolve")
        /\ call' = [call EXCEPT ![r] =
             [a EXCEPT !.desc = d, !.base = a.url, !.depth = a.depth + 1]]
        /\ UNCHANGED << node, tree, skipped, result >>

(* ... a reference that does not count as a level.                         *)
BadFollowFlat(r, d) ==
    LET a == call[r]
    IN  /\ Goto(r, "resolve")
        /\ call' = [call EXCEPT ![r] =
             [a EXCEPT !.desc = d, !.base = a.url, !.seen = a.seen \cup {a.url}]]
        /\ UNCHANGED << node, tree, skipped, result >>

(* resolveSlot, after fetchReferencedDescriptor: the descriptor d stands   *)
(* in the slot, one level further down, with the URL it came from as its   *)
(* base and as a new link of its own copy of the chain.                    *)
Follow(r, d) ==
    LET a == call[r]
    IN  /\ Goto(r, "resolve")
        /\ call' = [call EXCEPT ![r] =
             [a EXCEPT !.desc = d, !.base = a.url, !.depth = a.depth + 1,
                       !.seen = a.seen \cup {a.url}]]
        /\ UNCHANGED << node, tree, skipped, result >>

(* fetchReferencedDescriptor, the cache lookup.                            *)
LoadRef(r) ==
    LET url == call[r].url
    IN  /\ pc[r] = "loadRef"
        /\ UNCHANGED << cache, descCache >>
        /\ IF url \in DOMAIN descCache THEN Follow(r, descCache[url])
           ELSE IF ~FetchAllowed(url) THEN Fail(r, "descriptor-ref")
           ELSE /\ Goto(r, "fetchRef")
                /\ UNCHANGED << call, node, tree, skipped, result >>

(* ... a referenced descriptor decoded but not validated.                  *)
BadAnswers(url) == IF url \in DOMAIN Serves THEN Serves[url] ELSE {}

(* fetchReferencedDescriptor, the exchange: the server answers with one of *)
(* its descriptors; one that parseSingle rejects fails like an error.      *)
Answers(url) == IF url \in DOMAIN Serves THEN Serves[url] \ Malformed ELSE {}
FetchRef(r) ==
    /\ pc[r] = "fetchRef"
    /\ UNCHANGED << cache, descCache >>
    /\ \/ Fail(r, "descriptor-ref")
       \/ \E d \in Answers(call[r].url) :
            /\ Goto(r, "storeRef")
            /\ call' = [call EXCEPT ![r] = [call[r] EXCEPT !.desc = d]]
            /\ UNCHANGED << node, tree, skipped, result >>

(* fetchReferencedDescriptor, r.descCache.Store and the return.            *)
StoreRef(r) ==
    /\ pc[r] = "storeRef"
    /\ descCache' = Put(descCache, call[r].url, call[r].desc)
    /\ UNCHANGED cache
    /\ Follow(r, call[r].desc)

-----------------------------------------------------------------------------

(* What a request does once its handler has called Resolve.                *)
Step(r) ==
    \/ CheckTemplate(r) \/ LoadTemplate(r) \/ FetchTemplate(r)
    \/ StoreTemplate(r) \/ CreateNode(r)
    \/ EnterSlot(r) \/ Return(r)
    \/ CheckRef(r) \/ LoadRef(r) \/ FetchRef(r) \/ StoreRef(r)

(* Every page has been answered: nothing is left to do.                    *)
AllDone == (\A r \in Request : pc[r] = "done") /\ UNCHANGED vars

Next == (\E r \in Request : Resolve(r) \/ Step(r)) \/ AllDone

Spec == Init /\ [][Next]_vars

(* A request that has begun is a running goroutine, and the client's       *)
(* timeout makes every exchange end, so each of its steps is eventually    *)
(* taken.  Nobody has to send a request.                                   *)
FairSpec == Spec /\ \A r \in Request : WF_vars(Step(r))
=============================================================================
