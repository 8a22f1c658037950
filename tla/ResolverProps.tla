---------------------------- MODULE ResolverProps -----------------------------
(***************************************************************************)
(* What the resolver must get right, stated over the state of Resolver.    *)
(***************************************************************************)
EXTENDS Resolver, RootOutcome

Nodes(r) == 1 .. Len(tree[r])

(* The nodes on the path from the root to node i of request r.             *)
Path2Root(r) ==
    LET up[i \in Nodes(r)] ==
          {i} \cup (IF tree[r][i].parent = 0 THEN {} ELSE up[tree[r][i].parent])
    IN  up

(* Node i was reached by following a reference, not as an inline child.    *)
ViaReference(r, i) ==
    LET n == tree[r][i]
    IN  n.parent # 0 /\ ChildAt(tree[r][n.parent].desc, n.place).ref # None

(* The template identities request r has fetched over the network, with    *)
(* the bodies it got: seen in its nodes, its failed slots, and the         *)
(* activation in progress.                                                 *)
Fetches(r) ==
    LET uses == {tree[r][i] : i \in Nodes(r)} \cup skipped[r] \cup {call[r]}
    IN  {<< u.id, u.body >> : u \in {v \in uses : v.kind = "fetch"}}

-----------------------------------------------------------------------------
(* The tree.                                                               *)

(* The set `seen` of a node, cloned and extended by resolveSlot on the way *)
(* down, holds exactly the URLs of the references on the path from the     *)
(* root to it: nothing leaks from a sibling's chain, nothing is lost.      *)
ChainIsAncestry ==
    \A r \in Request : \A i \in Nodes(r) :
        tree[r][i].seen =
            {tree[r][j].base : j \in {k \in Path2Root(r)[i] : ViaReference(r, k)}}

(* The depth a node is resolved at counts every inline level once and      *)
(* every reference twice, and no reference is followed twice on a path:    *)
(* otherwise the chain would hold fewer URLs than there are references.    *)
DepthCountsReferences ==
    \A r \in Request : \A i \in Nodes(r) :
        /\ tree[r][i].depth =
             Cardinality(Path2Root(r)[i]) - 1 + Cardinality(tree[r][i].seen)
        /\ tree[r][i].depth < MaxDepth

(* A slot is given up as a cycle only when its reference really leads back *)
(* to a descriptor on its own path; using one resource in two slots is not *)
(* a cycle.                                                                *)
NoFalseCycle ==
    \A r \in Request : \A s \in skipped[r] :
        s.why = "ref-cycle" =>
            LET p == tree[r][s.parent]
            IN  \E j \in Path2Root(r)[s.parent] :
                  /\ ViaReference(r, j)
                  /\ tree[r][j].base = ResolveRef(ChildAt(p.desc, s.place).ref, p.base)

(* When Resolve returns a tree, each child of each node either stands in   *)
(* the tree or is among the skipped ones, once: a failing slot takes       *)
(* nothing else with it.                                                   *)
NothingLost ==
    \A r \in Request : result[r] = "ok" =>
        \A i \in Nodes(r) : \A c \in Places(tree[r][i].desc) :
            Cardinality({j \in Nodes(r) : tree[r][j].parent = i
                                          /\ tree[r][j].place = c})
            + Cardinality({s \in skipped[r] : s.parent = i /\ s.place = c}) = 1

(* Resolve validates its root, and whatever a reference fetches before it  *)
(* is cached; their inline children are walked unchecked.  Still no tree   *)
(* holds a descriptor that validation rejects.                             *)
NothingMalformed ==
    \A r \in Request : \A i \in Nodes(r) : tree[r][i].desc \notin Malformed

-----------------------------------------------------------------------------
(* Trust and integrity.                                                    *)

(* With no allowlist, the same-origin default is transitive: references    *)
(* change the base, yet nothing in the tree comes from another origin than *)
(* the base the request began with (an opaque identifier: from its host).  *)
SameOriginClosure ==
    Allowlist = {} =>
        \A r \in Request : \A i \in Nodes(r) :
            LET n == tree[r][i]
            IN  IF ReadsAsAbsolute(n.id)
                THEN SameOrigin(Parse(n.id), RootBase[r])
                ELSE Lower[n.id.host] = Lower[RootBase[r].host]

(* No tree holds a body its descriptor's integrity metadata rejects, even  *)
(* when another slot or request without metadata put it in the cache.      *)
PinnedBodies ==
    \A r \in Request : \A i \in Nodes(r) :
        VerifyIntegrity(Descriptor[tree[r][i].desc].integrity, tree[r][i].body)

(* The HTTPS rule is applied to a fetch and not to a cache hit, and still  *)
(* nothing in the caches has come over plain HTTP from anywhere but        *)
(* loopback: a hit cannot serve what a fetch would have been refused.      *)
FetchedSecurely ==
    /\ \A k \in DOMAIN cache : FetchAllowed(FetchURL(k))
    /\ \A u \in DOMAIN descCache : FetchAllowed(u)

-----------------------------------------------------------------------------
(* The caches.                                                             *)

(* A request that has fetched a template does not fetch it again, however  *)
(* many slots use it and whatever the other requests do.                   *)
FetchedOncePerRequest ==
    \A r \in Request : \A k \in {f[1] : f \in Fetches(r)} :
        Cardinality({i \in Nodes(r) : tree[r][i].id = k /\ tree[r][i].kind = "fetch"})
        + Cardinality({s \in skipped[r] : s.id = k /\ s.kind = "fetch"}) <= 1

(* A body taken from the cache was fetched for that same identity, by this *)
(* or another request.                                                     *)
BodyProvenance ==
    \A r \in Request : \A i \in Nodes(r) :
        \E q \in Request : << tree[r][i].id, tree[r][i].body >> \in Fetches(q)

(* Two versions of one template in one page were fetched by two different  *)
(* requests: no request alone tears its page, whatever the server does in  *)
(* between, and none adopts a body that nobody fetched.                    *)
TornPageNeedsRace ==
    \A r \in Request : \A i, j \in Nodes(r) :
        /\ tree[r][i].id = tree[r][j].id
        /\ tree[r][i].body # tree[r][j].body
        => \E p, q \in Request :
             /\ p # q
             /\ << tree[r][i].id, tree[r][i].body >> \in Fetches(p)
             /\ << tree[r][j].id, tree[r][j].body >> \in Fetches(q)

(* Identity k is settled: it is cached and nobody is between its lookup    *)
(* and its store.                                                          *)
SettledTemplate(k) ==
    /\ k \in DOMAIN cache
    /\ \A r \in Request : pc[r] \in {"fetch", "store"} => call[r].id # k
SettledReference(u) ==
    /\ u \in DOMAIN descCache
    /\ \A r \in Request : pc[r] \in {"fetchRef", "storeRef"} => call[r].url # u

(* A cache entry can still be overwritten while the fetches that missed it *)
(* are under way, and never after: no later request goes to the network    *)
(* for it, whatever the server serves by then.                             *)
SettledForGood ==
    [][/\ \A k \in DOMAIN cache :
            SettledTemplate(k) => SettledTemplate(k)' /\ cache'[k] = cache[k]
       /\ \A u \in DOMAIN descCache :
            SettledReference(u) =>
                SettledReference(u)' /\ descCache'[u] = descCache[u]]_vars

-----------------------------------------------------------------------------
(* The promise, and the end.                                               *)

Outcome ==
    [r \in Request |->
       CASE pc[r] = "idle" -> "waiting"
         [] pc[r] # "done" /\ pc[r] # "idle" -> "composing"
         [] pc[r] = "done" /\ result[r] = "ok" -> "complete"
         [] pc[r] = "done" /\ result[r] # "ok" -> "failed"]

(* What a page is made of, without how it was come by.                     *)
Composite(n) ==
    [parent |-> n.parent, place |-> n.place, desc |-> n.desc, base |-> n.base,
     depth |-> n.depth, seen |-> n.seen, id |-> n.id, body |-> n.body]
PageView == [r \in Request |-> [i \in Nodes(r) |-> Composite(tree[r][i])]]
MissingView == [r \in Request |-> {<< s.parent, s.place >> : s \in skipped[r]}]

Promise ==
    INSTANCE Composition WITH
        page <- PageView, missing <- MissingView, status <- Outcome

(* Whatever the caches and the interleaving do, Resolve composes pages as  *)
(* Composition promises.                                                   *)
KeepsPromise == Promise!Spec

(* Resolve gives its caller none but the answers the root descriptor, the  *)
(* base and the allowlist announce, whatever happens below the root and in *)
(* the caches: the page handler chooses what to show by them.              *)
AnswersAsAnnounced ==
    \A r \in Request :
        result[r] # "none" =>
            result[r] \in RootOutcomes(Root[r], RootBase[r], Allowlist, Mappers)

(* Every request that begins is answered, whatever the servers serve, even *)
(* descriptors that refer to each other in circles.                        *)
Answered == \A r \in Request : pc[r] = "resolve" ~> pc[r] = "done"
=============================================================================
