# A verification project for golang-vdp-demo

The repository demonstrates the View Descriptor Protocol (VDP): an API attaches a *view descriptor* to its
data, and a client (here a Backend for Frontend) fetches the templates the descriptor names, composes them into a
tree and renders HTML. This directory holds TLA+ modules that model the client, TLC configurations that
check them on small instances, and proofs, checked by TLAPS, that hold for every instance.

## 1. Inventory

| Part (source) | State it keeps | Operations | What is hard | What makes it correct |
|---|---|---|---|---|
| Resolver (`vdp/resolve.go`) | two `sync.Map` caches shared by all requests: template bodies by identity, referenced descriptors by URL | `Resolve`, the recursion `resolve`/`resolveSlot`, `fetchTemplate`, `fetchReferencedDescriptor`, `FetchDescriptor` | requests interleave between a cache lookup, the exchange and the store; any exchange may fail; references form cycles and change the base | the tree is what a cache-less, sequential composition could have produced; trust, integrity and HTTPS hold whoever filled the cache; the walk ends |
| URI rules (`vdp/resolve.go`) | none | `resolveTemplateURI`, `resolveRefURL`, `checkTrusted`, `normalizeIdentity`, `requireHTTPS` | three forms of identifiers, folding of hosts, segment boundaries, host:port that reads as a scheme | one identity per resource and base; same origin is preserved along references |
| Integrity (`vdp/integrity.go`) | none | `verifyIntegrity` | several tokens, only the strongest algorithm counts | a pinned descriptor never gets another body |
| Descriptors (`vdp/descriptor.go`) | none | `UnmarshalJSON`, `MarshalJSON`, `Validate`, `Parse`, `parseSingle` | decoding and validating reject different things, at any depth; two parsers for one resource | nothing invalid reaches the resolver, no member is ignored, what is written is read back |
| Transport (`vdp/transport.go`) | none | `Extract`, `View`, `parseLinks`, `FormatLinkHeader` | precedence of three transports, each of which may be malformed; header fields that intermediaries join | the most specific descriptor is used, or an error is reported; a link is found whatever stands beside it |
| Page handlers (`server/bff.go`) | one resolver per origin (`sync.Map`) | `page`, `resolveAndRender`, `resolverFor` | first requests race to build the resolver from documents that may differ; seven steps may fail | one resolver, one allowlist per origin; the right fallback; every request answered |
| Discovery (`vdp/discovery.go`) | none | `Endpoint`, `DescriptorURL` | templated keys that overlap | a literal key wins, one segment per expression |
| Transforms (`vdp/transform.go`) | none | `ParseTransform`, `Eval`, `MarshalJSON` | constructs nest in each other; what a pointer is relative to; a mapper that is legal in one place only | a projection sees its element, a mapper stands alone, counts and lists agree |
| JSON values (`vdp/jsonvalue.go`) | none | `ParseJSON`, `Pointer`, `Plain`, `StripDescriptor` | pointers that lead nowhere, duplicate names, order of members, index overflow | first place and last value; nothing is found where nothing is; the same input on every transport |
| Renderer (`render/render.go`) | none | `Render`, `renderNode` | depth limit, one failing sub-template | a failing slot leaves the rest of the page |
| Demonstration API (`server/api.go`, `server/data.go`) | none (constants) | data endpoints, one per transport; descriptor resources; the discovery document | switches that travel through queries, links and references into shared caches; one template used by several pages | each switch takes away what the README says; a template gets the same contract everywhere |
| Template server (`server/templates.go`) | none (embedded files) | `ServeHTTP` | none | a file or 404 |
| Shell, static files, `main.go` | none | chrome and wiring | none: pure input and output | — |

How they interact: the browser calls a page handler; the handler obtains the origin's resolver (fetching the
discovery document once), calls the API, hands the response to `Extract`, lets the resolver fetch a standalone
descriptor, selects a view, calls `Resolve`, and renders the tree. All requests share the BFF's map of
resolvers and, through the resolver, its two caches. There are no locks other than those inside `sync.Map`
and the one around a request's trace.

`PROJECT.json` lists every component with its status, and under `hazards` what in this code a test would
hardly reach, at its line, with the properties that would catch it going wrong.

## 2. Modules

| Module | Models | Kind |
|---|---|---|
| `TemplateURI` | URLs, identifiers, their resolution, `requireHTTPS`, `checkTrusted` | operators |
| `Integrity` | `verifyIntegrity` as a fold over the tokens | operators |
| `Descriptors` | descriptors as a finite graph of names, and the order slots are walked in | operators |
| `Resolver` | the resolution algorithm run by several requests over the shared caches | state machine |
| `Composition` | what `Resolve` promises: no caches, no stack, no network | abstract state machine |
| `RootOutcome` | the answers `Resolve` may give its caller, for a given root, base and allowlist | operators |
| `ResolverProps` | the properties of `Resolver`, and the refinement mapping to `Composition` | properties |
| `Extract` | `Extract` and `View`: which descriptor a response carries | operators |
| `Page`, `PageProps` | the page handlers over the BFF's map of resolvers | state machine, properties |
| `Render`, `RenderProps` | `Render`, `renderNode`: what of a resolved tree is shown, and from which model | operators, properties |
| `JSONValue` | order-preserving JSON, pointers, `StripDescriptor` | operators |
| `Transforms` | the grammar of transforms, `Eval`, the model of a template | operators |
| `Resources` | `Parse`, `parseSingle`, over any reading of one view | operators |
| `Grammar` | reading and validating one view | operators |
| `Writing` | the JSON transforms and views are written back as | operators |
| `LinkHeader` | `parseLinks` and below, `FormatLinkHeader` | operators |
| `Wire`, `WireProps` | one response from a server over proxies to a model, whatever its descriptor says | state machine, properties |
| `LanguageProps` | `Wire` with the languages of `Grammar`, `Transforms` and `Writing` | properties |
| `Discovery` | `Endpoint`, `matchTemplateKey`, `DescriptorURL` | operators |
| `DemoAPI` | the servers of the demonstration, and `summaryTotals` | operators |
| `DemoProps` | `Resolver` against `DemoAPI`, and what the repository says of the pages | state machine, properties |
| `DescriptorTypes`, `SequenceFacts` | types of the operators on descriptors; induction on indices, sequences joined and counted | lemmas |
| `ResolverProofs`, `ResolverWalk`, `RenderProofs`, `PageProofs`, `WireProofs`, `LanguageProofs` | inductive invariants, theorems | proofs |
| `MCData`, `MC*` | instances for TLC | model checking |

Which composes which: `Resolver` uses `TemplateURI`, `Integrity` and `Descriptors`; `Page` uses `Extract` and
`RootOutcome`; `Wire` puts `Resources` (over `JSONValue`) and `LinkHeader` under an instance of
`Extract`, and `LanguageProps` adds `Grammar` and `Writing` (over `Transforms`); `DemoProps` runs `Resolver` on what `Extract` gives of `DemoAPI`'s responses, whose transforms are
an instance of `Transforms`.

### Resolver

State and code:

| Variable | Code |
|---|---|
| `cache`, `descCache` | `Resolver.cache`, `Resolver.descCache` |
| `call[r]` | arguments and locals of the activation of `resolve`/`resolveSlot` at the top of request `r`'s stack, until it has made its node or failed |
| `tree[r]`, `node[r]` | the `Node`s made so far, each with its parent; `todo` is what the parent's loop has not reached; the stack of the recursion is the path from `node[r]` up |
| `skipped[r]` | the `slot-skipped` events of the trace |
| `result[r]` | what `Resolve` returned: `"ok"` or the reason of the error |
| `pc[r]` | where the goroutine of request `r` stands |

Actions and code: `Resolve` (validation of the root), `CheckTemplate` (depth, identity, trust), `LoadTemplate`
(cache lookup, HTTPS rule), `FetchTemplate` (exchange), `StoreTemplate`, `CreateNode` (integrity, mapper),
`EnterSlot`/`Return` (the loop over slots), `CheckRef`, `LoadRef`, `FetchRef`, `StoreRef` (the same for a
descriptor reference). A step ends exactly where another goroutine can make a difference: before and after a
cache access and an exchange. Checks that only read a request's own data are one step with what follows them.
`Fail` is the error path of all of them: at the root `Resolve` returns the error, in a slot the parent's loop
records it and goes on. The servers are external: `Body` is any template body at any time, `Serves[u]` the
descriptors that may be found at a URL, and an exchange may always fail.

`Composition` states the promise: a page grows from the root, a node is placed only where its parent has a child
for it, with a trusted identity, a verified body, within the nesting bound and along references that never
repeat; children are settled in order, placed or left out; the page is complete when every child is settled, and
fails only while it has no root. `ResolverProps!Promise` maps the walk onto it.

### Page

`Page` takes `Resolve` as one step whose answer is any of `RootOutcomes`; that `Resolve` gives no other is
`AnswersAsAnnounced`, checked in the run `origin` and proved (`AnswersAnnounced`). `LoadResolver`, `FetchDiscovery` and `StoreResolver`
are `resolverFor` cut at its two accesses to the map; the remaining actions are the steps of `resolveAndRender`,
and `Fail` is the choice `page` makes of what the browser sees. `Extract` keeps decoding and validation apart,
because the code treats their errors differently.

### Render

The renderer keeps no state, so it is an operator on the trees `Resolver` returns, and `RenderProps` evaluates it in
every state where a request has one. HTML is the sequence of the nodes it contains, each with its model; a model
here is the sequence of projections applied to the representation; a template is the slots it calls, in its order
(`Calls`, the same whatever the model: the repository's templates call their slots outside of conditions on their
data, and `with slot` only adds default content), and the models it fails on (`Fails`). `<< >>` stands for an error:
a node that is rendered contains at least itself. `renderNode` and the template function `slot` call each other, one level deeper each time; so `Html`
is a function of the depth, `RenderNode` and `Slot` take what it gives one level below as their argument `below`, and
at the limit it gives an error. `DepthAssumption` says that the resolver's limit is not above the renderer's:
`NewResolver` sets the default, which is the renderer's constant, and the page handler leaves it (section 5 says what
happens otherwise).

### Wire

`Extract`, `Resolver` and `Page` take as given which descriptors decode, which are valid and which links a header
has. `Wire` computes all of that from the text: a descriptor's name is its JSON document, and `Extract` is
instantiated with the sets that reading and validating it decides. A response passes through six stages: the server attaches a
descriptor to a representation (`SendInline` anywhere among the members, `SendLink` among other entries,
`SendHeader`), a proxy joins Link fields (`JoinLinks`), the client reads body and header (`Receive`: `get` with its
1 MiB cut, `Extract`, `StripDescriptor`), fetches and selects (`FetchDescriptor`), and makes the model
(`Project`). The server and the proxy are external; everything from `Receive` on is the code.

What a descriptor says matters to the way of a response at three points only: whether it can be read, whether it is
valid, and which model it makes. These are constant operators of `Wire` (`ReadView`, `ValidView`, `Model`), to which the
runs give `Read`, `Valid` and `ModelOf`. So what is proved about `Wire` (section 4) holds for any languages that
satisfy its assumptions; TLC evaluates these for the code's.

The functions of the languages call themselves on what a value, a transform or a descriptor consists of:
`parseTransformValue`, `Eval`, `Plain`, `UnmarshalJSON`, `validate`, `MarshalJSON`. `Transforms`, `Grammar` and `Writing`
define what *one* call does and leave the calls it makes of itself to constants (`NestedParse`, `NestedEval`,
`NestedPlain`, `ReadView`, `ValidView`, `NestedWrite` and so on). The instances close the circle (`NestedParse` is `Parse` in
`MCWire`) and TLC evaluates the recursion; the proofs have it as an assumption, that the function is what one call does. Every
definition thus stands for one function of the code, and none is a recursive operator, which the provers could not use.

A JSON value is a record told apart by its fields, a string either a pointer (the sequence of its tokens) or a text,
a header a sequence of marks and words. `Scanned` is `fmt.Sscanf` with its error dropped; `MaxInt` is the largest
`int`.

### Demonstration

`DemoAPI` states what each endpoint answers to a path and a query: the response as `Extract` sees it, the
representation, the descriptor resources, the templates with what each displays of its model (`Reads`), and the
discovery document. A descriptor is named by
its node and the query it was written for. `DemoProps` lets requests, each an API path and a query, visit the
BFF and resolves them with the actions of `Resolver`, restricted to exchanges in which the servers answer: what
fails then fails because of a switch.

### Abstractions

A URL is a record; its path is a sequence of segments, so a prefix "on a segment boundary" is a prefix of
sequences. Fragments, user information and dot segments are left out; a query, where one matters
(`DemoAPI`), is part of the last segment. In `Resolver` and `Page` descriptors and bodies are names, and what the
JSON grammar decides appears as two sets: what `Validate` rejects (`Malformed`; an assumption, `Consistent`, ties it
to the slots as `validate`'s recursion does) and what `UnmarshalJSON` rejects already (`Undecodable`); `Wire` checks
the grammar itself, `ValidThroughout` that the assumption is right. Hashing is injective; reading a resource to
`maxTemplateBytes` gives some body. The HTTP client's redirects are part of the exchange. A trace's events are kept
only as far as they are `skipped`.

Of JSON, booleans, the escapes in strings and what `ParseJSON` lets stand after the document (it rejects only what
parses as a further token) are left out, and so is that `encoding/json` matches the names of struct fields
without regard to case (`_View` reads as `_view` but is not stripped). A body with two members `_view` is not
generated. The Link grammar knows no backslash escapes, like the code. In `DemoAPI` one or two rows stand for several,
texts and amounts that no transform or mapper tells apart are one value, and `baseURL` is that of a plain HTTP
request without a proxy.

Definitions named `Bad...` are defects a change of the code could bring in. They stand next to what they would
replace, no action uses them, and each property is shown to fail when one of them is put in its place.

## 3. Runs

| Run | Instance and bounds | Properties |
|---|---|---|
| `walk` | one request; nine descriptors with array slots, nested, shared, relative and circular references, a pinned body, a mapper nobody knows, a foreign template, a malformed resource; two bodies; depth limit 6, which the graph exceeds three ways: by an inline child, by a reference, and by the template of a reference at the last level | `ChainIsAncestry`, `DepthCountsReferences`, `NoFalseCycle`, `NothingLost`, `NothingMalformed`, `KeepsPromise` |
| `race` | two requests for one page; one template used plain and pinned, one referenced descriptor that changes and refers back to itself; limit 0, that is the default 10 | `TypeOK`, `PinnedBodies`, `FetchedOncePerRequest`, `TornPageNeedsRace`, `KeepsPromise`, `SettledForGood`, `Answered` |
| `origin` | four requests without an allowlist: an HTTPS base in capitals, a loopback base, a plain HTTP base, no base; hosts in every form | `SameOriginClosure`, `BodyProvenance`, `FetchedSecurely`, `AnswersAsAnnounced` |
| `render` | one request; array slots, projections above and below nodes without one, a reference that stands twice, a slot nobody calls, and a chain of eleven inline descriptors with references around the limit: at the last level one is fetched and its template refused; two templates, one of which fails on a projected model and calls a slot twice; limit 0 | `GuardIsNeverNeeded`, `ShownAsCalled`, `IndependentProjection`, `ArrayOrder` |
| `page` | three requests, two of one origin, whose discovery document changes between two allowlists; fourteen responses: every transport alone and against the others, valid, malformed, cut, not JSON | `TypeOK`, `MostSpecificView`, `ValidatedBefore`, `SharedResolver`, `PagesJudgedAlike`, `PageAnswered` |
| `wire` | thirty-eight documents (every construct, valid, invalid and undecodable at the root and below), two representations, each transport, two other Link entries with commas, semicolons and quotes; `MaxInt` is 7 | `SameModelOnEveryTransport`, `LinkSurvives`, `FirstPlaceLastValue`, `MapperStandsAlone`, `ProjectionIsRelative`, `CountAgrees`, `NothingIgnored`, `WrittenAsRead`, `ValidThroughout`, `ReferenceOrLink` |
| `demo` | every page of the BFF and the partial update, with every switch the README lists; any two visits (`MaxVisits`), interleaved | `DegradesAsDocumented`, `OneContractPerTemplate`, `DiscoveryAgrees` |
| `odata`, `circle`, `rawdata`, `malformed`, `index` | see section 5 | one each |

Why the bounds are enough: a request touches other requests only through a cache entry, so what can go wrong with
one entry shows with two requests (a lookup and a store of one between those of the other), and that an entry
settles for good is proved for any number of them; a chain shows every relation of depth, base and cycle within two
references, the refusal of a third that is on it already and that of a third for its depth; two bodies are enough to tell "the same" from "another". Two visits are
enough in `demo` for the same reason, and `MaxVisits` keeps the rest of the browsers out; a small `MaxInt` overflows
as Go's does; and the documents of `wire` put each construct at the top, below itself and below each kind of
container. `DepthLimit`
bounds the walk as in the code and no other counter is needed: trees are finite because depth is.

What the less obvious properties say. `TornPageNeedsRace`: one page may contain two versions of one template, but
only as fetched by two different requests: what one request fetches for a template, it goes on using. `SettledForGood`: an entry can be overwritten while exchanges
that missed it are under way, and never after; so a body that fails the integrity check of a pinned slot stays, and
the slot fails until the process ends. `NothingLost`: when `Resolve` returns a tree, each child of each node stands
in the tree or is among the skipped, once. `ShownAsCalled` compares the recursion of the renderer, from the root
down, with a count taken along each node's path up; it also compares two limits, since the resolver counts a
reference as two levels and the renderer as one. `PagesJudgedAlike`: although the discovery document changes, all
pages of an origin were judged by the allowlist that is in the map. `NothingIgnored` takes each member that
says something (not a vendor's, not a field that is as good as left out) from a document that decodes, at any depth: what
is left must not decode, or be read as something else. `ProjectionIsRelative` compares
what `$map` gives for element *i* with the same transform whose pointers are prefixed by the path of that element;
`CountAgrees` compares three constructs at one pointer. `DegradesAsDocumented`: after any other page has filled the
caches, a switch takes exactly its own slot or root away. `OneContractPerTemplate` asks that
what a template file displays of its model is there, in each element it ranges over, however the model is made: by a
transform, by the mapper, by the representation as it is; and compares the members, and the kinds of their values,
that one template is given on different pages. `DiscoveryAgrees` asks for the view of the response from the discovery
document as it is published and from each that has one templated key more which overlaps the path's own: a path of the
demonstration matches one key only, so the order in which keys are tried shows in the latter.

### Fairness

`FairSpec` of `Resolver` and of `Page` asks weak fairness of each request's own steps, for each request apart: a
handler is a goroutine, which the Go scheduler does not starve, none of its steps waits for another request, and
every exchange ends because the client in `main.go` has a timeout of ten seconds. Nothing is asked of a request
that has not begun: browsers need not send one. A server need not ever answer well: failing is one of the
outcomes of the fair step. `Page` takes that `Resolve` returns from the resolver's `Answered`.

## 4. Proofs

`ResolverProofs` proves `IInv` inductive, for any sets of requests, hosts, descriptors and bodies, any servers
and any depth limit, from the named assumptions on the constants (`HostAssumption`, `DescriptorAssumption`,
`ResolverAssumption`) alone. `TypeOK` is not inductive by itself: a step that reads `tree[r][node[r]]` needs
`node[r]` to be a node, and one that goes on with `call[r]` needs the fields the earlier steps have filled. `IInv`
adds

- `TreeOK`: parents come before children, `todo` holds places of the node's own descriptor, and every node was
  verified when it was made;
- `ActivationOK`: what `call[r]` holds at each `pc[r]` (a reference and no descriptor at `"ref"`, a URL at
  `"loadRef"`, an identity from `"load"` on, a body at `"store"` and `"verify"`);
- `WalkOK`: the walk stands on a node of the tree, or has none yet and is at the root.

The proof has one lemma per action. Every safety property of `ResolverProps` is proved on top of it, each from the
invariant it needs:

| Module, theorem | States | By |
|---|---|---|
| `ResolverProofs`: `TypeCorrect` | `[]TypeOK` | `IInv` |
| `PinnedBodiesHold` | `[]PinnedBodies` | what a step can do to a tree (`TreeStep`) |
| `SameOriginClosed` | `[]SameOriginClosure` | `OriginInv`: "the base has the origin of the request's base", carried from a node to both kinds of children |
| `CachesFetchedSecurely` | `[]FetchedSecurely` | `SecureInv`, on what is about to be stored |
| `SettledEntriesStay` | `SettledForGood`, an action property | a step that makes a request fill an entry found it missing |
| `NothingMalformedHolds` | `[]NothingMalformed` | `ValidInv`: a valid descriptor is followed from the two places of validation through slots and the cache; it rests on `DescriptorAssumption`, that validation covers inline children |
| `ResolverWalk`: `NothingIsLost` | `[]NothingLost` | `WalkInv` |
| `ChainIsOwnPath`, `DepthIsPathLength`, `CyclesAreReal` | `[]ChainIsAncestry`, `[]DepthCountsReferences`, `[]NoFalseCycle` | `ContextInv`, `AncestryInv`, `CycleInv` |
| `PromiseKept` | `KeepsPromise`: `Resolver` implements `Composition` | `WalkInv`, `ContextInv`, `ValidInv` |
| `AnswersAnnounced` | `[]AnswersAsAnnounced` | `AnswerInv`: how far the root activation has passed its checks; a hit passes the HTTPS rule because of `SecureInv` |
| `FetchedOnce`, `BodiesFetched`, `TornOnlyByRace` | `[]FetchedOncePerRequest`, `[]BodyProvenance`, `[]TornPageNeedsRace` | `FetchInv`, `SourceInv` |

`ResolverWalk` begins with six kinds of steps as one request sees them (`Unmoved`, `Failed`, `Moved`, `Created`,
`Entered`, `Returned`; lemma `StepKinds`), so that later proofs split on six cases and not on thirteen actions of this
request and of all others. The invariants:

- `WalkInv`: every child of every node is to do, in hand, placed or given up, and never two of these (`ChildrenOK`);
  the nodes with children left to do lie on one path, the stack, that `node[r]` ends (`StackOK`). When the root
  returns, the stack is empty, so no child is left to do.
- `ContextInv`: an activation has the base, the depth and the chain that its parent gives it, one level further for an
  inline child, two and one more URL for a reference; past its checks it satisfies them.
- `AncestryInv`: `Path2Root` is defined by recursion over data, which the provers cannot do induction on. That the
  recursive function exists and that there is only one is therefore carried as an invariant of the state: the tree
  grows by a node at a time, whose parent is there already, so the function does as well, and with it what depth and
  chain say of its values.
- `FetchInv`: what a request has fetched is in the cache and stays there, so an activation that misses is for a template
  the request has not fetched. `SourceInv`: whoever holds a body, the cache, an activation or a node, has it from a
  fetch for that identity, and no step forgets a fetch (`FetchesGrow`).

The refinement maps `tree` to `page` without the fields only the walk needs (`PageView`), `skipped` to the set of
places left out (`MissingView`) and `pc` and `result` to `status` (`Outcome`). A step that fails is `LeaveOut` or
`FailPage`, one that creates a node is one of the three `Place...` actions, the root's return is `Complete`, the
first step is `Begin`; the rest, every cache access and exchange among it, is invisible. `SameOperators` says that the
operators the two modules share mean the same in both.

`PageProofs` does the same for `Page`, for any requests, origins, responses, servers and views, from
`ExtractAssumption` and `PageAssumption` (what `FetchDescriptor` hands over has been through `Parse`, that is, it is
valid; `ReferenceOrLink` and `ValidThroughout` check that of the grammar). Its `IInv` has three parts:

- `Typed`: types of the map of resolvers and of what each handler holds;
- `SharedResolver`: a handler past its offer holds the resolver that is in the map;
- `Held`: what has been checked of a handler's data at each point (an extraction with a URL or valid views, a valid
  view before `Resolve`, a root that its resolver's allowlist trusts once it is composed).

| Theorem | States |
|---|---|
| `PageTyped` | `Spec => []TypeOK` |
| `ResolverShared` | `Spec => []SharedResolver`: `LoadOrStore` keeps the entry that is there, so a handler that was late takes it |
| `JudgedAlike` | `Spec => []PagesJudgedAlike`, from `SharedResolver` and the trust recorded in `Held` |
| `ValidationComplete` | `Spec => []ValidatedBefore`, from `Held`: every branch of `Extract` and `FetchDescriptor` yields valid views |
| `MostSpecific` | `Spec => []MostSpecificView`, by the invariant `Sourced`, that ties each extraction to the response it came from; the first of several links exists because a nonempty set of indices has a least element (`LeastIndex`) |

`DescriptorTypes` holds the lemmas both developments use: the types of resolved template identities, reference URLs
and places.

`RenderProofs` proves the four properties of the rendered page, for every descriptor graph, every choice of
transforms, templates (`Calls`) and failures (`Fails`), from `RenderAssumption` (which only types these) and
`DepthAssumption`. They are properties of states, a rendered page being a function of a resolved tree, and rest on
`PageInv`, which adds to the resolver's invariants `ShapeInv`: a tree has one root, its first node, and the children in
one slot stand in the order of their places, with what is still to do and what is in hand after them.

| Theorem | States | By |
|---|---|---|
| `GuardStaysIdle` | `[]GuardIsNeverNeeded` | a path is no longer than the depth the resolver counts on it (`PathLength`) |
| `ProjectionsIndependent` | `[]IndependentProjection` | an entry of a page comes from a node of the tree, with that node's model of the representation (`Faithful`) |
| `ArraysKeepOrder` | `[]ArrayOrder` | joining pages of children that are in order keeps the order (`OrderStep`), since paths branch at one node only (`PathShape`) |
| `NodesShownAsCalled` | `[]ShownAsCalled` | of the children of a node, exactly one is on the path of a node below it; a slot shows that node as often as it is called times as often as the child shows it (`SlotCount`) |

Each is an induction on the depth at which `renderNode` is called, from the guard up to the root. The provers cannot
use the induction theorems of the library, which take a predicate; `SequenceFacts` states induction for a *set* of
indices instead (`IndexInduction`, `DownInduction`), from the well-founded order on the subsets of a finite set
(`LeastIndex`). That the functions defined by recursion, `Html`, `TimesDue`, the partial results of `FlattenSeq`, exist
is proved the same way. Two things came out of the proofs. `GuardIsNeverNeeded` and `ShownAsCalled` do not hold for a
resolver with a higher limit, which is why `DepthAssumption` is stated. And `ArrayOrder` was first stated for
templates that call their own array slot once; that is false: when a template *above* calls its slot twice, the array
appears twice, and its last element before its first. The instance of `render` contains such a template now, and TLC
finds the weaker condition violated.

`WireProofs` proves four properties of a response on its way, for any descriptors and representations, any other entries
of the Link header, any reading, validation and models, from three assumptions: `WireAssumption` (representations are
finite texts without members of the protocol's; what has a member `views` does not read as one view),
`LinkAssumption` (the resource's URL can stand in angle brackets; the other entries of the header leave no bracket or
quote open and none of them is for a descriptor) and `EntriesAssumption` (`$entries` without `$to` lists the members of an
object in the order of its keys, which is `EvalEntries`). The second is needed: an entry that leaves a quote open
takes the descriptor's entry with it once a proxy joins the two.

They rest on one invariant, `WireInv` (`ResponseKept`). `SameModelOnEveryTransport` and `LinkSurvives` speak of the end
of the way; that they hold there follows from what the response is at every stage before: `Origin` (still what one of the
transports made it: a findable link, a header, or the text of the representation with one member more), `Obtained`
(what the extraction has of that) and `Used` (view and model are of the descriptor the server meant).

| Theorem | States | By |
|---|---|---|
| `LinkFound` | `[]LinkSurvives` | the entries of two joined fields are those of the one and the other (`JoinedLinks`), because the loop of `splitLinkFields`, when it comes to the comma outside of brackets and quotes, goes on as it would from the start (`ScanJoined`); `FormatLinkHeader` writes what `parseLink` reads (`OwnLinkParsed`) |
| `ModelKept` | `[]SameModelOnEveryTransport` | stripping what was put into a text gives what the rest decodes to, key for key (`ReadInserted`) |
| `ListedOnce` | `[]FirstPlaceLastValue` | the keys of a decoded object are the names of the text by the rank of their first places (`DecodedKeys`), the members have the last values (`ReadLast`) |
| `ParsedAlike` | `[]ReferenceOrLink` | the branches of `Parse` and `parseSingle` |

The loops of the code, over the members of an object, the marks of a header, its parameters, are functions defined by
recursion on an index. For each a lemma says that such a function exists on every input and that the definition is it
(`DecodedExists` and `DecodedIs`, `ScanExists` and `ScanIs`), from `Iterates` and `AlikeThroughout` in
`SequenceFacts`; what it computes is then an induction on the index.

`LanguageProofs` proves the properties of the languages, for any documents and representations and whatever nests in
them. Besides those of `Wire` it takes assumptions on the constants of `LanguageProps`:

- `ValueAssumption`: documents are of a set `Value` of JSON values, which has the contents of each of its values; names
  are keys, an array has no more elements than an `int` counts, and the values nest to a depth `Nesting`.
  `encoding/json`, which decodes everything the program reads, refuses what nests deeper than 10000 levels.
  `InputAssumption` says the like of representations, whose depth need not be bounded.
- `ParseAssumption`, `EvalAssumption`, `WriteAssumption`, `RemovalAssumption`: the nested calls do what the function itself
  does, on values of these sets, on transforms that were parsed from them (`EvalAssumption` also on these with their pointers
  prefixed) and on values with a member taken away; what is written is of `Value` again.

That what is written is JSON of the same nesting is all that is assumed about what the functions give. TLC evaluates
all of these in `wire`, with everything the thirty-eight documents consist of and are written as for `Value`.

The properties are carried up from the leaves of a value to the whole. `Contents` is what a value consists of, and
`ValueInduction` says that a set which has every value whose components it has, has them all. It is induction on the depth of
values, again for a *set* (`DownInduction`, from `Nesting` up to the document), so a property becomes the set of the values
that have it.

| Theorem | States | By |
|---|---|---|
| `ValidatedThroughout` | `[]ValidThroughout` | the view in use is valid on every transport (`Used`, strengthened in `WireInv` for this); what nests inline in a valid view is valid (`InlinesValid`), at every level of `InlineBelow`, and so are the references there |
| `MapperAlone` | `[]MapperStandsAlone` | whatever is below a parsed transform was parsed where none may be a mapper (`BelowWithin`, `NoMapperParsed`) |
| `CountedAsListed` | `[]CountAgrees` | an array and an object are counted by what lists them; the keys of an object are its names, once each |
| `ElementsOnly` | `[]ProjectionIsRelative` | a pointer prefixed by another leads where the one leads from where the other led (`PointerRelative`), for every construct a transform may be made of |
| `WrittenBack` | `[]WrittenAsRead` | `TransformRewritten`, then `DescriptorRewritten`: one lemma per construct, for a null default, a bare `$entries`, an array of one |
| `MembersHeeded` | `[]NothingIgnored` | `PlainTold`, `TransformTold`, `DescriptorTold`: a value with a member less has another plain form, parses otherwise, reads otherwise, provided its components do |

The last proof corrected its property. `NothingIgnored` was first stated for every member that is not a vendor's, and TLC
found nothing against that; but it is false. A member `type` or `integrity` that is the empty string, and `slots` that
is null or has no member, are read as if they were not there. `Telling` names these exceptions, and says by that which
members descriptor.go heeds.

Only model-checked:

- the properties of `DemoProps`. They state facts of one given set of constants, the demonstration's own documents,
  and say nothing of others; a proof would do by hand the evaluation TLC does;
- liveness, `Answered` and `PageAnswered`, and with it anything that needs ENABLED.

## 5. What the code does and the repository says otherwise

- `odata`: `localhost:8080/templates/...` is taken for a URL with scheme `localhost` and its fetch refused, so the
  `/odata` page does not compose at the address the repository's README gives; with `127.0.0.1:8080`, which
  the tests use, it does.
- `circle`: the chain of references starts empty, so a standalone descriptor that refers to its own resource is
  composed once below itself before the cycle is noticed.
- `rawdata`: the raw data is shown in place of a root that declares a transform if its template fails before its
  mapper is looked up.
- `malformed`: an inline descriptor that does not decode counts as absent, and a header's takes its place.
- `index`: an array index that does not fit an `int` is taken for 0, so a pointer far beyond an array finds its first
  element instead of nothing.

One more, noticed without a run: the renderer's limit is the default one whatever `Resolver.MaxDepth` is; with a
higher `MaxDepth` the resolver returns trees whose last levels are dropped without an event. With the default, which
is all the program uses, the guard is never needed (`render`, `GuardIsNeverNeeded`).

## 6. Not modelled

The shell, the static files and `main.go` are chrome and wiring; the trace panel of `bff.go` and the formatting
helpers and `hasSlot` of `render.go` only choose what markup or explanation is displayed. `options`, caching headers,
`ETag` and the 304 answer of the template server have no reader in the program. Eviction does not exist in the code,
so neither does it in the model; a body cut at `maxTemplateBytes` is one of the bodies a server may answer.

## 7. Plan

Done, in this order: `TemplateURI`, `Integrity`, `Descriptors`, `Resolver` with `Composition`, their runs, the
inductive invariant and the first theorems; `Extract` and `Page` with their runs; `Render` over the trees of
`Resolver`; `JSONValue`, `Transforms`, `Grammar` and `LinkHeader` under `Wire`; `Discovery` and `DemoAPI` with the
resolver on top; the theorems of `Page`; the remaining safety properties of `Resolver` and the refinement of
`Composition` as theorems; the theorems of `Render` and of `Wire`; those of the languages.

Next: `Page` composed with `Resolver` itself instead of `RootOutcomes`, on one instance. What that would add is small,
since the interface between them is proved.
