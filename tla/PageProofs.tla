------------------------------ MODULE PageProofs -------------------------------
(***************************************************************************)
(* Proofs about Page, for every set of requests, of origins and of the     *)
(* responses, resources and discovery documents the servers may give: the  *)
(* requests of an origin share one resolver and its allowlist, and nothing *)
(* reaches Resolve that has not been validated.                            *)
(***************************************************************************)
EXTENDS PageProps, DescriptorTypes, SequenceFacts

(* The state of a handler at each point: what it holds, and what has been  *)
(* checked of it.                                                          *)
Checked(e) ==
    /\ e \in Extraction
    /\ e.views # None => ValidViews(e.views)
    /\ e.descriptorURL = None => e.views # None

Trusted(r) ==
    LET base == extraction[r].base
    IN  CheckTrusted(ResolveTemplateURI(Descriptor[view[r]].template, base),
                     base, resolver[r].allowlist)

Held(r) ==
    /\ pc[r] \notin {"idle", "discover", "done"} => resolver[r] \in PageResolver
    /\ pc[r] = "extract" => response[r] \in Response
    /\ pc[r] \in {"descriptor", "view"} => Checked(extraction[r])
    /\ pc[r] = "view" => extraction[r].views # None
    /\ pc[r] = "resolve" => view[r] \in Desc \ Malformed
    /\ err[r] # "malformed"
    /\ shown[r] = "page" => pc[r] = "done"
    /\ pc[r] = "render" \/ shown[r] = "page" =>
         resolver[r] \in PageResolver /\ Trusted(r)

Typed ==
    /\ TypeOK
    /\ resolver \in [Request -> PageResolver \cup {None}]
    /\ resolvers \in [DOMAIN resolvers -> PageResolver]
    /\ response \in [Request -> Response \cup {None}]
    /\ extraction \in [Request -> Extraction \cup {None}]

IInv == Typed /\ SharedResolver /\ \A r \in Request : Held(r)

-----------------------------------------------------------------------------
(* Extraction.                                                             *)

LEMMA LinkSound ==
    ASSUME NEW resp \in Response, ViewLinks(resp) # {}
    PROVE  FirstLink(resp) = Rejected \/ Checked(FirstLink(resp))
<1> DEFINE first == CHOOSE i \in ViewLinks(resp) : \A j \in ViewLinks(resp) : i <= j
           url == resp.links[first].url
           ref == ResolveRef(url, resp.url)
<1>1. resp.links \in Seq(Link) /\ resp.url \in Url
  BY DEF Response
<1>2. ViewLinks(resp) \subseteq 1 .. Len(resp.links) /\ Len(resp.links) \in Nat
  BY <1>1 DEF ViewLinks
<1>3. first \in ViewLinks(resp)
  BY <1>2, LeastIndex
<1>4. resp.links[first] \in Link
  BY <1>1, <1>2, <1>3
<1>5. url \in DescriptorRef \cup {None}
  BY <1>4 DEF Link
<1>6. FirstLink(resp) = IF url = None THEN Rejected ELSE Extracted("link", None, ref, ref)
  BY DEF FirstLink
<1> HIDE DEF first, url
<1>7. ASSUME url \in DescriptorRef PROVE ref \in Url
  BY <1>1, <1>7, ResolveRefUrl
<1> HIDE DEF ref
<1>8. CASE url = None
  BY <1>6, <1>8
<1>9. CASE url # None
  <2>1. ref \in Url /\ ref # None
    BY <1>5, <1>7, <1>9, HostAssumption
  <2>2. FirstLink(resp) = [transport |-> "link", views |-> None,
                           descriptorURL |-> ref, base |-> ref]
    BY <1>6, <1>9 DEF Extracted
  <2> QED
    BY <2>1, <2>2 DEF Checked, Extraction
<1> QED
  BY <1>8, <1>9

LEMMA SingleView ==
    ASSUME NEW d \in Desc \ Malformed
    PROVE  [n \in {"default"} |-> d] \in {v \in Views : ValidViews(v)}
<1> DEFINE views == [n \in {"default"} |-> d]
<1>1. {"default"} \in SUBSET ViewName /\ views \in [{"default"} -> Desc]
  BY ExtractAssumption
<1>2. views \in Views
  BY <1>1 DEF Views
<1>3. DOMAIN views = {"default"} /\ views["default"] = d
  OBVIOUS
<1> QED
  BY <1>2, <1>3 DEF ValidViews

(* What is extracted from the body or the View-Template header.            *)
LEMMA ViewsChecked ==
    ASSUME NEW t \in {"_view", "_views", "View-Template"}, NEW url \in Url,
           NEW views \in {v \in Views : ValidViews(v)}
    PROVE  Checked(Extracted(t, views, None, url))
<1>1. Extracted(t, views, None, url) \in Extraction
  BY DEF Extracted, Extraction
<1>2. /\ Extracted(t, views, None, url).views = views
      /\ views # None
  BY ExtractAssumption DEF Extracted
<1> QED
  BY <1>1, <1>2 DEF Checked

LEMMA ExtractSound ==
    ASSUME NEW resp \in Response
    PROVE  Extract(resp) \in {Rejected, NotFound} \/ Checked(Extract(resp))
<1>1. /\ resp.view \in Desc \cup {None} /\ resp.views \in Views \cup {None}
      /\ resp.header \in Desc \cup {None} /\ resp.url \in Url
  BY DEF Response
<1>2. resp.view # None \/ resp.views # None =>
        InlineView(resp) = Rejected \/ Checked(InlineView(resp))
  <2>1. CASE resp.view # None /\ resp.views # None
    BY <2>1 DEF InlineView
  <2>2. CASE resp.view = None /\ resp.views # None
    <3>1. InlineView(resp) = IF ValidViews(resp.views)
            THEN Extracted("_views", resp.views, None, resp.url) ELSE Rejected
      BY <2>2 DEF InlineView
    <3> QED
      BY <3>1, <2>2, <1>1, ViewsChecked
  <2>3. CASE resp.view # None /\ resp.views = None
    <3>1. InlineView(resp) = IF resp.view \in Malformed THEN Rejected
            ELSE Extracted("_view", [n \in {"default"} |-> resp.view], None, resp.url)
      BY <2>3 DEF InlineView
    <3> QED
      BY <3>1, <2>3, <1>1, SingleView, ViewsChecked
  <2> QED
    BY <2>1, <2>2, <2>3
<1>3. resp.header # None => Shorthand(resp) = Rejected \/ Checked(Shorthand(resp))
  BY <1>1, SingleView, ViewsChecked DEF Shorthand
<1> QED
  BY <1>2, <1>3, LinkSound DEF Extract

(* What View selects from valid views is a valid descriptor.               *)
LEMMA ViewSound ==
    ASSUME NEW views \in Views, ValidViews(views), NEW name, View(views, name) # None
    PROVE  View(views, name) \in Desc \ Malformed
<1>1. PICK names \in SUBSET ViewName : views \in [names -> Desc]
  BY DEF Views
<1> QED
  BY <1>1 DEF View, ValidViews

(* Resolve answers "ok" only for a descriptor whose template is trusted,   *)
(* and "malformed" only for one that is.                                   *)
LEMMA OutcomeSound ==
    ASSUME NEW d \in Desc \ Malformed, NEW base, NEW allowlist, NEW mappers,
           NEW o \in RootOutcomes(d, base, allowlist, mappers)
    PROVE  /\ o \in Reason \cup {"ok"}
           /\ o # "malformed"
           /\ o = "ok" => CheckTrusted(ResolveTemplateURI(Descriptor[d].template, base),
                                       base, allowlist)
BY DEF RootOutcomes, FetchOutcomes, Reason

-----------------------------------------------------------------------------
(* The inductive invariant.                                                *)

(* A handler's own state is out of the reach of the others.                *)
Untouched(q) ==
    /\ pc'[q] = pc[q] /\ resolver'[q] = resolver[q]
    /\ extraction'[q] = extraction[q] /\ response'[q] = response[q]
    /\ view'[q] = view[q] /\ err'[q] = err[q] /\ shown'[q] = shown[q]

LEMMA UntouchedHeld ==
    ASSUME NEW q \in Request, Held(q), Untouched(q)
    PROVE  Held(q)'
BY DEF Held, Untouched, Trusted

LEMMA OneMoved ==
    ASSUME IInv, NEW r \in Request, Typed', SharedResolver', Held(r)',
           \A q \in Request \ {r} : Untouched(q)
    PROVE  IInv'
<1>1. ASSUME NEW q \in Request PROVE Held(q)'
  <2>1. CASE q = r
    BY <2>1
  <2>2. CASE q # r
    BY <2>2, UntouchedHeld DEF IInv
  <2> QED
    BY <2>1, <2>2
<1> QED
  BY <1>1 DEF IInv

LEMMA OthersShared ==
    ASSUME IInv, NEW r \in Request, \A q \in Request \ {r} : Untouched(q),
           UNCHANGED resolvers,
           pc'[r] = "offer" \/ (Origin[r] \in DOMAIN resolvers
                                /\ resolver'[r] = resolvers[Origin[r]])
    PROVE  SharedResolver'
<1> SUFFICES ASSUME NEW q \in Request, pc'[q] # "offer", resolver'[q] # None
             PROVE  /\ Origin[q] \in DOMAIN resolvers
                    /\ resolvers[Origin[q]] = resolver'[q]
  BY DEF SharedResolver
<1>1. CASE q = r
  BY <1>1
<1>2. CASE q # r
  BY <1>2 DEF Untouched, IInv, SharedResolver
<1> QED
  BY <1>1, <1>2

(* A handler that does not end at "offer" and keeps its resolver shares it *)
(* as before.                                                              *)
LEMMA StillShared ==
    ASSUME IInv, NEW r \in Request, NEW label, Goto(r, label),
           pc[r] # "offer", label # "offer", UNCHANGED << resolvers, resolver >>
    PROVE  SharedResolver'
<1>1. \A q \in Request : pc'[q] # "offer" => pc[q] # "offer"
  BY DEF IInv, Typed, TypeOK, Goto
<1> QED
  BY <1>1 DEF IInv, SharedResolver

(* Every error of resolveAndRender but one for a malformed descriptor      *)
(* leaves the handler answered, and never with a page.                     *)
LEMMA FailKeeps ==
    ASSUME IInv, NEW r \in Request, NEW why \in Reason \ {"malformed"},
           pc[r] # "offer", Fail(r, why),
           UNCHANGED << resolvers, resolver, response, extraction, view >>
    PROVE  IInv'
<1> USE DEF IInv, Typed, TypeOK
<1>1. /\ pc' = [pc EXCEPT ![r] = "done"]
      /\ err' = [err EXCEPT ![r] = why]
      /\ \E a \in {"raw", "no data", "shell"} : shown' = [shown EXCEPT ![r] = a]
  <2>1. \E a \in {"raw", "no data", "shell"} : shown' = [shown EXCEPT ![r] = a]
    <3>1. CASE why = "mapper-unknown"
      BY <3>1 DEF Fail, Set
    <3>2. CASE why # "mapper-unknown" /\ response[r] # None
      BY <3>2 DEF Fail, Set
    <3>3. CASE why # "mapper-unknown" /\ response[r] = None
      BY <3>3 DEF Fail, Set
    <3> QED
      BY <3>1, <3>2, <3>3
  <2> QED
    BY <2>1 DEF Fail, Goto, Set
<1>2. PICK a \in {"raw", "no data", "shell"} : shown' = [shown EXCEPT ![r] = a]
  BY <1>1
<1>3. Typed'
  BY <1>1, <1>2
<1>4. SharedResolver'
  BY StillShared DEF Fail
<1>5. Held(r)'
  BY <1>1, <1>2 DEF Held
<1>6. \A q \in Request \ {r} : Untouched(q)
  BY <1>1, <1>2 DEF Untouched
<1> QED
  BY <1>3, <1>4, <1>5, <1>6, OneMoved

LEMMA InitIInv == Init => IInv
<1> SUFFICES ASSUME Init PROVE IInv
  OBVIOUS
<1>1. Typed
  BY DEF Init, Typed, TypeOK, Reason
<1>2. SharedResolver
  BY DEF Init, SharedResolver
<1>3. \A r \in Request : Held(r)
  BY DEF Init, Held
<1> QED
  BY <1>1, <1>2, <1>3 DEF IInv

LEMMA LoadResolverKeeps ==
    ASSUME IInv, NEW r \in Request, LoadResolver(r)
    PROVE  IInv'
<1> USE DEF IInv, Typed, TypeOK, LoadResolver, Goto, Set
<1>1. CASE Origin[r] \in DOMAIN resolvers
  <2>1. resolvers[Origin[r]] \in PageResolver
    BY <1>1
  <2>2. Typed'
    BY <1>1, <2>1
  <2>3. Held(r)'
    BY <1>1, <2>1 DEF Held
  <2>4. \A q \in Request \ {r} : Untouched(q)
    BY <1>1 DEF Untouched
  <2>5. SharedResolver'
    BY <1>1, <2>4, OthersShared
  <2> QED
    BY <2>2, <2>3, <2>4, <2>5, OneMoved
<1>2. CASE Origin[r] \notin DOMAIN resolvers
  <2>1. Typed'
    BY <1>2
  <2>2. SharedResolver'
    BY <1>2, StillShared
  <2>3. Held(r)'
    BY <1>2 DEF Held
  <2>4. \A q \in Request \ {r} : Untouched(q)
    BY <1>2 DEF Untouched
  <2> QED
    BY <2>1, <2>2, <2>3, <2>4, OneMoved
<1> QED
  BY <1>1, <1>2

LEMMA FetchDiscoveryKeeps ==
    ASSUME IInv, NEW r \in Request, FetchDiscovery(r)
    PROVE  IInv'
<1> USE DEF FetchDiscovery
<1>1. CASE Fail(r, "discovery") /\ UNCHANGED resolver
  BY <1>1, FailKeeps DEF Reason
<1>2. ASSUME NEW doc \in Published(Origin[r]),
             resolver' = Set(resolver, r, [by |-> r, allowlist |->
                           IF LocalAllowlist = {} THEN doc ELSE LocalAllowlist]),
             Goto(r, "offer"), UNCHANGED << err, shown >>
      PROVE  IInv'
  <2> USE DEF IInv, Typed, TypeOK, Goto, Set
  <2> DEFINE offered == [by |-> r, allowlist |->
                           IF LocalAllowlist = {} THEN doc ELSE LocalAllowlist]
  <2>1. doc \in SUBSET Identity /\ LocalAllowlist \in SUBSET Identity
    BY <1>2, PageAssumption DEF Published
  <2>2. offered \in PageResolver
    BY <2>1 DEF PageResolver
  <2>3. resolver' = [resolver EXCEPT ![r] = offered] /\ pc' = [pc EXCEPT ![r] = "offer"]
    BY <1>2
  <2> HIDE DEF offered
  <2>4. Typed'
    <3>1. UNCHANGED << resolvers, response, extraction, view, err, shown >>
      BY <1>2
    <3>2. pc' \in [Request -> {"idle", "discover", "offer", "get", "extract",
                               "descriptor", "view", "resolve", "render", "done"}]
      BY <2>3
    <3>3. resolver' \in [Request -> PageResolver \cup {None}]
      BY <2>2, <2>3
    <3> HIDE DEF FetchDiscovery
    <3> QED
      BY <3>1, <3>2, <3>3
  <2>5. Held(r)'
    BY <1>2, <2>2, <2>3 DEF Held
  <2>6. \A q \in Request \ {r} : Untouched(q)
    BY <1>2, <2>3 DEF Untouched
  <2>7. SharedResolver'
    BY <1>2, <2>3, <2>6, OthersShared
  <2> QED
    BY <2>4, <2>5, <2>6, <2>7, OneMoved
<1> QED
  BY <1>1, <1>2

(* LoadOrStore: a resolver that another handler uses is in the map already,*)
(* so the one that is put there is under an origin none of them has.       *)
LEMMA StoreResolverKeeps ==
    ASSUME IInv, NEW r \in Request, StoreResolver(r)
    PROVE  IInv'
<1> USE DEF IInv, Typed, TypeOK, StoreResolver, Goto, Set
<1>1. CASE Origin[r] \in DOMAIN resolvers
  <2>1. resolvers[Origin[r]] \in PageResolver
    BY <1>1
  <2>2. Typed'
    BY <1>1, <2>1
  <2>3. Held(r)'
    BY <1>1, <2>1 DEF Held
  <2>4. \A q \in Request \ {r} : Untouched(q)
    BY <1>1 DEF Untouched
  <2>5. SharedResolver'
    BY <1>1, <2>4, OthersShared
  <2> QED
    BY <2>2, <2>3, <2>4, <2>5, OneMoved
<1>2. CASE Origin[r] \notin DOMAIN resolvers
  <2>1. resolver[r] \in PageResolver
    BY DEF Held
  <2>2. /\ resolvers' = Put(resolvers, Origin[r], resolver[r])
        /\ UNCHANGED resolver
        /\ pc' = [pc EXCEPT ![r] = "get"]
    BY <1>2
  <2>3. /\ DOMAIN resolvers' = DOMAIN resolvers \cup {Origin[r]}
        /\ resolvers'[Origin[r]] = resolver[r]
        /\ \A o \in DOMAIN resolvers : resolvers'[o] = resolvers[o]
    BY <1>2, <2>2 DEF Put
  <2>4. Typed'
    <3>1. resolvers' \in [DOMAIN resolvers' -> PageResolver]
      BY <2>1, <2>2, <2>3 DEF Put
    <3>2. \A o \in DOMAIN resolvers' : /\ resolvers'[o].by \in Request
                                       /\ resolvers'[o].allowlist \subseteq Identity
      BY <3>1 DEF PageResolver
    <3> QED
      BY <2>2, <2>3, <3>1, <3>2
  <2>5. SharedResolver'
    BY <1>2, <2>2, <2>3 DEF SharedResolver
  <2>6. Held(r)'
    BY <1>2, <2>1, <2>2 DEF Held
  <2>7. \A q \in Request \ {r} : Untouched(q)
    BY <2>2 DEF Untouched
  <2> QED
    BY <2>4, <2>5, <2>6, <2>7, OneMoved
<1> QED
  BY <1>1, <1>2

LEMMA GetDataKeeps ==
    ASSUME IInv, NEW r \in Request, GetData(r)
    PROVE  IInv'
<1>1. CASE Fail(r, "api") /\ UNCHANGED response
  BY <1>1, FailKeeps DEF GetData, Reason
<1>2. CASE ~(Fail(r, "api") /\ UNCHANGED response)
  <2>1. PICK resp \in APIServes[r] :
          /\ response' = [response EXCEPT ![r] = resp]
          /\ pc' = [pc EXCEPT ![r] = "extract"]
          /\ UNCHANGED << err, shown >>
    BY <1>2 DEF GetData, Goto, Set
  <2>2. /\ pc[r] = "get"
        /\ UNCHANGED << resolvers, resolver, extraction, view, err, shown >>
    BY <2>1 DEF GetData
  <2>3. resp \in Response
    BY PageAssumption
  <2>4. Typed'
    BY <2>1, <2>2, <2>3 DEF IInv, Typed, TypeOK
  <2>5. SharedResolver'
    BY <2>1, <2>2, StillShared DEF Goto
  <2>6. Held(r)'
    BY <2>1, <2>2, <2>3 DEF IInv, Typed, TypeOK, Held
  <2>7. \A q \in Request \ {r} : Untouched(q)
    BY <2>1, <2>2 DEF IInv, Typed, TypeOK, Untouched
  <2> QED
    BY <2>4, <2>5, <2>6, <2>7, OneMoved
<1> QED
  BY <1>1, <1>2

LEMMA ExtractViewKeeps ==
    ASSUME IInv, NEW r \in Request, ExtractView(r)
    PROVE  IInv'
<1> DEFINE e == Extract(response[r])
<1>1. /\ pc[r] = "extract"
      /\ UNCHANGED << resolvers, resolver, response, view >>
  BY DEF ExtractView
<1>2. response[r] \in Response
  BY <1>1 DEF IInv, Held
<1>3. CASE e \in {Rejected, NotFound}
  <2>1. UNCHANGED extraction /\ \E why \in {"extract", "no-descriptor"} : Fail(r, why)
    BY <1>3 DEF ExtractView
  <2> QED
    BY <1>1, <2>1, FailKeeps DEF Reason
<1>4. CASE e \notin {Rejected, NotFound}
  <2>1. Checked(e)
    BY <1>2, <1>4, ExtractSound
  <2>2. /\ extraction' = [extraction EXCEPT ![r] = e]
        /\ pc' = [pc EXCEPT ![r] = "descriptor"]
        /\ UNCHANGED << err, shown >>
    BY <1>4 DEF ExtractView, Goto, Set
  <2> HIDE DEF e
  <2>3. Typed'
    BY <1>1, <2>1, <2>2 DEF IInv, Typed, TypeOK, Checked
  <2>4. SharedResolver'
    BY <1>1, <2>2, StillShared DEF Goto
  <2>5. extraction'[r] = e /\ Checked(extraction'[r])
    BY <2>1, <2>2 DEF IInv, Typed
  <2>6. Held(r)'
    BY <1>1, <2>2, <2>5 DEF IInv, Typed, TypeOK, Held
  <2>7. \A q \in Request \ {r} : Untouched(q)
    BY <1>1, <2>2 DEF IInv, Typed, TypeOK, Untouched
  <2> QED
    BY <2>3, <2>4, <2>6, <2>7, OneMoved
<1> QED
  BY <1>3, <1>4

(* What Parse yields for a fetched resource is valid too.                  *)
LEMMA FetchDescriptorKeeps ==
    ASSUME IInv, NEW r \in Request, FetchDescriptor(r)
    PROVE  IInv'
<1> DEFINE u == extraction[r].descriptorURL
<1>1. /\ pc[r] = "descriptor"
      /\ UNCHANGED << resolvers, resolver, response, view >>
  BY DEF FetchDescriptor
<1>2. Checked(extraction[r])
  BY <1>1 DEF IInv, Held
<1>3. CASE Fail(r, "descriptor") /\ UNCHANGED extraction
  BY <1>1, <1>3, FailKeeps DEF Reason
<1>4. CASE u = None /\ Goto(r, "view") /\ UNCHANGED << extraction, err, shown >>
  <2>1. pc' = [pc EXCEPT ![r] = "view"]
    BY <1>4 DEF Goto
  <2>2. Typed'
    BY <1>1, <1>4, <2>1 DEF IInv, Typed, TypeOK
  <2>3. SharedResolver'
    BY <1>1, <1>4, StillShared
  <2>4. Held(r)'
    BY <1>1, <1>2, <1>4, <2>1 DEF IInv, Typed, TypeOK, Held, Checked
  <2>5. \A q \in Request \ {r} : Untouched(q)
    BY <1>1, <1>4, <2>1 DEF IInv, Typed, TypeOK, Untouched
  <2> QED
    BY <2>2, <2>3, <2>4, <2>5, OneMoved
<1>5. ASSUME NEW views \in Parsed(u),
             extraction' = [extraction EXCEPT ![r].views = views,
                                              ![r].descriptorURL = None],
             Goto(r, "view"), UNCHANGED << err, shown >>
      PROVE  IInv'
  <2> DEFINE e == [extraction[r] EXCEPT !.views = views, !.descriptorURL = None]
  <2>1. views \in Views /\ ValidViews(views)
    BY PageAssumption DEF Parsed
  <2>2. e \in Extraction /\ e.views = views /\ views # None
    BY <1>2, <2>1, ExtractAssumption DEF Checked, Extraction
  <2>3. Checked(e)
    BY <2>1, <2>2 DEF Checked
  <2>4. extraction' = [extraction EXCEPT ![r] = e] /\ pc' = [pc EXCEPT ![r] = "view"]
    BY <1>5 DEF IInv, Typed, Goto
  <2> HIDE DEF e
  <2>5. Typed'
    <3>1. extraction' \in [Request -> Extraction \cup {None}]
      BY <1>1, <2>2, <2>4 DEF IInv, Typed
    <3>2. pc' \in [Request -> {"idle", "discover", "offer", "get", "extract",
                              "descriptor", "view", "resolve", "render", "done"}]
      BY <1>1, <2>4 DEF IInv, Typed, TypeOK
    <3>3. UNCHANGED << resolvers, resolver, response, view, err, shown >>
      BY <1>1, <1>5
    <3> QED
      BY <1>1, <3>1, <3>2, <3>3 DEF IInv, Typed, TypeOK
  <2>6. SharedResolver'
    BY <1>1, <1>5, StillShared
  <2>7. extraction'[r] = e /\ Checked(extraction'[r]) /\ extraction'[r].views # None
    BY <2>2, <2>3, <2>4 DEF IInv, Typed
  <2>8. Held(r)'
    BY <1>1, <1>5, <2>4, <2>7 DEF IInv, Typed, TypeOK, Held
  <2>9. \A q \in Request \ {r} : Untouched(q)
    BY <1>1, <1>5, <2>4 DEF IInv, Typed, TypeOK, Untouched
  <2> QED
    BY <2>5, <2>6, <2>8, <2>9, OneMoved
<1> QED
  BY <1>3, <1>4, <1>5 DEF FetchDescriptor

LEMMA SelectViewKeeps ==
    ASSUME IInv, NEW r \in Request, SelectView(r)
    PROVE  IInv'
<1> DEFINE d == View(extraction[r].views, Wanted[r])
<1>1. /\ pc[r] = "view"
      /\ UNCHANGED << resolvers, resolver, response, extraction >>
  BY DEF SelectView
<1>2. CASE d = None
  BY <1>1, <1>2, FailKeeps DEF SelectView, Reason
<1>3. CASE d # None
  <2>1. extraction[r].views \in Views /\ ValidViews(extraction[r].views)
    BY <1>1 DEF IInv, Held, Checked, Extraction
  <2>2. d \in Desc \ Malformed
    BY <1>3, <2>1, ViewSound
  <2>3. /\ view' = [view EXCEPT ![r] = d]
        /\ pc' = [pc EXCEPT ![r] = "resolve"]
        /\ UNCHANGED << err, shown >>
    BY <1>3 DEF SelectView, Goto, Set
  <2> HIDE DEF d
  <2>4. Typed'
    BY <1>1, <2>2, <2>3 DEF IInv, Typed, TypeOK
  <2>5. SharedResolver'
    BY <1>1, <2>3, StillShared DEF Goto
  <2>6. Held(r)'
    BY <1>1, <2>2, <2>3 DEF IInv, Typed, TypeOK, Held
  <2>7. \A q \in Request \ {r} : Untouched(q)
    BY <1>1, <2>3 DEF IInv, Typed, TypeOK, Untouched
  <2> QED
    BY <2>4, <2>5, <2>6, <2>7, OneMoved
<1> QED
  BY <1>2, <1>3

LEMMA ResolveKeeps ==
    ASSUME IInv, NEW r \in Request, Resolve(r)
    PROVE  IInv'
<1>1. /\ pc[r] = "resolve"
      /\ UNCHANGED << resolvers, resolver, response, extraction, view >>
  BY DEF Resolve
<1>2. PICK o \in RootOutcomes(view[r], extraction[r].base,
                               resolver[r].allowlist, Mappers) :
        IF o = "ok" THEN Goto(r, "render") /\ UNCHANGED << err, shown >> ELSE Fail(r, o)
  BY DEF Resolve
<1>3. /\ o \in Reason \cup {"ok"}
      /\ o # "malformed"
      /\ o = "ok" => Trusted(r)
  <2>1. view[r] \in Desc \ Malformed
    BY <1>1 DEF IInv, Held
  <2> QED
    BY <1>2, <2>1, OutcomeSound DEF Trusted
<1>4. CASE o # "ok"
  BY <1>1, <1>2, <1>3, <1>4, FailKeeps
<1>5. CASE o = "ok"
  <2>1. pc' = [pc EXCEPT ![r] = "render"] /\ UNCHANGED << err, shown >>
    BY <1>2, <1>5 DEF Goto
  <2>2. Typed'
    BY <1>1, <2>1 DEF IInv, Typed, TypeOK
  <2>3. SharedResolver'
    BY <1>1, <2>1, StillShared DEF Goto
  <2>4. Trusted(r)'
    BY <1>1, <1>3, <1>5 DEF Trusted
  <2>5. Held(r)'
    BY <1>1, <2>1, <2>4 DEF IInv, Typed, TypeOK, Held
  <2>6. \A q \in Request \ {r} : Untouched(q)
    BY <1>1, <2>1 DEF IInv, Typed, TypeOK, Untouched
  <2> QED
    BY <2>2, <2>3, <2>5, <2>6, OneMoved
<1> QED
  BY <1>4, <1>5

LEMMA RenderKeeps ==
    ASSUME IInv, NEW r \in Request, Render(r)
    PROVE  IInv'
<1>1. /\ pc[r] = "render"
      /\ UNCHANGED << resolvers, resolver, response, extraction, view >>
  BY DEF Render
<1>2. CASE Fail(r, "render")
  BY <1>1, <1>2, FailKeeps DEF Reason
<1>3. CASE ~Fail(r, "render")
  <2>1. /\ pc' = [pc EXCEPT ![r] = "done"]
        /\ shown' = [shown EXCEPT ![r] = "page"]
        /\ UNCHANGED err
    BY <1>3 DEF Render, Goto, Set
  <2>2. Typed'
    BY <1>1, <2>1 DEF IInv, Typed, TypeOK
  <2>3. SharedResolver'
    BY <1>1, <2>1, StillShared DEF Goto
  <2>4. Trusted(r)' /\ resolver'[r] \in PageResolver
    BY <1>1 DEF IInv, Held, Trusted
  <2>5. Held(r)'
    BY <1>1, <2>1, <2>4 DEF IInv, Typed, TypeOK, Held
  <2>6. \A q \in Request \ {r} : Untouched(q)
    BY <1>1, <2>1 DEF IInv, Typed, TypeOK, Untouched
  <2> QED
    BY <2>2, <2>3, <2>5, <2>6, OneMoved
<1> QED
  BY <1>2, <1>3

LEMMA NextIInv == IInv /\ [Next]_vars => IInv'
<1> SUFFICES ASSUME IInv, [Next]_vars PROVE IInv'
  OBVIOUS
<1>1. ASSUME NEW r \in Request, LoadResolver(r) \/ Step(r) PROVE IInv'
  BY <1>1, LoadResolverKeeps, FetchDiscoveryKeeps, StoreResolverKeeps, GetDataKeeps,
     ExtractViewKeeps, FetchDescriptorKeeps, SelectViewKeeps, ResolveKeeps, RenderKeeps
  DEF Step
<1>2. CASE UNCHANGED vars
  BY <1>2 DEF vars, IInv, Typed, TypeOK, SharedResolver, Held, Trusted
<1> QED
  BY <1>1, <1>2 DEF Next, AllDone

THEOREM Invariance == Spec => []IInv
BY InitIInv, NextIInv, PTL DEF Spec

-----------------------------------------------------------------------------

(* What each handler holds has its type.                                   *)
THEOREM PageTyped == Spec => []TypeOK
<1>1. IInv => TypeOK
  BY DEF IInv, Typed
<1> QED
  BY <1>1, Invariance, PTL

(* LoadOrStore shares one resolver per origin, however many handlers race. *)
THEOREM ResolverShared == Spec => []SharedResolver
<1>1. IInv => SharedResolver
  BY DEF IInv
<1> QED
  BY <1>1, Invariance, PTL

(* All pages of an origin are judged by the allowlist in the map.          *)
THEOREM JudgedAlike == Spec => []PagesJudgedAlike
<1>1. IInv => PagesJudgedAlike
  <2> SUFFICES ASSUME IInv, NEW r \in Request, shown[r] = "page"
               PROVE  Trusted(r) /\ resolvers[Origin[r]] = resolver[r]
    BY DEF PagesJudgedAlike, Trusted
  <2>1. pc[r] = "done" /\ resolver[r] \in PageResolver /\ Trusted(r)
    BY DEF IInv, Held
  <2>2. resolver[r] # None
    BY <2>1, PageAssumption DEF PageResolver
  <2> QED
    BY <2>1, <2>2 DEF IInv, SharedResolver
<1> QED
  BY <1>1, Invariance, PTL

(* Whatever the transport, no unvalidated descriptor reaches Resolve.      *)
THEOREM ValidationComplete == Spec => []ValidatedBefore
<1>1. IInv => ValidatedBefore
  BY DEF IInv, Held, ValidatedBefore
<1> QED
  BY <1>1, Invariance, PTL

-----------------------------------------------------------------------------
(* Precedence: where the view a handler resolves came from.                *)

InlineBody(resp) == Decodes(resp) /\ {resp.view, resp.views} # {None}

FromTransport(e, resp) ==
    /\ resp \in Response
    /\ (e.transport \in {"_view", "_views"}) = InlineBody(resp)
    /\ e.transport = "View-Template" => ViewLinks(resp) = {}

Selected(d, views, wanted) ==
    /\ d \in {views[n] : n \in DOMAIN views}
    /\ \A n \in DOMAIN views :
         n = wanted \/ (wanted \notin DOMAIN views /\ n = "default") => d = views[n]

Sourced(r) ==
    /\ pc[r] \in {"descriptor", "view"} => FromTransport(extraction[r], response[r])
    /\ view[r] # None =>
         /\ pc[r] \in {"resolve", "render", "done"}
         /\ FromTransport(extraction[r], response[r])
         /\ Selected(view[r], extraction[r].views, Wanted[r])

LEMMA ExtractedTransport ==
    ASSUME NEW t, NEW views, NEW url, NEW base
    PROVE  Extracted(t, views, url, base).transport = t
BY DEF Extracted

LEMMA ExtractPrecedence ==
    ASSUME NEW resp \in Response, Extract(resp) \notin {Rejected, NotFound}
    PROVE  FromTransport(Extract(resp), resp)
<1>1. CASE Decodes(resp) /\ (resp.view # None \/ resp.views # None)
  <2>1. Extract(resp) = InlineView(resp) /\ InlineBody(resp)
    BY <1>1 DEF Extract, InlineBody
  <2>2. InlineView(resp) = Rejected
        \/ InlineView(resp).transport \in {"_view", "_views"}
    <3>1. CASE resp.view # None /\ resp.views # None
      BY <3>1 DEF InlineView
    <3>2. CASE resp.view = None /\ resp.views # None
      BY <3>2 DEF InlineView, Extracted
    <3>3. CASE resp.view # None /\ resp.views = None
      BY <3>3 DEF InlineView, Extracted
    <3> QED
      BY <1>1, <3>1, <3>2, <3>3
  <2> QED
    BY <2>1, <2>2 DEF FromTransport
<1>2. CASE ~(Decodes(resp) /\ (resp.view # None \/ resp.views # None))
  <2>1. CASE ViewLinks(resp) # {}
    <3>1. Extract(resp) = FirstLink(resp)
      BY <1>2, <2>1 DEF Extract
    <3> DEFINE first == CHOOSE i \in ViewLinks(resp) : \A j \in ViewLinks(resp) : i <= j
               url == resp.links[first].url
               ref == ResolveRef(url, resp.url)
    <3>2. FirstLink(resp) = IF url = None THEN Rejected
                            ELSE Extracted("link", None, ref, ref)
      BY DEF FirstLink
    <3> HIDE DEF first, url, ref
    <3>3. FirstLink(resp) # Rejected => FirstLink(resp).transport = "link"
      BY <3>2, ExtractedTransport
    <3> QED
      BY <1>2, <3>1, <3>3 DEF FromTransport, InlineBody
  <2>2. CASE ViewLinks(resp) = {}
    <3>1. Extract(resp) = Shorthand(resp)
      BY <1>2, <2>2 DEF Extract
    <3> DEFINE views == [n \in {"default"} |-> resp.header]
    <3>2. Shorthand(resp) = IF resp.header \in Malformed THEN Rejected
                            ELSE Extracted("View-Template", views, None, resp.url)
      BY DEF Shorthand
    <3> HIDE DEF views
    <3>3. Shorthand(resp) # Rejected => Shorthand(resp).transport = "View-Template"
      BY <3>2, ExtractedTransport
    <3> QED
      BY <1>2, <2>2, <3>1, <3>3 DEF FromTransport, InlineBody
  <2> QED
    BY <2>1, <2>2
<1> QED
  BY <1>1, <1>2

LEMMA ViewSelects ==
    ASSUME NEW views \in Views, NEW wanted \in ViewName \cup {None},
           View(views, wanted) # None
    PROVE  Selected(View(views, wanted), views, wanted)
<1>1. DOMAIN views \subseteq ViewName /\ None \notin DOMAIN views
  BY ExtractAssumption DEF Views
<1>2. CASE wanted \in DOMAIN views
  BY <1>1, <1>2 DEF View, Selected
<1>3. CASE wanted \notin DOMAIN views
  BY <1>1, <1>3 DEF View, Selected
<1> QED
  BY <1>2, <1>3

(* Only ExtractView and SelectView decide; every other step keeps what a   *)
(* handler has decided, or has decided nothing yet.                        *)
LEMMA SourcedKept ==
    ASSUME IInv, [Next]_vars, NEW r \in Request, Sourced(r)
    PROVE  Sourced(r)'
<1> USE DEF IInv, Typed, TypeOK
<1>1. CASE UNCHANGED vars
  BY <1>1 DEF vars, Sourced
<1>2. ASSUME NEW q \in Request, q # r, LoadResolver(q) \/ Step(q)
      PROVE  Sourced(r)'
  <2>1. /\ pc'[r] = pc[r] /\ response'[r] = response[r]
        /\ extraction'[r] = extraction[r] /\ view'[r] = view[r]
    BY <1>2 DEF Step, LoadResolver, FetchDiscovery, StoreResolver, GetData, ExtractView,
       FetchDescriptor, SelectView, Resolve, Render, Fail, Goto, Set
  <2> QED
    BY <2>1 DEF Sourced
<1>3. CASE LoadResolver(r) \/ FetchDiscovery(r) \/ StoreResolver(r) \/ GetData(r)
  <2>1. /\ pc'[r] \in {"discover", "offer", "get", "extract", "done"}
        /\ view'[r] = view[r]
        /\ pc[r] \in {"idle", "discover", "offer", "get"}
    BY <1>3 DEF LoadResolver, FetchDiscovery, StoreResolver, GetData, Fail, Goto, Set
  <2> QED
    BY <2>1 DEF Sourced
<1>4. CASE ExtractView(r)
  <2>1. /\ pc[r] = "extract" /\ view'[r] = view[r] /\ response' = response
        /\ response[r] \in Response
    BY <1>4 DEF ExtractView, Held
  <2>2. CASE pc'[r] = "descriptor"
    <3>1. /\ extraction'[r] = Extract(response[r])
          /\ Extract(response[r]) \notin {Rejected, NotFound}
      BY <1>4, <2>2 DEF ExtractView, Fail, Goto, Set
    <3> QED
      BY <2>1, <2>2, <3>1, ExtractPrecedence DEF Sourced
  <2>3. CASE pc'[r] # "descriptor"
    <3>1. pc'[r] = "done"
      BY <1>4, <2>3 DEF ExtractView, Fail, Goto
    <3> QED
      BY <2>1, <3>1 DEF Sourced
  <2> QED
    BY <2>2, <2>3
<1>5. CASE FetchDescriptor(r)
  <2>1. /\ pc[r] = "descriptor" /\ pc'[r] \in {"view", "done"}
        /\ view'[r] = view[r] /\ response' = response
    BY <1>5 DEF FetchDescriptor, Fail, Goto
  <2>2. extraction'[r].transport = extraction[r].transport
    <3>1. extraction[r] \in Extraction
      BY <2>1 DEF Held, Checked
    <3> QED
      <4>1. CASE UNCHANGED extraction
        BY <4>1
      <4>2. ASSUME NEW views, extraction' = [extraction EXCEPT ![r].views = views,
                                                          ![r].descriptorURL = None]
            PROVE  extraction'[r].transport = extraction[r].transport
        BY <3>1, <4>2 DEF Extraction
      <4> QED
        BY <1>5, <4>1, <4>2 DEF FetchDescriptor
  <2> QED
    BY <2>1, <2>2 DEF Sourced, FromTransport
<1>6. CASE SelectView(r)
  <2>1. /\ pc[r] = "view" /\ extraction' = extraction /\ response' = response
        /\ Wanted[r] \in ViewName \cup {None}
    BY <1>6, PageAssumption DEF SelectView
  <2>2. CASE View(extraction[r].views, Wanted[r]) = None
    BY <1>6, <2>1, <2>2 DEF SelectView, Fail, Goto, Sourced
  <2>3. CASE View(extraction[r].views, Wanted[r]) # None
    <3>1. extraction[r].views \in Views
      BY <2>1 DEF Held, Checked, Extraction
    <3>2. pc'[r] = "resolve" /\ view'[r] = View(extraction[r].views, Wanted[r])
      BY <1>6, <2>3 DEF SelectView, Goto, Set
    <3> QED
      BY <2>1, <2>3, <3>1, <3>2, ViewSelects DEF Sourced
  <2> QED
    BY <2>2, <2>3
<1>7. CASE Resolve(r) \/ Render(r)
  <2>1. /\ pc'[r] \in {"render", "done"} /\ pc[r] \in {"resolve", "render"}
        /\ UNCHANGED << view, response, extraction >>
    BY <1>7 DEF Resolve, Render, Fail, Goto
  <2> QED
    BY <2>1 DEF Sourced
<1> QED
  BY <1>1, <1>2, <1>3, <1>4, <1>5, <1>6, <1>7 DEF Next, Step, AllDone

(* The view that is resolved came by the most specific transport.          *)
THEOREM MostSpecific == Spec => []MostSpecificView
<1> DEFINE SInv == \A r \in Request : Sourced(r)
<1>1. Init => SInv
  BY DEF Init, Sourced
<1>2. IInv /\ SInv /\ [Next]_vars => SInv'
  BY SourcedKept
<1>3. SInv => MostSpecificView
  <2> SUFFICES ASSUME SInv, NEW r \in Request, view[r] # None
               PROVE  /\ FromTransport(extraction[r], response[r])
                      /\ Selected(view[r], extraction[r].views, Wanted[r])
                      /\ ViewLinks(response[r]) = {} =>
                           \A i \in DOMAIN response[r].links :
                             response[r].links[i].rel = "other"
    BY DEF MostSpecificView, FromTransport, Selected, InlineBody
  <2>1. /\ FromTransport(extraction[r], response[r])
        /\ Selected(view[r], extraction[r].views, Wanted[r])
    BY DEF Sourced
  <2>2. response[r].links \in Seq(Link)
    BY <2>1 DEF FromTransport, Response
  <2>3. \A i \in DOMAIN response[r].links :
          response[r].links[i].rel \in {"view-descriptor", "other"}
    <3>1. \A i \in DOMAIN response[r].links : response[r].links[i] \in Link
      BY <2>2
    <3> QED
      BY <3>1 DEF Link
  <2>4. ViewLinks(response[r]) = {} =>
          \A i \in DOMAIN response[r].links : response[r].links[i].rel = "other"
    <3> SUFFICES ASSUME ViewLinks(response[r]) = {}, NEW i \in DOMAIN response[r].links
                 PROVE  response[r].links[i].rel # "view-descriptor"
      BY <2>3
    <3>1. i \notin ViewLinks(response[r])
      OBVIOUS
    <3> QED
      BY <3>1 DEF ViewLinks
  <2> QED
    BY <2>1, <2>4
<1> QED
  BY <1>1, <1>2, <1>3, Invariance, PTL DEF Spec
=============================================================================
