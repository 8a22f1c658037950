----------------------------- MODULE Composition ------------------------------
(***************************************************************************)
(* What Resolver promises the page handler, whatever the network answers   *)
(* and whatever other requests do: a page is composed from the root down;  *)
(* a node may be placed only where its parent has a child for it, from a   *)
(* trusted identity, verified and within the nesting bound, and along      *)
(* references that never meet again; children of a node are settled in     *)
(* order, each placed or left out; the page is handed over only when every *)
(* child of every placed node is settled, and there is no page without     *)
(* its root.  There are no caches, no fetches and no call stack here.      *)
(***************************************************************************)
EXTENDS Descriptors, Integers

CONSTANTS Request, Root, RootBase, Mappers, Allowlist, MaxDepth

VARIABLES
    page,      \* page[r]: the nodes placed so far, parents before children
    missing,   \* missing[r]: the children left out, as << parent, place >>
    status     \* status[r]: "waiting", "composing", "complete", "failed"

vars == << page, missing, status >>

Init ==
    /\ page = [r \in Request |-> << >>]
    /\ missing = [r \in Request |-> {}]
    /\ status = [r \in Request |-> "waiting"]

(* Where a child c of node p is to be composed, when d fills it: inline    *)
(* descriptors keep the context of their parent, one level down; followed  *)
(* references take two levels and bring their own URL as base.             *)
RootContext(r) == [base |-> RootBase[r], depth |-> 0, seen |-> {}]
InlineContext(p) == [base |-> p.base, depth |-> p.depth + 1, seen |-> p.seen]
RefContext(p, url) ==
    [base |-> url, depth |-> p.depth + 2, seen |-> p.seen \cup {url}]
MayFollow(p, url) ==
    /\ url # None
    /\ CheckTrusted(AsIdentity(url), p.base, Allowlist)
    /\ url \notin p.seen

(* A node for d in context x, with the given body.                         *)
Composed(parent, place, d, x, body) ==
    [parent |-> parent, place |-> place, desc |-> d,
     base |-> x.base, depth |-> x.depth, seen |-> x.seen,
     id |-> ResolveTemplateURI(Descriptor[d].template, x.base),
     body |-> body]
Permitted(n) ==
    LET d == Descriptor[n.desc]
    IN  /\ n.depth < MaxDepth
        /\ n.id # None
        /\ CheckTrusted(n.id, n.base, Allowlist)
        /\ VerifyIntegrity(d.integrity, n.body)
        /\ d.mapper = None \/ d.mapper \in Mappers

Settled(r, i, c) ==
    \/ << i, c >> \in missing[r]
    \/ \E j \in 1 .. Len(page[r]) :
         page[r][j].parent = i /\ page[r][j].place = c

(* Children are settled in order: c is the next one of node i.             *)
NextChild(r, i, c) ==
    /\ c \in Places(page[r][i].desc)
    /\ ~Settled(r, i, c)
    /\ \A e \in Places(page[r][i].desc) : Precedes(e, c) => Settled(r, i, e)

Begin(r) ==
    /\ status[r] = "waiting"
    /\ Root[r] \notin Malformed
    /\ status' = [status EXCEPT ![r] = "composing"]
    /\ UNCHANGED << page, missing >>

AddNode(r, n) ==
    /\ Permitted(n)
    /\ page' = [page EXCEPT ![r] = Append(@, n)]
    /\ UNCHANGED << missing, status >>

PlaceRoot(r) ==
    /\ status[r] = "composing"
    /\ page[r] = << >>
    /\ \E body \in Body :
         AddNode(r, Composed(0, None, Root[r], RootContext(r), body))

PlaceInline(r) ==
    /\ status[r] = "composing"
    /\ \E i \in 1 .. Len(page[r]), body \in Body :
       \E c \in Places(page[r][i].desc) :
         LET p == page[r][i]
             child == ChildAt(p.desc, c)
         IN  /\ NextChild(r, i, c)
             /\ child.ref = None
             /\ AddNode(r, Composed(i, c, child.desc, InlineContext(p), body))

PlaceReferenced(r) ==
    /\ status[r] = "composing"
    /\ \E i \in 1 .. Len(page[r]), body \in Body, d \in Desc \ Malformed :
       \E c \in Places(page[r][i].desc) :
         LET p == page[r][i]
             child == ChildAt(p.desc, c)
             url == ResolveRef(child.ref, p.base)
         IN  /\ NextChild(r, i, c)
             /\ child.ref # None
             /\ MayFollow(p, url)
             /\ AddNode(r, Composed(i, c, d, RefContext(p, url), body))

(* Best effort: any child may turn out not to be available.                *)
LeaveOut(r) ==
    /\ status[r] = "composing"
    /\ \E i \in 1 .. Len(page[r]) :
       \E c \in Places(page[r][i].desc) :
         /\ NextChild(r, i, c)
         /\ missing' = [missing EXCEPT ![r] = @ \cup {<< i, c >>}]
    /\ UNCHANGED << page, status >>

Complete(r) ==
    /\ status[r] = "composing"
    /\ page[r] # << >>
    /\ \A i \in 1 .. Len(page[r]) :
         \A c \in Places(page[r][i].desc) : Settled(r, i, c)
    /\ status' = [status EXCEPT ![r] = "complete"]
    /\ UNCHANGED << page, missing >>

(* Without its root a page fails as a whole.                               *)
FailPage(r) ==
    /\ status[r] \in {"waiting", "composing"}
    /\ page[r] = << >>
    /\ status' = [status EXCEPT ![r] = "failed"]
    /\ UNCHANGED << page, missing >>

Next ==
    \E r \in Request :
        \/ Begin(r) \/ PlaceRoot(r) \/ PlaceInline(r) \/ PlaceReferenced(r)
        \/ LeaveOut(r) \/ Complete(r) \/ FailPage(r)

Spec == Init /\ [][Next]_vars
=============================================================================
