----------------------------- MODULE RenderProps ------------------------------
(***************************************************************************)
(* What becomes of a resolved page when it is rendered.  Render recurses   *)
(* down from the root; the properties look from each node up its path.     *)
(***************************************************************************)
EXTENDS ResolverProps, Render

Occurrences(html, i) == {k \in 1 .. Len(html) : html[k].node = i}

(* How often the template of a node's parent calls the node's slot.        *)
TimesCalled(r, i) ==
    LET n == tree[r][i]
        calls == Calls[tree[r][n.parent].body]
    IN  Cardinality({k \in 1 .. Len(calls) : calls[k] = n.place[1]})

(* How often node i should appear: its template and those above it work on *)
(* their own projections of the representation, and each of them calls the *)
(* slot below it so many times.                                            *)
TimesDue(r) ==
    LET n(i) == tree[r][i]
        due[i \in Nodes(r)] ==
          IF << n(i).body, Model(n(i), Representation) >> \in Fails THEN 0
          ELSE IF n(i).parent = 0 THEN 1
          ELSE TimesCalled(r, i) * due[n(i).parent]
    IN  due

(* NewResolver sets the resolver's limit to its default and the page       *)
(* handler leaves it there, so it is not above the renderer's.             *)
ASSUME DepthAssumption == MaxDepth <= MaxRenderDepth

Resolved == {r \in Request : result[r] = "ok"}

(* The page shows every resolved node as often as the templates on its     *)
(* path call for it: a failing sub-template takes its own subtree away and *)
(* nothing else, and the renderer's depth limit, which counts levels of    *)
(* the tree, cuts nothing that the resolver's let pass, which counts a     *)
(* reference twice.                                                        *)
ShownAsCalled ==
    \A r \in Resolved : \A i \in Nodes(r) :
        Cardinality(Occurrences(Rendered(tree[r]), i)) = TimesDue(r)[i]

(* Every template is executed against its own projection of the original   *)
(* representation, however deep it stands below others that transform it.  *)
IndependentProjection ==
    \A r \in Resolved :
        LET html == Rendered(tree[r])
        IN  \A k \in 1 .. Len(html) :
                html[k].model = Model(tree[r][html[k].node], Representation)

(* The templates of an array slot appear in the order of the array, each   *)
(* with all that stands below it, even when some are missing or fail; only *)
(* a template that calls a slot more than once repeats what is below it.   *)
ArrayOrder ==
    \A r \in Resolved :
        LET html == Rendered(tree[r])
            up == Path2Root(r)
            top(k, p) == {j \in up[html[k].node] : tree[r][j].parent = p}
            once(i) == \A j \in up[i] : tree[r][j].parent # 0 => TimesCalled(r, j) = 1
        IN  \A k, l \in 1 .. Len(html) : k < l =>
                \A p \in Nodes(r) : \A i \in top(k, p), j \in top(l, p) :
                    tree[r][i].place[1] = tree[r][j].place[1] /\ once(i)
                    => tree[r][i].place[2] <= tree[r][j].place[2]

(* The renderer's guard is for trees deeper than the resolver allows: no   *)
(* tree that Resolve returns has a node it would cut.                      *)
GuardIsNeverNeeded ==
    \A r \in Resolved : \A i \in Nodes(r) :
        Cardinality(Path2Root(r)[i]) <= MaxRenderDepth
=============================================================================
