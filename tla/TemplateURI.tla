----------------------------- MODULE TemplateURI -----------------------------
(***************************************************************************)
(* The URI algebra of vdp/resolve.go: the three forms a template URI can   *)
(* be written in, its identity (the cache key), the location it is fetched *)
(* from, RFC 3986 resolution of a descriptor reference, the HTTPS rule and *)
(* the trust check.                                                        *)
(*                                                                         *)
(* A URL is a record, not a string.  A path is the sequence of its         *)
(* segments, so that a trailing "/" is a last empty segment and "on a path *)
(* segment boundary" is "is a prefix of the sequence".  Go's url.Parse     *)
(* lower-cases the scheme, so the schemes here are the lower-case ones;    *)
(* hosts keep the case they are written in, and Lower folds them.          *)
(* Queries, fragments, user information and dot segments are left out.     *)
(***************************************************************************)
EXTENDS Naturals, Sequences, SequencesExt

CONSTANTS
    Host,        \* host texts (with their port, if any) that occur in URIs
    Lower,       \* Lower[h]: strings.ToLower of h
    Loopback,    \* the folded hosts isLoopbackHost accepts
    SchemeLike,  \* host texts "name:port" whose name reads as a URI scheme
    None         \* Go's nil, or the empty string of an absent field

Scheme == {"http", "https"}
Path == Seq(STRING)

Url == [scheme: Scheme \cup SchemeLike, host: Host \cup {""}, path: Path]

(* A template URI as a descriptor writes it: "https://h/p" (absolute),     *)
(* "/p" (rooted), "//h/p" (network) or "h/p" (opaque).                     *)
TemplateRef ==
    [form: {"absolute"}, scheme: Scheme, host: Host, path: Path]
        \cup [form: {"rooted"}, path: Path]
        \cup [form: {"network", "opaque"}, host: Host, path: Path]

(* What remains once a relative reference is resolved: a template's        *)
(* identity, and also the form of an allowlist entry.                      *)
Identity ==
    [form: {"absolute"}, scheme: Scheme \cup SchemeLike,
     host: Host \cup {""}, path: Path]
        \cup [form: {"opaque"}, host: Host, path: Path]

(* A descriptor reference: a genuine URL, possibly relative.               *)
DescriptorRef ==
    [form: {"absolute"}, scheme: Scheme, host: Host, path: Path]
        \cup [form: {"rooted", "relative"}, path: Path]
        \cup [form: {"network"}, host: Host, path: Path]

ASSUME HostAssumption ==
    /\ Lower \in [Host \cup {""} -> Host \cup {""}]
    /\ \A h \in Host \cup {""} : Lower[Lower[h]] = Lower[h]
    /\ SchemeLike \subseteq Host
    /\ SchemeLike \cap Scheme = {}
    /\ Loopback \subseteq Host
    /\ None \notin Url

-----------------------------------------------------------------------------

(* url.URL.String: a URL as the text of an absolute identity.              *)
AsIdentity(u) ==
    [form |-> "absolute", scheme |-> u.scheme, host |-> u.host, path |-> u.path]

(* url.Parse.  A text "name:port/..." has no "//" after its first colon,   *)
(* so Go reads the name as a scheme and the rest as an opaque part: such a *)
(* URL has neither host nor path.                                          *)
ReadsAsAbsolute(id) == id.form = "absolute" \/ id.host \in SchemeLike
Parse(id) ==
    IF id.form = "absolute"
    THEN [scheme |-> id.scheme, host |-> id.host, path |-> id.path]
    ELSE [scheme |-> id.host, host |-> "", path |-> << >>]

(* resolveTemplateURI, the identity part.  Only a reference that begins    *)
(* with "/" is resolved against the base; None stands for the error of     *)
(* having no base to resolve it against.                                   *)
ResolveTemplateURI(ref, base) ==
    CASE ref.form \in {"absolute", "opaque"} -> ref
      [] ref.form \in {"rooted", "network"} /\ base = None -> None
      [] ref.form = "rooted" /\ base # None ->
             AsIdentity([scheme |-> base.scheme, host |-> base.host,
                         path |-> ref.path])
      [] ref.form = "network" /\ base # None ->
             AsIdentity([scheme |-> base.scheme, host |-> ref.host,
                         path |-> ref.path])

IsLoopback(host) == Lower[host] \in Loopback

(* opaqueFetchURL: the scheme the client supplies for an opaque identifier.*)
OpaqueFetchURL(id) ==
    [scheme |-> IF IsLoopback(id.host) THEN "http" ELSE "https",
     host |-> id.host, path |-> id.path]

(* resolveTemplateURI, the fetch part.                                     *)
FetchURL(id) == IF ReadsAsAbsolute(id) THEN Parse(id) ELSE OpaqueFetchURL(id)

(* resolveRefURL: RFC 3986 resolution; None when nothing absolute comes    *)
(* out of it.  A relative path replaces the last segment of the base.      *)
ResolveRef(ref, base) ==
    CASE ref.form = "absolute" ->
             [scheme |-> ref.scheme, host |-> ref.host, path |-> ref.path]
      [] ref.form # "absolute" /\ base = None -> None
      [] ref.form = "rooted" /\ base # None ->
             [base EXCEPT !.path = ref.path]
      [] ref.form = "relative" /\ base # None ->
             [base EXCEPT !.path =
                 (IF base.path = << >> THEN << >> ELSE Front(base.path)) \o ref.path]
      [] ref.form = "network" /\ base # None ->
             [base EXCEPT !.host = ref.host, !.path = ref.path]

(* requireHTTPS on a URL about to be fetched.                              *)
FetchAllowed(u) ==
    \/ u.scheme = "https"
    \/ u.scheme = "http" /\ IsLoopback(u.host)

-----------------------------------------------------------------------------

(* normalizeIdentity: an identity or an allowlist entry, ready to compare. *)
Normalize(id) ==
    IF ReadsAsAbsolute(id)
    THEN [opaque |-> FALSE, scheme |-> Parse(id).scheme,
          host |-> Lower[Parse(id).host], path |-> Parse(id).path]
    ELSE [opaque |-> TRUE, scheme |-> "", host |-> Lower[id.host],
          path |-> id.path]

TrimSlash(path) ==
    IF path # << >> /\ path[Len(path)] = "" THEN Front(path) ELSE path

(* One allowlist entry against one identity: same form, and the entry is a *)
(* prefix that ends on a segment boundary.                                 *)
Matches(entry, id) ==
    LET e == Normalize(entry)
        n == Normalize(id)
    IN  /\ e.opaque = n.opaque
        /\ e.scheme = n.scheme
        /\ e.host = n.host
        /\ IsPrefix(TrimSlash(e.path), n.path)

SameOrigin(u, v) == u.scheme = v.scheme /\ Lower[u.host] = Lower[v.host]

(* checkTrusted: the allowlist when there is one, else the origin of the   *)
(* base; an opaque identifier has no scheme to compare, and a missing base *)
(* trusts nothing.                                                         *)
CheckTrusted(id, base, allowlist) ==
    IF allowlist # {}
    THEN \E entry \in allowlist : Matches(entry, id)
    ELSE /\ base # None
         /\ IF ReadsAsAbsolute(id)
            THEN SameOrigin(Parse(id), base)
            ELSE Lower[id.host] = Lower[base.host]
=============================================================================
