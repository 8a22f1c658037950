------------------------------- MODULE Extract --------------------------------
(***************************************************************************)
(* vdp/transport.go: pulling the view descriptor out of an HTTP response,  *)
(* by the precedence of its three transports.                              *)
(*                                                                         *)
(* A response is a record: the URL of its request, whether its content     *)
(* type is JSON, whether the body was read to its end (BFF.get cuts it at  *)
(* 1 MiB), the descriptors the body carries as _view and _views, its links *)
(* in field order, and its View-Template header.  The header's text is     *)
(* given as the descriptor it is short for.                                *)
(***************************************************************************)
EXTENDS Descriptors

CONSTANTS
    ViewName,      \* names of views; "default" is one of them
    Undecodable    \* descriptors UnmarshalJSON rejects: unknown members, ...

Views == UNION {[names -> Desc] : names \in SUBSET ViewName}

Link == [rel: {"view-descriptor", "other"}, url: DescriptorRef \cup {None}]

Response ==
    [url: Url, json: BOOLEAN, whole: BOOLEAN,
     view: Desc \cup {None}, views: Views \cup {None},
     links: Seq(Link), header: Desc \cup {None}]

ASSUME ExtractAssumption ==
    /\ "default" \in ViewName
    /\ Undecodable \subseteq Malformed
    /\ None \notin Views \cup ViewName

(* An extraction: Views, or the URL of a resource to fetch them from, and  *)
(* the base of the relative URIs in them.                                  *)
Extraction ==
    [transport: {"_view", "_views", "link", "View-Template"},
     views: Views \cup {None}, descriptorURL: Url \cup {None}, base: Url]

Extracted(transport, views, url, base) ==
    [transport |-> transport, views |-> views, descriptorURL |-> url, base |-> base]

(* Extract answers an extraction, an error, or nil: no descriptor at all.  *)
Rejected == [transport |-> "rejected"]
NotFound == [transport |-> "none"]

(* MultiViewDescriptor.Validate                                            *)
ValidViews(views) ==
    DOMAIN views # {} /\ \A name \in DOMAIN views : views[name] \notin Malformed

(* json.Unmarshal into the Envelope: a body that was cut is no JSON text,  *)
(* and one descriptor that cannot be decoded fails the whole envelope.     *)
Decodes(resp) ==
    /\ resp.json
    /\ resp.whole
    /\ resp.view \notin Undecodable
    /\ resp.views # None =>
         \A name \in DOMAIN resp.views : resp.views[name] \notin Undecodable

InlineView(resp) ==
    CASE resp.view # None /\ resp.views # None -> Rejected
      [] resp.view = None /\ resp.views # None ->
           IF ValidViews(resp.views)
           THEN Extracted("_views", resp.views, None, resp.url) ELSE Rejected
      [] resp.view # None /\ resp.views = None ->
           IF resp.view \in Malformed THEN Rejected
           ELSE Extracted("_view", [n \in {"default"} |-> resp.view], None, resp.url)

(* Only the first view-descriptor link counts, even if its URL is bad.     *)
ViewLinks(resp) == {i \in DOMAIN resp.links : resp.links[i].rel = "view-descriptor"}
FirstLink(resp) ==
    LET first == CHOOSE i \in ViewLinks(resp) : \A j \in ViewLinks(resp) : i <= j
        url == resp.links[first].url
        ref == ResolveRef(url, resp.url)
    IN  IF url = None THEN Rejected ELSE Extracted("link", None, ref, ref)

(* A defect: the header's text taken as it is.                             *)
BadShorthand(resp) ==
    Extracted("View-Template", [n \in {"default"} |-> resp.header], None, resp.url)

(* View-Template: the header's text is the template of a descriptor, which *)
(* must be valid.                                                          *)
Shorthand(resp) ==
    IF resp.header \in Malformed THEN Rejected
    ELSE Extracted("View-Template", [n \in {"default"} |-> resp.header], None, resp.url)

(* A defect: the headers consulted before the body.                        *)
BadExtract(resp) ==
    IF ViewLinks(resp) # {} THEN FirstLink(resp)
    ELSE IF resp.header # None THEN Shorthand(resp)
    ELSE IF Decodes(resp) /\ (resp.view # None \/ resp.views # None) THEN InlineView(resp)
    ELSE NotFound

(* Extract: the most specific transport decides.  A body that does not     *)
(* decode counts as one that carries no descriptor.                        *)
Extract(resp) ==
    IF Decodes(resp) /\ (resp.view # None \/ resp.views # None) THEN InlineView(resp)
    ELSE IF ViewLinks(resp) # {} THEN FirstLink(resp)
    ELSE IF resp.header # None THEN Shorthand(resp)
    ELSE NotFound

(* A defect: Go's zero descriptor for a name that is not there.            *)
BadView(views, name) ==
    LET wanted == IF name = None THEN "default" ELSE name
    IN  IF wanted \in DOMAIN views THEN views[wanted] ELSE "zero"

(* Extraction.View: the named view, else the default one; None stands for  *)
(* the error of having neither.                                            *)
View(views, name) ==
    IF name # None /\ name \in DOMAIN views THEN views[name]
    ELSE IF "default" \in DOMAIN views THEN views["default"]
    ELSE None
=============================================================================
