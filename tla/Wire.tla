--------------------------------- MODULE Wire ---------------------------------
(***************************************************************************)
(* One response on its way from an API server to a model: the server       *)
(* attaches a view descriptor to a representation by one of the            *)
(* transports, a proxy may join the Link fields, the connection may cut    *)
(* the body, Extract and FetchDescriptor get the descriptor back, and the  *)
(* renderer applies its transform.                                         *)
(*                                                                         *)
(* Extract says which transport decides, over descriptors that are names.  *)
(* Here a descriptor's name is its JSON text, and what Extract takes as    *)
(* given (which descriptors decode, which are valid, which links a header  *)
(* has) is computed from that text.  What a descriptor says, once it has   *)
(* arrived, is left to the constant operators; Grammar and Transforms      *)
(* have the code's.                                                        *)
(***************************************************************************)
EXTENDS Resources, LinkHeader

CONSTANTS
    Model(_, _),  \* the model of a view's template, from the transform input
    Doc,        \* descriptor resources, as JSON
    Payload,    \* representations: the texts of JSON objects
    Entry,      \* other entries a server may have in its Link header
    LinkText    \* the text of the URL of the descriptor resource

(* The members that carry a descriptor in a body, which stand anywhere     *)
(* among the others, and the texts that so come about.                     *)
Carriers(d) ==
    {<< "_view", d >>,
     << "_views", Object(<< "default" >>, [n \in {"default"} |-> d]) >>}
Carrying(p, d) == {InsertAt(p, i, c) : i \in 1 .. Len(p) + 1, c \in Carriers(d)}
Texts == Payload \cup UNION {Carrying(p, d) : p \in Payload, d \in Doc}

(* Representations have no members of the protocol's; of a descriptor, a   *)
(* client reads no members called "views" as one view, and all members are *)
(* JSON values.                                                            *)
ASSUME WireAssumption ==
    /\ MaxInt \in Nat
    /\ Index \in [DOMAIN Index -> Nat]
    /\ \A p \in Payload :
         /\ p \in Seq(Range(p))
         /\ \A i \in DOMAIN p : p[i][1] \notin {"_view", "_views"}
    /\ \A d \in Doc : IsObject(d) => Absent \notin Range(d.members)
    /\ \A d \in Doc : Has(d, "views") => ReadView(d) = Error

(* $entries without $to lists the members of an object, in the order of    *)
(* its keys.                                                               *)
WholeView == [transform |-> Absent]
EntriesView == [transform |-> [op |-> "$entries", ptr |-> << >>, to |-> Absent]]
ASSUME EntriesAssumption ==
    \A text \in Texts :
        LET obj == Decode(text)
        IN  Model(EntriesView, obj) =
              [slice |-> [i \in DOMAIN obj.keys |->
                 Model(WholeView, Pair(obj.keys[i], obj.members[obj.keys[i]]))]]

(* The URL of the resource can stand in angle brackets, the other entries  *)
(* are whole and none of them is for a descriptor.                         *)
Token ==
    {"<", ">", ",", ";", "=", Quote, Blank, "rel", ViewRel}
        \cup Range(LinkText) \cup UNION {Range(e) : e \in Entry}
ASSUME LinkAssumption ==
    /\ LinkText \in Seq(Token) /\ Entry \subseteq Seq(Token)
    /\ ">" \notin Range(LinkText) /\ Trim(LinkText) = LinkText
    /\ \A e \in Entry :
         /\ Closed(e)
         /\ \A l \in Range(ParseLinks(<< e >>)) : ~HasRel(l, ViewRel)
    /\ \A w \in {"rel", ViewRel} \cap DOMAIN Fold : Fold[w] = w

VARIABLES
    sent,      \* what the server means: a descriptor, a representation
    response,  \* the response: text of the body, Link fields, View-Template
    stage,     \* how far it has come
    got,       \* the extraction, with the transform input
    view,      \* the view descriptor, read
    model      \* the model of its template

vars == << sent, response, stage, got, view, model >>

Undecodable == {d \in Doc : ReadView(d) = Error}
Malformed == Undecodable \cup {d \in Doc \ Undecodable : ~ValidView(ReadView(d))}

E == INSTANCE Extract WITH
        Desc <- Doc, Descriptor <- [d \in Doc |-> ReadView(d)], Body <- {},
        ViewName <- {"default"}, None <- Absent,
        Host <- {"app"}, Lower <- [h \in {"app", ""} |-> h],
        Loopback <- {}, SchemeLike <- {}

API == [scheme |-> "https", host |-> "app", path |-> << "api" >>]
Resource == [form |-> "rooted", path |-> << "views" >>]

Init ==
    /\ \E d \in Doc, p \in Payload :
         /\ sent = [doc |-> d, payload |-> p]
         /\ response = [pairs |-> p, links |-> << >>, header |-> Absent]
    /\ stage = "api"
    /\ got = E!NotFound
    /\ view = Absent
    /\ model = Absent

-----------------------------------------------------------------------------
(* The server and the proxy: any that keep to the protocol.                *)

(* _view or _views in the body.                                            *)
SendInline ==
    /\ stage = "api"
    /\ stage' = "sent"
    /\ \E text \in Carrying(sent.payload, sent.doc) :
         response' = [response EXCEPT !.pairs = text]
    /\ UNCHANGED << sent, got, view, model >>

(* The Link header, with other entries before and after the descriptor's.  *)
SendLink ==
    /\ stage = "api"
    /\ stage' = "sent"
    /\ \E before, after \in {<< >>} \cup {<< e >> : e \in Entry} :
         response' = [response EXCEPT !.links =
             before \o << FormatLinkHeader(LinkText) >> \o after]
    /\ UNCHANGED << sent, got, view, model >>

(* The View-Template header stands for a descriptor with nothing else.     *)
SendHeader ==
    /\ stage = "api"
    /\ IsObject(sent.doc) /\ Names(sent.doc) = {"template"}
    /\ IsString(Member(sent.doc, "template")) /\ Member(sent.doc, "template") # Empty
    /\ stage' = "sent"
    /\ response' = [response EXCEPT !.header = sent.doc]
    /\ UNCHANGED << sent, got, view, model >>

(* Fields of one name may be joined into one, with a comma between them.   *)
OneField(a, b) == a \o << ",", Blank >> \o b
JoinLinks ==
    /\ stage = "sent"
    /\ \E i \in 1 .. Len(response.links) - 1 :
         LET l == response.links
         IN  response' = [response EXCEPT !.links =
               SubSeq(l, 1, i - 1) \o << OneField(l[i], l[i + 1]) >>
               \o SubSeq(l, i + 2, Len(l))]
    /\ UNCHANGED << sent, stage, got, view, model >>

-----------------------------------------------------------------------------
(* The client.                                                             *)

(* Extract's view of the response: the Envelope and the parsed links.      *)
AsExtracted(resp, whole) ==
    LET envelope == Decode(resp.pairs)
        links == ParseLinks(resp.links)
    IN  [url |-> API, json |-> TRUE, whole |-> whole,
         view |-> Field(envelope, "_view"),
         views |-> IF Field(envelope, "_views") = Absent THEN Absent
                   ELSE envelope.members["_views"].members,
         links |-> [i \in DOMAIN links |->
                      [rel |-> IF HasRel(links[i], ViewRel) THEN ViewRel ELSE "other",
                       url |-> IF links[i].url = LinkText THEN Resource ELSE Absent]],
         header |-> resp.header]

(* The transform input: the body without the descriptor, nil if it cannot  *)
(* be parsed.                                                              *)
TransformInput(resp, whole) ==
    IF whole THEN StripDescriptor(Decode(resp.pairs)) ELSE Absent

(* An extraction, and the response it is from.                             *)
Noted(e, whole, input) ==
    [f \in DOMAIN e \cup {"whole", "input"} |->
       IF f = "whole" THEN whole ELSE IF f = "input" THEN input ELSE e[f]]

(* get cuts a long body at 1 MiB, then Extract.                            *)
Receive ==
    /\ stage = "sent"
    /\ \E whole \in BOOLEAN :
         LET e == E!Extract(AsExtracted(response, whole))
         IN  IF e \in {E!Rejected, E!NotFound}
             THEN got' = e /\ stage' = "failed"
             ELSE /\ got' = Noted(e, whole, TransformInput(response, whole))
                  /\ stage' = "extracted"
    /\ UNCHANGED << sent, response, view, model >>

(* FetchDescriptor, then View without a name.  The descriptor resource is  *)
(* there, or it is not.                                                    *)
FetchDescriptor ==
    LET inline == got.descriptorURL = Absent
        views == IF inline THEN [n \in DOMAIN got.views |-> ReadView(got.views[n])]
                 ELSE ParseViews(sent.doc)
    IN  /\ stage = "extracted"
        /\ \/ /\ views # Error
              /\ "default" \in DOMAIN views
              /\ view' = views["default"]
              /\ stage' = "viewed"
           \/ /\ ~inline \/ "default" \notin DOMAIN views
              /\ stage' = "failed"
              /\ UNCHANGED view
        /\ UNCHANGED << sent, response, got, model >>

(* The template of the view is executed.                                   *)
Project ==
    /\ stage = "viewed"
    /\ model' = Model(view, got.input)
    /\ stage' = "done"
    /\ UNCHANGED << sent, response, got, view >>

Next ==
    \/ SendInline \/ SendLink \/ SendHeader \/ JoinLinks
    \/ Receive \/ FetchDescriptor \/ Project
    \/ stage \in {"failed", "done"} /\ UNCHANGED vars

Spec == Init /\ [][Next]_vars
=============================================================================
