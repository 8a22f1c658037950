------------------------------- MODULE WireProps -------------------------------
(***************************************************************************)
(* What a response must keep on its way, and what the languages it is      *)
(* written in (JSON, descriptors, transforms, Link headers) must do,       *)
(* stated over the state of Wire.                                          *)
(***************************************************************************)
EXTENDS Wire

-----------------------------------------------------------------------------
(* On the way.                                                             *)

(* The same descriptor gives the same model on every transport, wherever   *)
(* in the body it stood: the model the server meant, from a representation *)
(* that never had a descriptor in it.  A body that was cut gives what null *)
(* would.                                                                  *)
SameModelOnEveryTransport ==
    stage = "done" =>
        model = Model(ReadView(IF Has(sent.doc, "views")
                           THEN sent.doc.members["views"].members["default"]
                           ELSE sent.doc),
                      IF got.whole THEN Decode(sent.payload) ELSE Absent)

(* The client finds the server's descriptor link among the others, however *)
(* the fields were joined: commas, semicolons and quotes inside an entry   *)
(* do not take it apart.                                                   *)
LinkSurvives ==
    stage \notin {"api", "sent"} /\ response.links # << >> =>
        /\ got.transport = "link"
        /\ got.descriptorURL = [scheme |-> "https", host |-> "app", path |-> << "views" >>]

-----------------------------------------------------------------------------
(* JSON.                                                                   *)

(* A name that occurs more than once in the text is one member, in the     *)
(* place of its first occurrence and with the value of its last: $entries  *)
(* lists it once.                                                          *)
FirstPlaceLastValue ==
    LET text == response.pairs
        firsts == {i \in DOMAIN text : \A j \in 1 .. i - 1 : text[j][1] # text[i][1]}
        rank(i) == Cardinality({j \in firsts : j <= i})
        last(i) == CHOOSE j \in DOMAIN text :
                     /\ text[j][1] = text[i][1]
                     /\ \A k \in j + 1 .. Len(text) : text[k][1] # text[i][1]
        entries == Model(EntriesView, Decode(text)).slice
    IN  /\ Len(entries) = Cardinality(firsts)
        /\ \A i \in firsts :
             entries[rank(i)] = Model(WholeView, Pair(text[i][1], text[last(i)][2]))

-----------------------------------------------------------------------------
(* Descriptors.                                                            *)

(* A resource is the same descriptor whether a slot refers to it or a Link *)
(* header names it; only one with several views cannot stand in a slot.    *)
ReferenceOrLink ==
    LET single == ParseSingle(sent.doc)
        views == ParseViews(sent.doc)
    IN  IF Has(sent.doc, "views") THEN single = Error
        ELSE views = IF single = Error THEN Error ELSE [n \in {"default"} |-> single]
=============================================================================
