------------------------------- MODULE Discovery -------------------------------
(***************************************************************************)
(* vdp/discovery.go: finding the descriptor resource of an API path in the *)
(* discovery document.                                                     *)
(*                                                                         *)
(* The endpoints are a sequence of << key, descriptor >> in the order      *)
(* slices.Sorted gives their keys.  Keys and paths are sequences of        *)
(* segments, as in TemplateURI.                                            *)
(***************************************************************************)
EXTENDS TemplateURI

CONSTANTS
    Expression   \* path segments that are an expression: "{id}"

Templated(key) == \E i \in DOMAIN key : key[i] \in Expression

(* matchTemplateKey: an expression stands for one segment, not empty.      *)
MatchTemplateKey(key, path) ==
    /\ Len(key) = Len(path)
    /\ \A i \in DOMAIN key :
         IF key[i] \in Expression THEN path[i] # "" ELSE key[i] = path[i]

(* A defect: the templated keys looked at first.                           *)
BadEndpoint(endpoints, path) ==
    LET literal == SelectSeq(endpoints, LAMBDA e : e[1] = path)
        matching == SelectSeq(endpoints, LAMBDA e :
                        Templated(e[1]) /\ MatchTemplateKey(e[1], path))
    IN  IF matching \o literal = << >> THEN None
        ELSE Head(matching \o literal)[2]

(* Endpoint: the literal key, else the first templated one that matches;   *)
(* None when there is neither.                                             *)
Endpoint(endpoints, path) ==
    LET literal == SelectSeq(endpoints, LAMBDA e : e[1] = path)
        matching == SelectSeq(endpoints, LAMBDA e :
                        Templated(e[1]) /\ MatchTemplateKey(e[1], path))
    IN  IF literal \o matching = << >> THEN None
        ELSE Head(literal \o matching)[2]

(* DescriptorURL: relative to the document.                                *)
DescriptorURL(descriptor, docURL) == ResolveRef(descriptor, docURL)
=============================================================================
