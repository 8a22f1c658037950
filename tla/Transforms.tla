------------------------------ MODULE Transforms ------------------------------
(***************************************************************************)
(* vdp/transform.go: the grammar of transforms and their evaluation.       *)
(* Models are what Plain makes of values.                                  *)
(*                                                                         *)
(* Plain, parseTransformValue and Eval call themselves on what a value or  *)
(* a transform consists of.  What one call does is defined here, with the  *)
(* calls inside it left to a constant: Plain calls NestedPlain, and so on. *)
(* The instances close the circle (NestedPlain is Plain in MCWire); a      *)
(* proof has it from an assumption (see LanguageProps).                    *)
(***************************************************************************)
EXTENDS JSONValue

CONSTANTS
    NestedPlain(_), NestedParse(_, _), NestedEval(_, _),
    Reserved    \* names with the prefix "$" that are no construct

(* JSONValue.Plain: the order of members is dropped.                       *)
Plain(v) ==
    CASE v = Absent -> Null
      [] IsObject(v) -> [map |-> [k \in Names(v) |-> NestedPlain(v.members[k])]]
      [] IsArray(v) -> [slice |-> [i \in DOMAIN v.items |-> NestedPlain(v.items[i])]]
      [] OTHER -> v

(* The parameter topLevel: where a transform stands.                       *)
AtTop == TRUE
Nested == FALSE

(* The constructs, in the order they are looked for.                       *)
Constructs == << "$mapper", "$map", "$entries", "$get", "$count", "$merge" >>

(* A defect: $to let through where it means nothing.                       *)
BadAllowed(c) == IF c = "$get" THEN {c, "$default"} ELSE {c, "$to"}

(* The members each may have, and those it must have.                      *)
Allowed(c) == CASE c \in {"$map", "$entries"} -> {c, "$to"}
                [] c = "$get" -> {c, "$default"}
                [] OTHER -> {c}
Required(c) == CASE c = "$map" -> {c, "$to"}
                 [] c = "$get" -> {c, "$default"}
                 [] OTHER -> {c}
Present(v) == {i \in DOMAIN Constructs : Constructs[i] \in Names(v)}

(* The members of a construct are as the grammar has them; the transforms  *)
(* nested in it are another matter.                                        *)
WellFormed(c, v, topLevel) ==
    /\ Names(v) \subseteq Allowed(c) \cup Vendor
    /\ Required(c) \subseteq Names(v)
    /\ CASE c = "$mapper" -> /\ topLevel
                             /\ IsString(v.members[c])
                             /\ v.members[c] # Pointer(<< >>)
         [] c = "$merge" -> IsArray(v.members[c]) /\ v.members[c].items # << >>
         [] OTHER -> IsPointer(v.members[c])

(* A defect: what may stand at the top may stand anywhere.                 *)
BadParseAll(items) == [i \in DOMAIN items |-> NestedParse(items[i], AtTop)]
ParseAll(items) == [i \in DOMAIN items |-> NestedParse(items[i], Nested)]

(* parseTransformObject, a construct.                                      *)
ParseConstruct(c, v, topLevel) ==
    LET m == v.members[c]
        items == IF c = "$merge" THEN ParseAll(m.items) ELSE << >>
        to == IF "$to" \in Names(v) THEN NestedParse(v.members["$to"], Nested) ELSE Absent
    IN  IF \/ ~WellFormed(c, v, topLevel)
           \/ Error \in Range(items)
           \/ to = Error
        THEN Error
        ELSE CASE c = "$mapper" -> [op |-> c, uri |-> m]
               [] c \in {"$map", "$entries"} -> [op |-> c, ptr |-> m.pointer, to |-> to]
               [] c = "$get" -> [op |-> c, ptr |-> m.pointer,
                                 default |-> Plain(v.members["$default"])]
               [] c = "$count" -> [op |-> c, ptr |-> m.pointer]
               [] c = "$merge" -> [op |-> c, list |-> items]

(* ... and a mapping.                                                      *)
ParseMapping(v) ==
    LET to == [k \in Names(v) |-> NestedParse(v.members[k], Nested)]
    IN  IF Names(v) \cap Reserved # {} \/ Error \in Range(to) THEN Error
        ELSE [op |-> "mapping", to |-> to]

(* parseTransformValue; ParseTransform is the case topLevel.  An object is *)
(* what the first construct name it has says.                              *)
Parse(v, topLevel) ==
    CASE IsPointer(v) -> [op |-> "pointer", ptr |-> v.pointer]
      [] IsArray(v) ->
           IF Error \in Range(ParseAll(v.items)) THEN Error
           ELSE [op |-> "list", list |-> ParseAll(v.items)]
      [] IsObject(v) ->
           IF Present(v) = {} THEN ParseMapping(v)
           ELSE ParseConstruct(Constructs[Min(Present(v))], v, topLevel)
      [] OTHER -> Error
ParseTransform(v) == Parse(v, AtTop)

(* MapperURI; Absent stands for "".                                        *)
MapperURI(t) == IF t.op = "$mapper" THEN t.uri ELSE Absent

-----------------------------------------------------------------------------

(* $merge: of the operands that gave an object, the last one wins.         *)
MergeOver(m, n) ==
    IF DOMAIN n # {"map"} THEN m
    ELSE [map |-> [k \in DOMAIN m.map \cup DOMAIN n.map |->
                     IF k \in DOMAIN n.map THEN n.map[k] ELSE m.map[k]]]

(* A defect: the transform below $map evaluated against the whole again.   *)
BadEvalElements(t, items, input) ==
    [slice |-> [i \in DOMAIN items |-> NestedEval(t.to, input)]]
EvalElements(t, items, input) ==
    [slice |-> [i \in DOMAIN items |-> NestedEval(t.to, items[i])]]

(* $entries, in document order.                                            *)
EvalEntries(t, obj) ==
    [slice |-> [i \in DOMAIN obj.keys |->
        LET pair == Pair(obj.keys[i], obj.members[obj.keys[i]])
        IN  IF t.to = Absent THEN Plain(pair) ELSE NestedEval(t.to, pair)]]

(* A defect: only arrays counted.                                          *)
BadEvalCount(v) == IF IsArray(v) THEN Number(Len(v.items)) ELSE Null
EvalCount(v) ==
    CASE IsArray(v) -> Number(Len(v.items))
      [] IsObject(v) -> Number(Len(v.keys))
      [] OTHER -> Null

(* Eval: what leads nowhere or to the wrong kind of value gives null.      *)
Eval(t, input) ==
    LET v == At(input, t.ptr)
    IN  CASE t.op = "pointer" -> Plain(v)
          [] t.op = "mapping" -> [map |-> [k \in DOMAIN t.to |-> NestedEval(t.to[k], input)]]
          [] t.op = "list" -> [slice |-> [i \in DOMAIN t.list |-> NestedEval(t.list[i], input)]]
          [] t.op = "$map" -> IF IsArray(v) THEN EvalElements(t, v.items, input) ELSE Null
          [] t.op = "$entries" -> IF IsObject(v) THEN EvalEntries(t, v) ELSE Null
          [] t.op = "$get" -> IF v \in {Absent, Null} THEN t.default ELSE Plain(v)
          [] t.op = "$count" -> EvalCount(v)
          [] t.op = "$merge" ->
               FoldLeft(MergeOver, [map |-> EmptyMembers],
                        [i \in DOMAIN t.list |-> NestedEval(t.list[i], input)])
          [] t.op = "$mapper" -> Null

(* model: registered mapper code is given the plain representation.        *)
ModelOf(vd, input) ==
    IF vd.transform = Absent THEN Plain(input)
    ELSE IF MapperURI(vd.transform) # Absent
    THEN [mapper |-> vd.transform.uri, of |-> Plain(input)]
    ELSE Eval(vd.transform, input)
=============================================================================
