----------------------------- MODULE LanguageProps -----------------------------
(***************************************************************************)
(* What the languages of Wire must do, those of transforms and of          *)
(* descriptors: whatever nests in them, at any depth.                      *)
(***************************************************************************)
EXTENDS WireProps, Writing

CONSTANTS
    NestedRebased(_, _), NestedRemovals(_),     \* as in Transforms
    Value,      \* JSON values documents consist of, and are written with
    Input,      \* JSON values representations consist of
    Nesting     \* how deep values nest: encoding/json reads 10000 levels

(* Values have the fields of one kind, and consist of values.  The length  *)
(* of an array is an int.                                                  *)
Scalars == {{"pointer"}, {"text"}, {"number"}, {"null"}}
Composed(S) ==
    \A v \in S :
        /\ IsObject(v) \/ IsArray(v) \/ DOMAIN v \in Scalars
        /\ IsObject(v) => v.keys \in Seq(Names(v))
        /\ IsArray(v) => v.items \in Seq(S) /\ Len(v.items) <= MaxInt
        /\ IsPointer(v) => v.pointer \in Seq(Range(v.pointer))
        /\ Contents(v) \subseteq S

(* Documents nest to a depth that is bounded; a transform is applied to a  *)
(* representation, or to nil for one that was cut.                         *)
Deepest ==
    LET deep[n \in 0 .. Nesting] ==
          IF n = 0 THEN Value ELSE UNION {Contents(v) : v \in deep[n - 1]}
    IN  deep[Nesting]
ASSUME ValueAssumption ==
    Doc \subseteq Value /\ Composed(Value) /\ Nesting \in Nat /\ Deepest = {}
ASSUME InputAssumption == {Decode(p) : p \in Payload} \subseteq Input /\ Composed(Input)

-----------------------------------------------------------------------------
(* Transforms.                                                             *)

(* The transforms a transform is made of, and all that nest in it.         *)
Operands(t) ==
    CASE t.op \in {"list", "$merge"} -> Range(t.list)
      [] t.op = "mapping" -> Range(t.to)
      [] t.op \in {"$map", "$entries"} -> {t.to} \ {Absent}
      [] OTHER -> {}
Below(t) ==
    LET below[n \in 0 .. Nesting] ==
          {t} \cup IF n = 0 THEN {} ELSE UNION {Operands(u) : u \in below[n - 1]}
    IN  below[Nesting]

(* The transform t of an element, written against the whole.               *)
Rebased(t, path) ==
    CASE t.op \in {"list", "$merge"} ->
           [t EXCEPT !.list = [i \in DOMAIN @ |-> NestedRebased(@[i], path)]]
      [] t.op = "mapping" -> [t EXCEPT !.to = [k \in DOMAIN @ |-> NestedRebased(@[k], path)]]
      [] OTHER -> [t EXCEPT !.ptr = path \o @]

(* What is parsed where a transform may stand in another.                  *)
Parsed == {Parse(v, Nested) : v \in Value} \ {Error}
Projections == {t \in Parsed : t.op = "$map"}

(* The recursive functions are what one call of them does, wherever they   *)
(* come to.                                                                *)
ASSUME ParseAssumption ==
    \A v \in Value :
        /\ NestedPlain(v) = Plain(v)
        /\ NestedParse(v, Nested) = Parse(v, Nested)
        /\ ReadView(v) = Read(v)
        /\ ReadView(v) # Error => ValidView(ReadView(v)) = Valid(ReadView(v))
ASSUME EvalAssumption ==
    \A t \in Parsed, x \in Input \cup {Absent} :
        /\ NestedEval(t, x) = Eval(t, x)
        /\ \A p \in Projections, k \in DOMAIN Index :
             LET u == Rebased(t, Append(p.ptr, k))
             IN  NestedRebased(t, Append(p.ptr, k)) = u /\ NestedEval(u, x) = Eval(u, x)

(* What is written is JSON as well.                                        *)
ASSUME WriteAssumption ==
    \A v \in Value :
        /\ NestedMarshal(Plain(v)) = Marshal(Plain(v)) /\ Marshal(Plain(v)) \in Value
        /\ \A where \in {AtTop, Nested} :
             LET t == Parse(v, where)
             IN  t # Error => NestedToJSON(t) = ToJSON(t) /\ ToJSON(t) \in Value
        /\ LET vd == Read(v)
           IN  vd # Error => NestedWrite(vd) = Write(vd) /\ Write(vd) \in Value

Transforms == IF view = Absent \/ view.transform = Absent THEN {} ELSE Below(view.transform)

(* Mapper code is named by a whole transform only, however deep the        *)
(* constructs nest: Eval never comes to a mapper, which would give null.   *)
MapperStandsAlone ==
    \A t \in Transforms : t.op = "$mapper" => t = view.transform

(* The transform below a $map sees its element and nothing else: the i-th  *)
(* result is that of the same transform with all its pointers prefixed by  *)
(* the pointer to element i.                                               *)
ProjectionIsRelative ==
    stage = "viewed" =>
        \A t \in {u \in Transforms : u.op = "$map" /\ IsArray(At(got.input, u.ptr))} :
            LET result == Eval(t, got.input).slice
            IN  /\ Len(result) = Len(At(got.input, t.ptr).items)
                /\ \A k \in DOMAIN Index : Index[k] < Len(result) =>
                     result[Index[k] + 1] =
                         Eval(Rebased(t.to, Append(t.ptr, k)), got.input)

(* jsonvalue.go on Pointer: "a pointer that resolves to nothing returns    *)
(* nil", which is null in the model.  So is a pointer that numbers an      *)
(* element an array does not have.                                         *)
PointerBeyondIsNil ==
    stage = "viewed" =>
        \A t \in {u \in Transforms : u.op = "pointer" /\ u.ptr # << >>} :
            LET array == At(got.input, Front(t.ptr))
            IN  /\ IsArray(array)
                /\ Last(t.ptr) \in DOMAIN Index
                /\ Index[Last(t.ptr)] >= Len(array.items)
                => Eval(t, got.input) = Null

(* $count is the number of results that $map or $entries gives for the     *)
(* same pointer, and null where both are null.                             *)
CountAgrees ==
    stage = "viewed" =>
        \A p \in {<< >>} \cup {<< pair[1] >> : pair \in Range(sent.payload)} :
            LET of(c) == Eval([op |-> c, ptr |-> p, to |-> [op |-> "pointer", ptr |-> << >>]],
                              got.input)
                lists == {of("$map"), of("$entries")} \ {Null}
            IN  of("$count") = IF lists = {} THEN Null
                               ELSE Number(Len((CHOOSE l \in lists : TRUE).slice))

-----------------------------------------------------------------------------
(* Descriptors.                                                            *)

(* The members that say something: not the vendor's, nor fields that are   *)
(* as good as left out.                                                    *)
Telling(v) ==
    {k \in Names(v) \ Vendor :
        LET m == v.members[k]
        IN  /\ k \in {"template", "type", "integrity"} => m \notin {Null, Empty}
            /\ k = "slots" => m # Null /\ (IsObject(m) => Names(m) # {})}

(* A value without one of those, somewhere in it.                          *)
Removals(v) ==
    CASE IsObject(v) ->
           {Without(v, {k}) : k \in Telling(v)} \cup
           UNION {{[v EXCEPT !.members[k] = left] : left \in NestedRemovals(v.members[k])} :
                    k \in Telling(v)}
      [] IsArray(v) ->
           UNION {{[v EXCEPT !.items[i] = left] : left \in NestedRemovals(v.items[i])} :
                    i \in DOMAIN v.items}
      [] OTHER -> {}

ASSUME RemovalAssumption ==
    \A v \in Value :
        /\ NestedRemovals(v) = Removals(v)
        /\ \A left \in Removals(v) :
             /\ NestedPlain(left) = Plain(left)
             /\ NestedParse(left, Nested) = Parse(left, Nested)
             /\ ReadView(left) = Read(left)

(* descriptor.go on the members: a client that ignored one it does not     *)
(* understand would silently render wrong output.  No member of a          *)
(* descriptor that decodes is without effect, wherever in it, if it says   *)
(* anything at all.                                                        *)
NothingIgnored ==
    sent.doc \notin Undecodable =>
        \A left \in Removals(sent.doc) : Read(left) # Read(sent.doc)

(* A descriptor that is written back says what it said: defaults that are  *)
(* null, bare $entries and arrays of one descriptor included.              *)
WrittenAsRead ==
    sent.doc \notin Undecodable => Read(Write(Read(sent.doc))) = Read(sent.doc)

(* The descriptors a descriptor has inline, and all that nest in it.       *)
Inlines(vd) ==
    LET children == UNION {Range(vd.slots[s].descriptors) : s \in DOMAIN vd.slots}
    IN  {sd.desc : sd \in {c \in children : c.ref = Absent}}
InlineBelow(vd) ==
    LET below[n \in 0 .. Nesting] ==
          {vd} \cup IF n = 0 THEN {} ELSE UNION {Inlines(d) : d \in below[n - 1]}
    IN  below[Nesting]

(* Validation of a descriptor reaches every inline descriptor and every    *)
(* reference in it: the resolver walks them without checking them again.   *)
ValidThroughout ==
    view # Absent =>
        \A vd \in InlineBelow(view) :
            /\ vd.template \notin BadURI \cup {Absent}
            /\ \A s \in DOMAIN vd.slots :
                 /\ vd.slots[s].descriptors # << >>
                 /\ \A sd \in Range(vd.slots[s].descriptors) :
                      sd.ref # Absent => sd.ref \notin BadReference
=============================================================================
