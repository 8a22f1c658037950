------------------------------ MODULE JSONValue ------------------------------
(***************************************************************************)
(* vdp/jsonvalue.go: JSON documents that keep the order of their members,  *)
(* and JSON Pointers into them.                                            *)
(*                                                                         *)
(* A value is told apart by its fields: an object has keys and members, an *)
(* array items; a string is a pointer, that is the sequence of its         *)
(* reference tokens after splitting and unescaping, when it has the syntax *)
(* of one, and a text when it has not; other scalars are numbers and null. *)
(* The text of an object is the sequence of its << name, value >> pairs,   *)
(* in which a name may occur twice.                                        *)
(***************************************************************************)
EXTENDS Naturals, Sequences, SequencesExt, FiniteSets

CONSTANTS
    Index,     \* Index[t]: the number a reference token t denotes, if any
    MaxInt,    \* the largest value of Go's int
    Vendor     \* member names with the prefix "x-"

Object(keys, members) == [keys |-> keys, members |-> members]
Array(items) == [items |-> items]
Text(s) == [text |-> s]
Pointer(path) == [pointer |-> path]     \* ValidPointer accepts it
Number(n) == [number |-> n]
Null == [null |-> "null"]
Absent == [absent |-> "nil"]            \* Go's nil *JSONValue
Error == [error |-> "error"]            \* in place of a value: it cannot be read

IsObject(v) == DOMAIN v = {"keys", "members"}
IsArray(v) == DOMAIN v = {"items"}
IsString(v) == DOMAIN v \in {{"text"}, {"pointer"}}
IsPointer(v) == DOMAIN v = {"pointer"}

Names(v) == DOMAIN v.members
Contents(v) ==
    IF IsObject(v) THEN Range(v.members) ELSE IF IsArray(v) THEN Range(v.items) ELSE {}
EmptyMembers == [k \in {} |-> Null]
Empty == Pointer(<< >>)   \* the empty string has the syntax of a pointer
Has(v, k) == IsObject(v) /\ k \in Names(v)
Member(v, k) == IF Has(v, k) THEN v.members[k] ELSE Absent

(* A field of a Go struct: null leaves it as it was, nil or empty.         *)
Field(v, k) == IF Member(v, k) = Null THEN Absent ELSE Member(v, k)

(* checkMembers: every member but the vendor's must be understood.  null   *)
(* reads as an object without members.                                     *)
MembersKnown(v, known) ==
    v = Null \/ (IsObject(v) /\ Names(v) \subseteq known \cup Vendor)

(* A key/value pair of $entries.                                           *)
Pair(k, value) ==
    Object(<< "key", "value" >>, [n \in {"key", "value"} |->
                                    IF n = "key" THEN Text(k) ELSE value])

(* A defect: a name that occurs again listed again.                        *)
BadAddMember(obj, pair) ==
    Object(Append(obj.keys, pair[1]),
           [k \in Names(obj) \cup {pair[1]} |->
              IF k = pair[1] THEN pair[2] ELSE obj.members[k]])

(* decodeFrom on an object: of duplicate names the last value wins, in the *)
(* place of the first.                                                     *)
AddMember(obj, pair) ==
    Object(IF pair[1] \in Names(obj) THEN obj.keys ELSE Append(obj.keys, pair[1]),
           [k \in Names(obj) \cup {pair[1]} |->
              IF k = pair[1] THEN pair[2] ELSE obj.members[k]])
Decode(pairs) ==
    LET object[i \in 0 .. Len(pairs)] ==
          IF i = 0 THEN Object(<< >>, EmptyMembers)
          ELSE AddMember(object[i - 1], pairs[i])
    IN  object[Len(pairs)]

(* Sscanf into an int: out of range is an error, which is dropped, and the *)
(* variable keeps its zero.                                                *)
Scanned(token) == IF Index[token] <= MaxInt THEN Index[token] ELSE 0

(* JSONValue.Pointer, one reference token; what leads nowhere is Absent,   *)
(* and stays so.                                                           *)
Step(cur, token) ==
    CASE IsObject(cur) /\ token \in Names(cur) -> cur.members[token]
      [] IsArray(cur) /\ token \in DOMAIN Index /\ Scanned(token) < Len(cur.items) ->
           cur.items[Scanned(token) + 1]
      [] OTHER -> Absent
At(v, path) ==
    LET at[i \in 0 .. Len(path)] == IF i = 0 THEN v ELSE Step(at[i - 1], path[i])
    IN  at[Len(path)]

Without(v, names) ==
    Object(FlattenSeq([i \in DOMAIN v.keys |->
                         IF v.keys[i] \in names THEN << >> ELSE << v.keys[i] >>]),
           [k \in Names(v) \ names |-> v.members[k]])

(* A defect: the views of a multi-view descriptor left in the body.        *)
BadStripDescriptor(v) == IF IsObject(v) THEN Without(v, {"_view"}) ELSE v

(* StripDescriptor                                                         *)
StripDescriptor(v) == IF IsObject(v) THEN Without(v, {"_view", "_views"}) ELSE v
=============================================================================
