------------------------------- MODULE Writing --------------------------------
(***************************************************************************)
(* vdp/transform.go, vdp/descriptor.go: the JSON that transforms and view  *)
(* descriptors are written back as.  As in Transforms, the calls these     *)
(* functions make of themselves are left to constants.                     *)
(***************************************************************************)
EXTENDS Grammar

CONSTANTS NestedMarshal(_), NestedToJSON(_), NestedWrite(_)

(* json.Marshal of a Go map and of what it contains: the members come out  *)
(* in one fixed order.                                                     *)
Sorted(members) == Object(SetToSeq(DOMAIN members), members)

Marshal(p) ==
    CASE DOMAIN p = {"map"} -> Sorted([k \in DOMAIN p.map |-> NestedMarshal(p.map[k])])
      [] DOMAIN p = {"slice"} -> Array([i \in DOMAIN p.slice |-> NestedMarshal(p.slice[i])])
      [] OTHER -> p

(* Members that are nil or empty are left out.                             *)
OmitEmpty(members) ==
    [k \in {n \in DOMAIN members : members[n] # Absent} |-> members[k]]

(* A defect: a default written only when it is something.                  *)
BadDefaultMember(t) == IF t.default = Null THEN Absent ELSE Marshal(t.default)
DefaultMember(t) == Marshal(t.default)

(* toJSON, and the JSON that MarshalJSON makes of it.                      *)
ToJSON(t) ==
    LET one(v) == [k \in {t.op} |-> v]
        and(name, v) ==
          OmitEmpty([k \in {t.op, name} |-> IF k = name THEN v ELSE Pointer(t.ptr)])
        to == IF t.to = Absent THEN Absent ELSE NestedToJSON(t.to)
        all == Array([i \in DOMAIN t.list |-> NestedToJSON(t.list[i])])
    IN  CASE t.op = "pointer" -> Pointer(t.ptr)
          [] t.op = "mapping" -> Sorted([k \in DOMAIN t.to |-> NestedToJSON(t.to[k])])
          [] t.op = "list" -> all
          [] t.op \in {"$map", "$entries"} -> Sorted(and("$to", to))
          [] t.op = "$get" -> Sorted(and("$default", DefaultMember(t)))
          [] t.op = "$count" -> Sorted(one(Pointer(t.ptr)))
          [] t.op = "$merge" -> Sorted(one(all))
          [] t.op = "$mapper" -> Sorted(one(t.uri))

-----------------------------------------------------------------------------

WriteSlotDescriptor(sd) ==
    IF sd.ref # Absent
    THEN Sorted([k \in {"descriptor"} |-> sd.ref])
    ELSE NestedWrite(sd.desc)

(* A defect: the form of a slot that has one descriptor forgotten.         *)
BadWriteSlotValue(sv) ==
    IF Len(sv.descriptors) > 1
    THEN Array([i \in DOMAIN sv.descriptors |-> WriteSlotDescriptor(sv.descriptors[i])])
    ELSE WriteSlotDescriptor(Head(sv.descriptors))

(* SlotValue.MarshalJSON: an array is written as an array.                 *)
WriteSlotValue(sv) ==
    IF sv.array
    THEN Array([i \in DOMAIN sv.descriptors |-> WriteSlotDescriptor(sv.descriptors[i])])
    ELSE WriteSlotDescriptor(Head(sv.descriptors))

(* encoding/json on a ViewDescriptor; all members but the template are     *)
(* omitted when empty.                                                     *)
Write(vd) ==
    LET slots == [s \in DOMAIN vd.slots |-> WriteSlotValue(vd.slots[s])]
    IN  Sorted(OmitEmpty(
          [template |-> IF vd.template = Absent THEN Empty ELSE vd.template,
           type |-> vd.type,
           integrity |-> vd.integrity,
           slots |-> IF slots = NoSlots THEN Absent ELSE Sorted(slots),
           transform |-> IF vd.transform = Absent THEN Absent ELSE ToJSON(vd.transform)]))
=============================================================================
