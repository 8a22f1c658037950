-------------------------------- MODULE Grammar --------------------------------
(***************************************************************************)
(* vdp/descriptor.go: how view descriptors are read from JSON and          *)
(* validated.  A document is a JSON value; what is read from it is a       *)
(* record, in which Absent stands for Go's empty string or nil.  Inline    *)
(* descriptors are read by ReadView and validated by ValidView: Read and   *)
(* Valid again.                                                            *)
(***************************************************************************)
EXTENDS Transforms, Resources

CONSTANTS
    BadURI,         \* strings url.Parse rejects, with a scheme supplied where one may be
    BadReference    \* strings url.Parse rejects as they are

NoSlots == [s \in {} |-> Null]
StringField(v, k) == IF Field(v, k) = Empty THEN Absent ELSE Field(v, k)

(* encoding/json on a string field.                                        *)
StringOrAbsent(v) == v = Absent \/ IsString(v)

Inline(vd) == [ref |-> Absent, desc |-> vd]
Reference(url) == [ref |-> url, desc |-> Absent]

(* SlotDescriptor.UnmarshalJSON: the member "descriptor" makes a reference,*)
(* which has no other.                                                     *)
ReadSlotDescriptor(v) ==
    LET ref == Member(v, "descriptor")
    IN  IF ref # Absent
        THEN IF MembersKnown(v, {"descriptor"}) /\ IsString(ref) /\ ref # Empty
             THEN Reference(ref) ELSE Error
        ELSE IF ReadView(v) = Error THEN Error ELSE Inline(ReadView(v))

(* SlotValue.UnmarshalJSON: one slot descriptor, or an array of them.      *)
ReadSlotValue(v) ==
    LET items == IF IsArray(v) THEN v.items ELSE << v >>
        read == [i \in DOMAIN items |-> ReadSlotDescriptor(items[i])]
    IN  IF read = << >> \/ Error \in Range(read) THEN Error
        ELSE [descriptors |-> read, array |-> IsArray(v)]

ReadSlots(v) ==
    IF v = Absent THEN NoSlots ELSE [s \in Names(v) |-> ReadSlotValue(v.members[s])]

(* ViewDescriptor.UnmarshalJSON                                            *)
Read(v) ==
    LET slots == Field(v, "slots")
        transform == Member(v, "transform")
        t == IF transform = Absent THEN Absent ELSE ParseTransform(transform)
        strings == {StringField(v, k) : k \in {"template", "type", "integrity"}}
    IN  IF \/ ~MembersKnown(v, {"template", "type", "integrity", "slots", "transform"})
           \/ \E s \in strings : ~StringOrAbsent(s)
           \/ slots # Absent /\ ~IsObject(slots)
           \/ Error \in Range(ReadSlots(slots))
           \/ t = Error
        THEN Error
        ELSE [template |-> StringField(v, "template"), type |-> StringField(v, "type"),
              integrity |-> StringField(v, "integrity"), slots |-> ReadSlots(slots),
              transform |-> t]

-----------------------------------------------------------------------------

(* A defect: only the first element of an array slot looked at.            *)
BadElements(sv) == IF sv.descriptors = << >> THEN {} ELSE {Head(sv.descriptors)}
Elements(sv) == Range(sv.descriptors)

(* ViewDescriptor.Validate, with what it asks of each slot descriptor: a   *)
(* host and port without a scheme may name a template, but no descriptor.  *)
Valid(vd) ==
    /\ vd.template \notin BadURI \cup {Absent}
    /\ \A s \in DOMAIN vd.slots :
        /\ vd.slots[s].descriptors # << >>
        /\ \A sd \in Elements(vd.slots[s]) :
             IF sd.ref # Absent THEN sd.ref \notin BadReference ELSE ValidView(sd.desc)
=============================================================================
