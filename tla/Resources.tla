------------------------------ MODULE Resources ------------------------------
(***************************************************************************)
(* vdp/descriptor.go, vdp/resolve.go: the two parsers of a descriptor      *)
(* resource, over any way of reading and validating one view.  Grammar has *)
(* the code's.                                                             *)
(***************************************************************************)
EXTENDS JSONValue

CONSTANTS
    ReadView(_),    \* ViewDescriptor.UnmarshalJSON: a view, or Error
    ValidView(_)    \* ViewDescriptor.Validate, on such a view

(* MultiViewDescriptor.Validate                                            *)
AllValid(views) == DOMAIN views # {} /\ \A n \in DOMAIN views : ValidView(views[n])

(* A defect: a referenced descriptor not validated.                        *)
BadParseSingle(v) == IF Member(v, "views") # Absent THEN Error ELSE ReadView(v)

(* parseSingle: the resource of a descriptor reference.                    *)
ParseSingle(v) ==
    IF \/ Member(v, "views") # Absent
       \/ Member(v, "descriptor") \notin {Absent, Null}
       \/ ReadView(v) = Error
    THEN Error
    ELSE IF ValidView(ReadView(v)) THEN ReadView(v) ELSE Error

(* Parse: the resource of a Link header, one view or several.              *)
ParseViews(v) ==
    LET views == Member(v, "views")
        read == [n \in Names(views) |-> ReadView(views.members[n])]
    IN  CASE Member(v, "descriptor") \notin {Absent, Null} -> Error
          [] Member(v, "descriptor") \in {Absent, Null} /\ views = Absent ->
               IF ReadView(v) # Error /\ ValidView(ReadView(v))
               THEN [n \in {"default"} |-> ReadView(v)] ELSE Error
          [] Member(v, "descriptor") \in {Absent, Null} /\ views # Absent ->
               IF /\ Member(v, "template") \in {Absent, Null}
                  /\ MembersKnown(v, {"views"})
                  /\ IsObject(views)
                  /\ Error \notin Range(read)
                  /\ AllValid(read)
               THEN read ELSE Error
=============================================================================
