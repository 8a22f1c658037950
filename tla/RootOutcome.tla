----------------------------- MODULE RootOutcome ------------------------------
(***************************************************************************)
(* What the caller of Resolve has to reckon with: the answers Resolve may  *)
(* give for a root descriptor, read off the order of the checks in resolve.*)
(* Resolver is checked to give no other answer, and Page takes any of them.*)
(***************************************************************************)
EXTENDS Descriptors

(* The answers once the root template's identity id is known and trusted.  *)
(* A fetch that is not allowed is refused, and no cache hit replaces it.   *)
FetchOutcomes(d, id, mappers) ==
    LET verified == {b \in Body : VerifyIntegrity(Descriptor[d].integrity, b)}
        known    == Descriptor[d].mapper \in mappers \cup {None}
    IN  {"fetch"} \cup
        IF ~FetchAllowed(FetchURL(id)) THEN {}
        ELSE {o \in {"integrity-failed", "mapper-unknown", "ok"} :
                CASE o = "integrity-failed" -> verified # Body
                  [] o = "mapper-unknown" -> verified # {} /\ ~known
                  [] o = "ok" -> verified # {} /\ known}

RootOutcomes(d, base, allowlist, mappers) ==
    LET id == ResolveTemplateURI(Descriptor[d].template, base)
    IN  IF d \in Malformed THEN {"malformed"}
        ELSE IF id = None THEN {"no-base"}
        ELSE IF ~CheckTrusted(id, base, allowlist) THEN {"rejected"}
        ELSE FetchOutcomes(d, id, mappers)
=============================================================================
