------------------------------ MODULE Integrity ------------------------------
(***************************************************************************)
(* vdp/integrity.go: the check of a template body against the Subresource  *)
(* Integrity metadata of its descriptor.                                   *)
(*                                                                         *)
(* Metadata is the sequence of its tokens.  A token names an algorithm and *)
(* the body its digest was computed from: hashing is taken to be           *)
(* injective, so "the digest matches" is "it was computed from this body". *)
(* A token without "-" and a token of an unknown algorithm have an alg     *)
(* outside SriAlgorithm.                                                   *)
(***************************************************************************)
EXTENDS Naturals, Sequences, SequencesExt

SriAlgorithm == {"sha256", "sha384", "sha512"}
Rank == [a \in SriAlgorithm |->
           CASE a = "sha256" -> 1 [] a = "sha384" -> 2 [] a = "sha512" -> 3]

(* One round of the loop: an unparseable or unknown token is passed over,  *)
(* a stronger algorithm empties the digests kept so far, and a digest of   *)
(* the strongest algorithm is kept.                                        *)
Consider(acc, token) ==
    IF token.alg \notin SriAlgorithm THEN acc
    ELSE LET rank == Rank[token.alg]
             top  == IF rank > acc.strongest
                     THEN [strongest |-> rank, digests |-> {}] ELSE acc
         IN  IF rank = top.strongest
             THEN [top EXCEPT !.digests = @ \cup {token.of}] ELSE top

(* verifyIntegrity: no parseable token imposes no constraint; otherwise    *)
(* one digest of the strongest algorithm must be the body's.               *)
VerifyIntegrity(metadata, body) ==
    LET kept == FoldLeft(Consider, [strongest |-> 0, digests |-> {}], metadata)
    IN  kept.strongest = 0 \/ body \in kept.digests
=============================================================================
