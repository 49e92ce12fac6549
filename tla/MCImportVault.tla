--------------------------- MODULE MCImportVault ---------------------------
(***************************************************************************)
(* Small instances of ImportVault for TLC.  Two users upload the same      *)
(* document into a session each; one of them uploads it again into the     *)
(* continuation of that session.                                           *)
(***************************************************************************)
EXTENDS ImportVaultCustody, TLC

CONSTANTS r1, r2, r3, s1, s2, s3, alice, bob, invoice

Homes    == [r \in Refs |-> CASE r = r1 -> s1 [] r = r2 -> s2 [] r = r3 -> s3]
OneDocument == [r \in Refs |-> invoice]
Owners   == [s \in Sessions |-> IF s = s2 THEN bob ELSE alice]

\* Artifact ids are only names, handed out in any order.
ArtifactNames == Permutations(Artifacts)

(* To keep the instance small, not everything is combined with everything. *)

Uploaded(r) == r \in Refs /\ ref[r].state # "ABSENT"
Downloads   == {r \in Refs : rd[r].pc # "IDLE"}
Ocr         == \E r \in Refs : usage[r] # "NONE"
Case ==
  /\ Uploaded(r3) => sess[s2] = "NEW"
  /\ Ocr => ~Uploaded(r3) /\ mishaps = 0 /\ Downloads \subseteq {r1}
  /\ mishaps > 0 \/ Downloads # {} => sess[s3] = "NEW"
=============================================================================
