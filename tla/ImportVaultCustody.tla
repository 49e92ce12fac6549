------------------------- MODULE ImportVaultCustody -------------------------
(***************************************************************************)
(* ImportVault implements DocumentCustody: the bytes that attachment b     *)
(* uploaded are blob b, whichever row owns them.                           *)
(***************************************************************************)
EXTENDS ImportVault

OwnerRow(b) == {a \in Artifacts : art[a].key = b}

\* While an artifact owns the directory of b, b lives as the artifact does until
\* a purge renames the directory; before that b is not stored yet, as long as its
\* upload may still be finalized.
Life(b) ==
  IF OwnerRow(b) # {}
  THEN IF disk[b] # "WHOLE" THEN "GONE"
       ELSE IF \E a \in OwnerRow(b) : art[a].state = "RAW_READY" THEN "KEPT" ELSE "CONDEMNED"
  ELSE IF ref[b].state \in {"ABSENT", "RESERVED"} THEN "NONE" ELSE "GONE"

Holders(b) == {r \in Refs : ref[r].state = "ATTACHED" /\ ref[r].art \in OwnerRow(b)}
Reading(b) == {r \in Refs : rd[r].pc = "READING" /\ rd[r].key = b}

Custody == INSTANCE DocumentCustody WITH
  Blobs <- Refs, Users <- Refs,
  life    <- [b \in Refs |-> Life(b)],
  holders <- [b \in Refs |-> Holders(b)],
  readers <- [b \in Refs |-> Reading(b)]

\* Every behaviour of the vault is one of the abstract custody: bytes outlive
\* every holder and every open descriptor, are condemned for good, erased once,
\* and their directory is never reused, under interleaved uploads of the same
\* bytes, downloads, purges, retirements and crashes.
ImplementsCustody == Custody!Spec
=============================================================================
