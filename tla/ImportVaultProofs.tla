-------------------------- MODULE ImportVaultProofs --------------------------
(***************************************************************************)
(* Safety proofs about ImportVault, for any number of attachments,         *)
(* artifacts, sessions, upload slots and mishaps, and the proof that it    *)
(* implements DocumentCustody.                                             *)
(***************************************************************************)
EXTENDS ImportVaultCustody, FiniteSetTheorems, TLAPS

----------------------------------------------------------------------------
(* Types of the row operators *)

LEMMA NextGenType == ASSUME NEW g \in 0..GenCap PROVE NextGen(g) \in 0..GenCap
  BY DEF NextGen, GenCap

LEMMA ReleaseType == ASSUME NEW row \in Ref PROVE Release(row) \in Ref
  BY NextGenType DEF Release, Ref, RefStates

LEMMA FailedType == ASSUME NEW row \in Ref PROVE Failed(row) \in Ref
  BY NextGenType DEF Failed, Ref, RefStates

LEMMA GoneRefType == ASSUME NEW r \in Refs PROVE AbsentRef(r) \in Ref /\ GoneRef(r) \in Ref
  <1>1. HomeOf[r] \in Sessions
    BY VaultAssumption DEF VaultAssumption
  <1>2. AbsentRef(r) \in Ref
    BY <1>1 DEF AbsentRef, Ref, RefStates, GenCap
  <1>3. GoneRef(r) \in Ref
    BY <1>2 DEF GoneRef, Ref, RefStates
  <1> QED BY <1>2, <1>3

LEMMA ReleasedType ==
  ASSUME NEW R \in [Refs -> Ref], NEW s
  PROVE  Released(R, s) \in [Refs -> Ref]
  BY ReleaseType DEF Released

LEMMA MovedType ==
  ASSUME ref \in [Refs -> Ref], NEW T, NEW c \in Sessions
  PROVE  Moved(T, c) \in [Refs -> Ref]
  BY NextGenType DEF Moved, Ref

LEMMA SettledType ==
  ASSUME ref \in [Refs -> Ref], NEW r \in Refs, NEW a \in Artifacts
  PROVE  Settled(r, a) \in Ref
  BY DEF Settled, Ref, RefStates

LEMMA ReservedType ==
  ASSUME NEW row \in Ref
  PROVE  [row EXCEPT !.state = "RESERVED", !.gen = 1, !.temp = TRUE, !.lease = TRUE] \in Ref
  <1>1. ASSUME NEW b \in BOOLEAN
        PROVE  [row EXCEPT !.state = "RESERVED", !.gen = 1, !.temp = b, !.lease = b] \in Ref
    <2>1. 1 \in 0..GenCap /\ "RESERVED" \in RefStates
      BY DEF GenCap, RefStates
    <2> QED BY <2>1 DEF Ref
  <1>2. TRUE \in BOOLEAN
    OBVIOUS
  <1> QED BY <1>1, <1>2, Zenon

LEMMA PendingType ==
  ASSUME NEW row \in Ref
  PROVE  [row EXCEPT !.pending = TRUE] \in Ref
  BY DEF Ref

LEMMA KeptType ==
  ASSUME NEW row \in Ref
  PROVE  [row EXCEPT !.temp = FALSE] \in Ref
  BY DEF Ref

LEMMA StoredType ==
  ASSUME NEW r \in Refs
  PROVE  [state |-> "RAW_READY", doc |-> DocOf[r], key |-> r, ocr |-> FALSE] \in Art
  <1>1. DocOf[r] \in Docs
    BY DEF Docs
  <1> QED BY <1>1 DEF Art, ArtStates

LEMMA OcrType ==
  ASSUME NEW row \in Art, NEW b \in BOOLEAN
  PROVE  [row EXCEPT !.ocr = b] \in Art
  BY DEF Art

LEMMA UnleasedType ==
  ASSUME NEW row \in Ref
  PROVE  [row EXCEPT !.lease = FALSE] \in Ref
  BY DEF Ref

LEMMA ErasedType ==
  ASSUME NEW row \in Ref
  PROVE  [row EXCEPT !.temp = FALSE, !.pending = FALSE] \in Ref
  <1>1. ASSUME NEW b \in BOOLEAN
        PROVE  [row EXCEPT !.temp = b, !.pending = b] \in Ref
    BY DEF Ref
  <1>2. FALSE \in BOOLEAN
    OBVIOUS
  <1> QED BY <1>1, <1>2, Zenon

LEMMA PurgingType ==
  ASSUME NEW row \in Art
  PROVE  [row EXCEPT !.state = "PURGING"] \in Art
  <1>1. "PURGING" \in ArtStates
    BY DEF ArtStates
  <1> QED BY <1>1 DEF Art

LEMMA PurgedType ==
  ASSUME NEW row \in Art
  PROVE  [row EXCEPT !.state = "PURGED", !.key = None] \in Art
  <1>1. "PURGED" \in ArtStates
    BY DEF ArtStates
  <1> QED BY <1>1 DEF Art

LEMMA ScrubbedType ==
  ASSUME NEW row \in Art
  PROVE  [row EXCEPT !.state = "RAW_READY", !.ocr = FALSE] \in Art
  <1>1. ASSUME NEW b \in BOOLEAN
        PROVE  [row EXCEPT !.state = "RAW_READY", !.ocr = b] \in Art
    <2>1. "RAW_READY" \in ArtStates
      BY DEF ArtStates
    <2> QED BY <2>1 DEF Art
  <1>2. FALSE \in BOOLEAN
    OBVIOUS
  <1> QED BY <1>1, <1>2, Zenon

LEMMA BlockedType ==
  ASSUME NEW row \in Upload, NEW a \in Artifacts
  PROVE  [row EXCEPT !.pc = "BLOCKED", !.on = a] \in Upload
  <1>1. "BLOCKED" \in UpStates
    BY DEF UpStates
  <1> QED BY <1>1 DEF Upload

LEMMA AbortedTypes ==
  /\ \A row \in Upload : [row EXCEPT !.aborted = TRUE] \in Upload
  /\ \A row \in Download : [row EXCEPT !.aborted = TRUE] \in Download
  <1>1. ASSUME NEW row \in Upload PROVE [row EXCEPT !.aborted = TRUE] \in Upload
    BY DEF Upload
  <1>2. ASSUME NEW row \in Download PROVE [row EXCEPT !.aborted = TRUE] \in Download
    BY DEF Download
  <1> QED BY <1>1, <1>2

LEMMA EnteredType ==
  ASSUME NEW row \in Download
  PROVE  [row EXCEPT !.pc = "ENTERED"] \in Download
  <1>1. "ENTERED" \in RdStates
    BY DEF RdStates, RdEntered
  <1> QED BY <1>1 DEF Download

LEMMA RetireType == ASSUME NEW row \in Art PROVE Retire(row) \in Art
  BY DEF Retire, Art, ArtStates

LEMMA NoRowType == NoRow \in Art /\ GoneArt \in Art
  BY DEF NoRow, GoneArt, Art, ArtStates

LEMMA ArtUpdate ==
  ASSUME art \in [Artifacts -> Art], NEW a \in Artifacts, NEW row \in Art
  PROVE  [art EXCEPT ![a] = row] \in [Artifacts -> Art]
  OBVIOUS

LEMMA CommitType ==
  ASSUME NEW R \in [Refs -> Ref], NEW A \in [Artifacts -> Art],
         NEW C \in SUBSET Artifacts, NEW F, Commit(R, A, C, F)
  PROVE  ref' \in [Refs -> Ref] /\ art' \in [Artifacts -> Art] /\ claimed' \in SUBSET Artifacts
  BY GoneRefType, RetireType, NoRowType DEF Commit, Finalized

LEMMA ResumeType ==
  ASSUME NEW u \in Upload, NEW ok
  PROVE  Resume(u, ok) \in Upload
  <1>1. WriteAttempts \in Nat
    BY VaultAssumption DEF VaultAssumption
  <1>2. u.tries + 1 < WriteAttempts => u.tries + 1 \in 0..WriteAttempts
    BY <1>1 DEF Upload
  <1>3. {"STORED", "FAILING"} \subseteq UpStates
    BY DEF UpStates
  <1> QED BY <1>2, <1>3 DEF Resume, Upload

LEMMA PurgeEndsType ==
  ASSUME TypeOK, NEW k, NEW ok, PurgeEnds(k, ok)
  PROVE  /\ up' \in [Refs -> Upload]
         /\ purge' \in [Keys -> Purge]
         /\ reaper' \in Keys \cup {None}
  <1>1. up' \in [Refs -> Upload]
    BY ResumeType DEF TypeOK, PurgeEnds
  <1>2. purge' \in [Keys -> Purge] /\ reaper' \in Keys \cup {None}
    BY DEF TypeOK, PurgeEnds, IdlePurge, Purge, PurgeStates
  <1> QED BY <1>1, <1>2

LEMMA PurgeGotoType ==
  ASSUME TypeOK, NEW k, NEW pc \in PurgeStates, PurgeGoto(k, pc)
  PROVE  /\ up' \in [Refs -> Upload]
         /\ purge' \in [Keys -> Purge]
         /\ reaper' \in Keys \cup {None}
  BY DEF TypeOK, PurgeGoto, Purge

LEMMA CaptureType ==
  ASSUME TypeOK, NEW k, Capture(k)
  PROVE  /\ ref' \in [Refs -> Ref]
         /\ art' \in [Artifacts -> Art]
         /\ purge' \in [Keys -> Purge]
  <1>1. ref' \in [Refs -> Ref]
    BY FailedType DEF TypeOK, Capture
  <1>2. art' \in [Artifacts -> Art]
    <2>1. CASE k \in Artifacts
      <3>1. art' = [art EXCEPT ![k] = [art[k] EXCEPT !.state = "PURGING"]]
        BY <2>1 DEF Capture
      <3> QED BY <2>1, <3>1, PurgingType DEF TypeOK
    <2>2. CASE k \notin Artifacts
      BY <2>2 DEF TypeOK, Capture
    <2> QED BY <2>1, <2>2
  <1>3. purge' \in [Keys -> Purge]
    BY DEF TypeOK, Capture, Purge, PurgeStates, Home, Keys, Art
  <1> QED BY <1>1, <1>2, <1>3

LEMMA UpGotoType ==
  ASSUME TypeOK, NEW r, NEW pc \in UpStates, UpGoto(r, pc)
  PROVE  up' \in [Refs -> Upload]
  BY DEF TypeOK, UpGoto, Upload

LEMMA IdleTypes == IdleUp \in Upload /\ IdleRd \in Download /\ IdlePurge \in Purge
  BY VaultAssumption DEF VaultAssumption, IdleUp, IdleRd, IdlePurge, Upload, Download, Purge,
     UpStates, UpEntered, RdStates, RdEntered, PurgeStates, Fencing

----------------------------------------------------------------------------
(* The inductive invariant *)

\* An attachment in state ATTACHED refers to an artifact.
AttachedHasArtifact == \A r \in Refs : ref[r].state = "ATTACHED" => ref[r].art \in Artifacts

\* A download in progress has captured an artifact.
ReadHasArtifact == \A r \in Refs : rd[r].pc # "IDLE" => rd[r].art \in Artifacts

\* A purge in flight has captured a directory.
PurgeHasHome == \A k \in Keys : purge[k].pc # "IDLE" => purge[k].home \in Refs

\* A row that was reserved and is still there.
Live(row) == row.state \notin {"ABSENT", "DELETED"}

\* The session of an attachment row was opened: what a continuation receives is all
\* it has, so a handover cannot bring it a document for the second time.
LiveSessions == \A r \in Refs : Live(ref[r]) => sess[ref[r].sess] # "NEW"

\* Only artifacts whose row exists have an identity, OCR content or claims.
RowsBacked ==
  \A a \in Artifacts : art[a].doc # None \/ art[a].ocr \/ a \in claimed => IsArtRow(art, a)

RowsTyped ==
  /\ ref \in [Refs -> Ref]
  /\ art \in [Artifacts -> Art]
  /\ claimed \subseteq Artifacts
  /\ sess \in [Sessions -> SessStates]
  /\ usage \in [Refs -> Usages]

FilesTyped ==
  /\ disk \in [Refs -> {"NONE", "PARTIAL", "WHOLE"}]
  /\ trash \subseteq Keys \X Refs

ProcsTyped ==
  /\ up \in [Refs -> Upload]
  /\ rd \in [Refs -> Download]
  /\ purge \in [Keys -> Purge]
  /\ leaked \subseteq Keys
  /\ reaper \in Keys \cup {None}

LEMMA TypeParts == TypeOK <=> RowsTyped /\ FilesTyped /\ ProcsTyped /\ mishaps \in 0..MaxMishaps
  BY DEF TypeOK, RowsTyped, FilesTyped, ProcsTyped

LEMMA InitTyped == Init => TypeOK
  BY VaultAssumption, GoneRefType, NoRowType, IdleTypes
  DEF VaultAssumption, Init, TypeOK, SessStates, Active, Usages

\* Which actions change the database rows.
LEMMA SessionRows ==
  ASSUME TypeOK, NEW s \in Sessions,
         \/ OpenSession(s) \/ Confirm(s) \/ Edit(s) \/ Cancel(s) \/ Expire(s) \/ Apply(s)
         \/ RetentionEnds(s)
  PROVE  RowsTyped' /\ UNCHANGED <<fs, proc, mishaps>>
  <1> USE DEF TypeOK
  <1>1. CASE OpenSession(s)
    BY <1>1 DEF OpenSession, RowsTyped, SessStates, Active
  <1>2. CASE Confirm(s)
    BY <1>2 DEF Confirm, RowsTyped, SessStates, Active
  <1>3. CASE Edit(s)
    BY <1>3 DEF Edit, RowsTyped, SessStates, Active, Usages
  <1>4. CASE Cancel(s)
    <2>1. ref' \in [Refs -> Ref] /\ art' \in [Artifacts -> Art] /\ claimed' \subseteq Artifacts
      BY <1>4, CommitType, ReleasedType DEF Cancel
    <2> QED BY <1>4, <2>1 DEF Cancel, RowsTyped, OcrContentPurged, SessStates, Usages
  <1>5. CASE Expire(s)
    <2>1. ref' \in [Refs -> Ref] /\ art' \in [Artifacts -> Art] /\ claimed' \subseteq Artifacts
      BY <1>5, CommitType, ReleasedType DEF Expire
    <2> QED BY <1>5, <2>1 DEF Expire, RowsTyped, SessStates
  <1>6. CASE Apply(s)
    <2>1. PICK Cl \in SUBSET Claimable(s),
               T \in SUBSET {r \in Refs : ref[r].sess = s /\ ref[r].state \in {"ATTACHED", "FAILED"}},
               c \in {s} \cup {x \in Late : sess[x] = "NEW" /\ Owner[x] = Owner[s]} :
            /\ c = s => T = {}
            /\ Commit(Released(Moved(T, c), s), art, claimed \cup Cl, {})
            /\ sess' = [x \in Sessions |-> IF x = s THEN "APPLIED"
                                           ELSE IF x = c THEN "DRAFT" ELSE sess[x]]
            /\ usage' = [r \in Refs |-> IF r \in T THEN usage[r] ELSE OcrContentPurged(s)[r]]
      BY <1>6 DEF Apply
    <2>6. c \in Sessions
      BY <2>1, VaultAssumption DEF VaultAssumption
    <2>2. Cl \subseteq Artifacts
      BY <2>1 DEF Claimable
    <2>3. ref' \in [Refs -> Ref] /\ art' \in [Artifacts -> Art] /\ claimed' \subseteq Artifacts
      BY <2>1, <2>2, <2>6, CommitType, ReleasedType, MovedType
    <2>4. sess' \in [Sessions -> SessStates]
      BY <2>1 DEF SessStates, Active
    <2>5. usage' \in [Refs -> Usages]
      BY <2>1 DEF OcrContentPurged, Usages
    <2> QED BY <1>6, <2>3, <2>4, <2>5 DEF Apply, RowsTyped
  <1>7. CASE RetentionEnds(s)
    <2>1. art' \in [Artifacts -> Art]
      BY <1>7, ScrubbedType DEF RetentionEnds
    <2>2. usage' \in [Refs -> Usages] /\ sess' \in [Sessions -> SessStates]
      BY <1>7 DEF RetentionEnds, SessStates, Active, Usages
    <2> QED BY <1>7, <2>1, <2>2 DEF RetentionEnds, RowsTyped
  <1> QED BY <1>1, <1>2, <1>3, <1>4, <1>5, <1>6, <1>7

LEMMA DeleteLastClaimRows ==
  ASSUME TypeOK, NEW a \in Artifacts, DeleteLastClaim(a)
  PROVE  RowsTyped' /\ UNCHANGED <<fs, proc, mishaps>>
  <1> USE DEF TypeOK
  <1>1. ref' \in [Refs -> Ref] /\ art' \in [Artifacts -> Art] /\ claimed' \subseteq Artifacts
    BY CommitType DEF DeleteLastClaim
  <1>2. sess' \in [Sessions -> SessStates]
    BY DEF DeleteLastClaim, SessStates, Active
  <1> QED BY <1>1, <1>2 DEF DeleteLastClaim, RowsTyped

\* Uploads up to the stored file.
LEMMA UploadTyped ==
  ASSUME TypeOK, NEW r \in Refs,
         \/ Reserve(r) \/ LeaseExpires(r) \/ Claim(r) \/ EnterUpload(r) \/ RecheckUpload(r)
         \/ OpenBlob(r) \/ StreamDone(r) \/ UploadStops(r) \/ SelfFence(r)
  PROVE  RowsTyped' /\ FilesTyped' /\ ProcsTyped' /\ UNCHANGED mishaps
  <1> USE DEF TypeOK, fs, db, proc
  <1>1. CASE Reserve(r)
    <2>1. [AbsentRef(r) EXCEPT !.state = "RESERVED", !.gen = 1, !.temp = TRUE, !.lease = TRUE]
            \in Ref
      BY ReservedType, GoneRefType
    <2>2. ref' \in [Refs -> Ref]
      BY <1>1, <2>1 DEF Reserve
    <2> QED BY <1>1, <2>2 DEF Reserve, RowsTyped, FilesTyped, ProcsTyped
  <1>2. CASE LeaseExpires(r)
    <2>1. ref' = [ref EXCEPT ![r] = [ref[r] EXCEPT !.lease = FALSE]]
      BY <1>2 DEF LeaseExpires
    <2>2. ref' \in [Refs -> Ref]
      BY <2>1, UnleasedType
    <2> QED BY <1>2, <2>2 DEF LeaseExpires, RowsTyped, FilesTyped, ProcsTyped
  <1>3. CASE Claim(r)
    <2>4. [ref[r] EXCEPT !.gen = 2] \in Ref
      BY DEF Ref, GenCap
    <2>1. ref' \in [Refs -> Ref]
      BY <1>3, <2>4 DEF Claim
    <2>2. [IdleUp EXCEPT !.pc = "CLAIMED"] \in Upload
      BY IdleTypes DEF Upload, UpStates
    <2>3. up' \in [Refs -> Upload]
      BY <1>3, <2>2 DEF Claim
    <2> QED BY <1>3, <2>1, <2>3 DEF Claim, RowsTyped, FilesTyped, ProcsTyped
  <1>4. CASE EnterUpload(r)
    <2>1. up' \in [Refs -> Upload]
      BY <1>4, UpGotoType DEF EnterUpload, UpStates, UpEntered
    <2> QED BY <1>4, <2>1 DEF EnterUpload, UpStep, RowsTyped, FilesTyped, ProcsTyped
  <1>5. CASE RecheckUpload(r)
    <2>1. up' \in [Refs -> Upload]
      BY <1>5, UpGotoType DEF RecheckUpload, UpStates, UpEntered
    <2> QED BY <1>5, <2>1 DEF RecheckUpload, UpStep, RowsTyped, FilesTyped, ProcsTyped
  <1>6. CASE OpenBlob(r)
    <2>1. up' \in [Refs -> Upload]
      BY <1>6, UpGotoType DEF OpenBlob, UpStates, UpEntered
    <2> QED BY <1>6, <2>1 DEF OpenBlob, UpStep, RowsTyped, FilesTyped, ProcsTyped
  <1>7. CASE StreamDone(r)
    <2>1. up' \in [Refs -> Upload]
      BY <1>7, UpGotoType DEF StreamDone, UpStates
    <2> QED BY <1>7, <2>1 DEF StreamDone, UpStep, RowsTyped, FilesTyped, ProcsTyped
  <1>8. CASE UploadStops(r)
    <2>1. up' \in [Refs -> Upload]
      BY <1>8, UpGotoType DEF UploadStops, UpStates
    <2> QED BY <1>8, <2>1 DEF UploadStops, UpStep, RowsTyped, FilesTyped, ProcsTyped
  <1>9. CASE SelfFence(r)
    <2>1. ref' \in [Refs -> Ref]
      BY <1>9, FailedType DEF SelfFence
    <2>2. up' \in [Refs -> Upload]
      BY <1>9, IdleTypes DEF SelfFence
    <2> QED BY <1>9, <2>1, <2>2 DEF SelfFence, RowsTyped, FilesTyped, ProcsTyped
  <1> QED BY <1>1, <1>2, <1>3, <1>4, <1>5, <1>6, <1>7, <1>8, <1>9

\* The answer to the finalize of an upload, and the purge it asks for.
LEMMA FinalizeTyped ==
  ASSUME TypeOK, NEW r \in Refs, NEW a \in Artifacts,
         FinalizeAdopt(r, a) \/ FinalizeShare(r, a) \/ FinalizeBlocked(r, a)
  PROVE  RowsTyped' /\ FilesTyped' /\ ProcsTyped' /\ UNCHANGED mishaps
  <1> USE DEF TypeOK, fs, db
  <1>1. CASE FinalizeAdopt(r, a)
    <2> DEFINE R == [ref EXCEPT ![r] = [Settled(r, a) EXCEPT !.temp = FALSE]]
               A == [art EXCEPT ![a] = [state |-> "RAW_READY", doc |-> DocOf[r], key |-> r,
                                        ocr |-> FALSE]]
    <2>6. [Settled(r, a) EXCEPT !.temp = FALSE] \in Ref
      BY SettledType, KeptType
    <2>1. R \in [Refs -> Ref]
      BY <2>6
    <2>2. [state |-> "RAW_READY", doc |-> DocOf[r], key |-> r, ocr |-> FALSE] \in Art
      BY StoredType
    <2>3. A \in [Artifacts -> Art]
      BY <2>2, ArtUpdate
    <2>4. ref' \in [Refs -> Ref] /\ art' \in [Artifacts -> Art] /\ claimed' \subseteq Artifacts
      BY <1>1, <2>1, <2>3, CommitType DEF FinalizeAdopt
    <2>5. up' \in [Refs -> Upload]
      BY <1>1, IdleTypes DEF FinalizeAdopt
    <2> QED BY <1>1, <2>4, <2>5 DEF FinalizeAdopt, RowsTyped, FilesTyped, ProcsTyped
  <1>2. CASE FinalizeShare(r, a)
    <2>4. [Settled(r, a) EXCEPT !.pending = TRUE] \in Ref
      BY SettledType, PendingType
    <2>1. [ref EXCEPT ![r] = [Settled(r, a) EXCEPT !.pending = TRUE]] \in [Refs -> Ref]
      BY <2>4
    <2>2. ref' \in [Refs -> Ref] /\ art' \in [Artifacts -> Art] /\ claimed' \subseteq Artifacts
      BY <1>2, <2>1, CommitType DEF FinalizeShare
    <2>3. up' \in [Refs -> Upload]
      BY <1>2, IdleTypes DEF FinalizeShare
    <2> QED BY <1>2, <2>2, <2>3 DEF FinalizeShare, RowsTyped, FilesTyped, ProcsTyped
  <1>3. CASE FinalizeBlocked(r, a)
    <2>1. up' \in [Refs -> Upload]
      <3>1. up' = [up EXCEPT ![r] = [up[r] EXCEPT !.pc = "BLOCKED", !.on = a]]
        BY <1>3 DEF FinalizeBlocked
      <3> QED BY <3>1, BlockedType
    <2> QED BY <1>3, <2>1 DEF FinalizeBlocked, UpStep, RowsTyped, FilesTyped, ProcsTyped
  <1> QED BY <1>1, <1>2, <1>3

LEMMA WaitTyped ==
  ASSUME TypeOK, NEW r \in Refs,
         UploadPurges(r) \/ JoinPurge(r) \/ PurgeNotEligible(r) \/ OcrAttempt(r)
  PROVE  RowsTyped' /\ FilesTyped' /\ ProcsTyped' /\ UNCHANGED mishaps
  <1> USE DEF TypeOK, fs, db, proc
  <1>1. CASE UploadPurges(r)
    <2>1. up' \in [Refs -> Upload]
      BY <1>1, UpGotoType DEF UploadPurges, UpStates
    <2>2. ref' \in [Refs -> Ref] /\ art' \in [Artifacts -> Art] /\ purge' \in [Keys -> Purge]
      BY <1>1, CaptureType DEF UploadPurges
    <2> QED BY <1>1, <2>1, <2>2 DEF UploadPurges, Capture, RowsTyped, FilesTyped, ProcsTyped
  <1>2. CASE JoinPurge(r)
    <2>1. up' \in [Refs -> Upload]
      BY <1>2, UpGotoType DEF JoinPurge, UpStates
    <2> QED BY <1>2, <2>1 DEF JoinPurge, UpStep, RowsTyped, FilesTyped, ProcsTyped
  <1>3. CASE PurgeNotEligible(r)
    <2>1. up' \in [Refs -> Upload]
      BY <1>3, ResumeType DEF PurgeNotEligible
    <2> QED BY <1>3, <2>1 DEF PurgeNotEligible, UpStep, RowsTyped, FilesTyped, ProcsTyped
  <1>4. CASE OcrAttempt(r)
    <2>2. art' \in [Artifacts -> Art]
      <3>1. PICK outcome \in {"SPENT", "KEPT"} :
              art' = [art EXCEPT ![ref[r].art].ocr = (outcome = "KEPT")]
        BY <1>4 DEF OcrAttempt
      <3>2. PICK b \in BOOLEAN : art' = [art EXCEPT ![ref[r].art].ocr = b]
        BY <3>1
      <3> QED BY <3>2, OcrType
    <2>3. usage' \in [Refs -> Usages]
      BY <1>4 DEF OcrAttempt, Usages
    <2>1. art' \in [Artifacts -> Art] /\ usage' \in [Refs -> Usages]
      BY <2>2, <2>3
    <2> QED BY <1>4, <2>1 DEF OcrAttempt, RowsTyped, FilesTyped, ProcsTyped
  <1> QED BY <1>1, <1>2, <1>3, <1>4

LEMMA ReadTyped ==
  ASSUME TypeOK, AttachedHasArtifact, NEW r \in Refs,
         AdmitRead(r) \/ EnterRead(r) \/ RecheckRead(r) \/ OpenRead(r) \/ EndRead(r)
  PROVE  RowsTyped' /\ FilesTyped' /\ ProcsTyped' /\ UNCHANGED mishaps
  <1> USE DEF TypeOK
  <1>1. rd' \in [Refs -> Download]
    <2>1. CASE AdmitRead(r)
      <3>1. ref[r].art \in Artifacts /\ art[ref[r].art].key \in Refs \cup {None}
        BY <2>1 DEF AdmitRead, MayRead, AttachedHasArtifact, Art
      <3>2. [IdleRd EXCEPT !.pc = "CAPTURED", !.art = ref[r].art, !.key = art[ref[r].art].key]
              \in Download
        BY <3>1, IdleTypes DEF Download, RdStates
      <3> QED BY <2>1, <3>2 DEF AdmitRead
    <2>2. CASE EnterRead(r)
      <3>1. CASE Fenced(rd[r].art)
        BY <2>2, <3>1, IdleTypes DEF EnterRead
      <3>2. CASE ~Fenced(rd[r].art)
        BY <2>2, <3>2, EnteredType DEF EnterRead
      <3> QED BY <3>1, <3>2
    <2>3. CASE RecheckRead(r)
      BY <2>3 DEF RecheckRead, Download, RdStates, RdEntered
    <2>4. CASE OpenRead(r)
      BY <2>4 DEF OpenRead, Download, RdStates, RdEntered
    <2>5. CASE EndRead(r)
      BY <2>5, IdleTypes DEF EndRead
    <2> QED BY <2>1, <2>2, <2>3, <2>4, <2>5
  <1>2. RdStep(r)
    BY DEF AdmitRead, EnterRead, RecheckRead, OpenRead, EndRead
  <1> QED BY <1>1, <1>2 DEF RdStep, db, fs, RowsTyped, FilesTyped, ProcsTyped

LEMMA PurgeTyped ==
  ASSUME TypeOK, PurgeHasHome, NEW k \in Keys,
         \/ ReaperPurges(k) \/ Fence(k) \/ Drained(k) \/ DrainTimeout(k)
         \/ Match(k) \/ Rename(k) \/ RemoveTrash(k) \/ Complete(k)
  PROVE  RowsTyped' /\ FilesTyped' /\ ProcsTyped' /\ UNCHANGED mishaps
  <1> USE DEF TypeOK, fs, db
  <1>1. CASE ReaperPurges(k)
    <2>1. ref' \in [Refs -> Ref] /\ art' \in [Artifacts -> Art] /\ purge' \in [Keys -> Purge]
      BY <1>1, CaptureType DEF ReaperPurges
    <2> QED BY <1>1, <2>1 DEF ReaperPurges, Capture, RowsTyped, FilesTyped, ProcsTyped
  <1>2. CASE Fence(k)
    <2>1. up' \in [Refs -> Upload] /\ rd' \in [Refs -> Download]
      BY <1>2, AbortedTypes DEF Fence
    <2>2. purge' \in [Keys -> Purge]
      BY <1>2 DEF Fence, Purge, PurgeStates, Fencing
    <2> QED BY <1>2, <2>1, <2>2 DEF Fence, RowsTyped, FilesTyped, ProcsTyped
  <1>3. CASE Drained(k)
    <2>1. up' \in [Refs -> Upload] /\ purge' \in [Keys -> Purge] /\ reaper' \in Keys \cup {None}
      BY <1>3, PurgeGotoType DEF Drained, PurgeStates, Fencing
    <2> QED BY <1>3, <2>1 DEF Drained, RowsTyped, FilesTyped, ProcsTyped
  <1>4. CASE DrainTimeout(k)
    <2>1. up' \in [Refs -> Upload] /\ purge' \in [Keys -> Purge] /\ reaper' \in Keys \cup {None}
      BY <1>4, PurgeEndsType DEF DrainTimeout
    <2> QED BY <1>4, <2>1 DEF DrainTimeout, RowsTyped, FilesTyped, ProcsTyped
  <1>5. CASE Match(k)
    <2>1. PurgeGoto(k, "MATCHED") \/ PurgeEnds(k, TRUE)
      BY <1>5 DEF Match
    <2>2. up' \in [Refs -> Upload] /\ purge' \in [Keys -> Purge] /\ reaper' \in Keys \cup {None}
      BY <2>1, PurgeGotoType, PurgeEndsType DEF PurgeStates, Fencing
    <2> QED BY <1>5, <2>2 DEF Match, RowsTyped, FilesTyped, ProcsTyped
  <1>6. CASE Rename(k)
    <2>1. up' \in [Refs -> Upload] /\ purge' \in [Keys -> Purge] /\ reaper' \in Keys \cup {None}
      BY <1>6, PurgeGotoType DEF Rename, PurgeStates, Fencing
    <2>2. purge[k].home \in Refs
      BY <1>6 DEF Rename, PurgeHasHome
    <2>3. disk' \in [Refs -> {"NONE", "PARTIAL", "WHOLE"}]
      BY <1>6 DEF Rename
    <2>4. trash' \subseteq Keys \X Refs
      BY <1>6, <2>2 DEF Rename
    <2> QED BY <1>6, <2>1, <2>3, <2>4 DEF Rename, RowsTyped, FilesTyped, ProcsTyped
  <1>7. CASE RemoveTrash(k)
    <2>1. up' \in [Refs -> Upload] /\ purge' \in [Keys -> Purge] /\ reaper' \in Keys \cup {None}
      BY <1>7, PurgeGotoType DEF RemoveTrash, PurgeStates, Fencing
    <2> QED BY <1>7, <2>1 DEF RemoveTrash, RowsTyped, FilesTyped, ProcsTyped
  <1>8. CASE Complete(k)
    <2> DEFINE R == IF k \in Refs THEN [ref EXCEPT ![k] = [@ EXCEPT !.temp = FALSE, !.pending = FALSE]]
                    ELSE ref
               A == IF k \in Refs THEN art
                    ELSE [art EXCEPT ![k] = [@ EXCEPT !.state = "PURGED", !.key = None]]
    <2>6. R \in [Refs -> Ref]
      BY ErasedType
    <2>7. k \notin Refs => /\ k \in Artifacts
                          /\ [art[k] EXCEPT !.state = "PURGED", !.key = None] \in Art
      BY PurgedType DEF Keys
    <2>1. R \in [Refs -> Ref] /\ A \in [Artifacts -> Art]
      BY <2>6, <2>7
    <2>2. Commit(R, A, claimed, {}) \/ UNCHANGED <<ref, art, claimed>>
      BY <1>8 DEF Complete
    <2>3. ref' \in [Refs -> Ref] /\ art' \in [Artifacts -> Art] /\ claimed' \subseteq Artifacts
      BY <2>1, <2>2, CommitType
    <2>4. PurgeEnds(k, TRUE) \/ PurgeEnds(k, ~Matches(k))
      BY <1>8 DEF Complete
    <2>5. up' \in [Refs -> Upload] /\ purge' \in [Keys -> Purge] /\ reaper' \in Keys \cup {None}
      BY <2>4, PurgeEndsType
    <2> QED BY <1>8, <2>3, <2>5 DEF Complete, RowsTyped, FilesTyped, ProcsTyped
  <1> QED BY <1>1, <1>2, <1>3, <1>4, <1>5, <1>6, <1>7, <1>8

LEMMA MishapTyped ==
  ASSUME TypeOK, ReadHasArtifact, MishapNext
  PROVE  RowsTyped' /\ FilesTyped' /\ ProcsTyped' /\ mishaps' \in 0..MaxMishaps
  <1> USE DEF TypeOK, fs, db
  <1>1. CASE Crash
    <2>1. disk' \in [Refs -> {"NONE", "PARTIAL", "WHOLE"}]
      BY <1>1 DEF Crash
    <2>2. ProcsTyped'
      BY <1>1, IdleTypes DEF Crash, ProcsTyped
    <2> QED BY <1>1, <2>1, <2>2, VaultAssumption
            DEF Crash, Mishap, RowsTyped, FilesTyped, VaultAssumption
  <1>2. ASSUME NEW k \in Keys, PurgeFails(k)
        PROVE  RowsTyped' /\ FilesTyped' /\ ProcsTyped' /\ mishaps' \in 0..MaxMishaps
    <2>1. up' \in [Refs -> Upload] /\ purge' \in [Keys -> Purge] /\ reaper' \in Keys \cup {None}
      BY <1>2, PurgeEndsType DEF PurgeFails
    <2> QED BY <1>2, <2>1, VaultAssumption
            DEF PurgeFails, Mishap, RowsTyped, FilesTyped, ProcsTyped, VaultAssumption
  <1>3. ASSUME NEW r \in Refs, UncertainUploadClose(r)
        PROVE  RowsTyped' /\ FilesTyped' /\ ProcsTyped' /\ mishaps' \in 0..MaxMishaps
    <2>1. up' \in [Refs -> Upload]
      BY <1>3, UpGotoType DEF UncertainUploadClose, UpStates
    <2> QED BY <1>3, <2>1, VaultAssumption
            DEF UncertainUploadClose, Mishap, RowsTyped, FilesTyped, ProcsTyped, Keys, VaultAssumption
  <1>4. ASSUME NEW r \in Refs, UncertainReadClose(r)
        PROVE  RowsTyped' /\ FilesTyped' /\ ProcsTyped' /\ mishaps' \in 0..MaxMishaps
    <2>1. rd' \in [Refs -> Download]
      BY <1>4, IdleTypes DEF UncertainReadClose
    <2>2. rd[r].art \in Artifacts
      BY <1>4 DEF UncertainReadClose, ReadHasArtifact
    <2> QED BY <1>4, <2>1, <2>2, VaultAssumption
            DEF UncertainReadClose, Mishap, RowsTyped, FilesTyped, ProcsTyped, Keys, VaultAssumption
  <1>5. ASSUME NEW r \in Refs, SelfFenceFails(r)
        PROVE  RowsTyped' /\ FilesTyped' /\ ProcsTyped' /\ mishaps' \in 0..MaxMishaps
    <2>1. up' \in [Refs -> Upload]
      BY <1>5, IdleTypes DEF SelfFenceFails
    <2> QED BY <1>5, <2>1, VaultAssumption
            DEF SelfFenceFails, Mishap, RowsTyped, FilesTyped, ProcsTyped, VaultAssumption
  <1> QED BY <1>1, <1>2, <1>3, <1>4, <1>5 DEF MishapNext

\* What a process has captured is an existing directory or artifact.
ProcsBacked == ReadHasArtifact /\ PurgeHasHome

LEMMA NextTyped ==
  ASSUME TypeOK, AttachedHasArtifact, ProcsBacked, Next
  PROVE  TypeOK'
  <1>1. CASE SessionNext
    <2>1. RowsTyped' /\ UNCHANGED <<fs, proc, mishaps>>
      BY <1>1, SessionRows, DeleteLastClaimRows DEF SessionNext
    <2> QED BY <2>1 DEF TypeOK, RowsTyped, fs, proc
  <1>2. CASE UploadNext
    <2>1. RowsTyped' /\ FilesTyped' /\ ProcsTyped' /\ UNCHANGED mishaps
      BY <1>2, UploadTyped, FinalizeTyped, WaitTyped DEF UploadNext
    <2> QED BY <2>1 DEF TypeOK, RowsTyped, FilesTyped, ProcsTyped
  <1>3. CASE ReadNext
    <2>1. RowsTyped' /\ FilesTyped' /\ ProcsTyped' /\ UNCHANGED mishaps
      BY <1>3, ReadTyped DEF ReadNext
    <2> QED BY <2>1 DEF TypeOK, RowsTyped, FilesTyped, ProcsTyped
  <1>4. CASE PurgeNext
    <2>1. RowsTyped' /\ FilesTyped' /\ ProcsTyped' /\ UNCHANGED mishaps
      BY <1>4, PurgeTyped DEF PurgeNext, ProcsBacked
    <2> QED BY <2>1 DEF TypeOK, RowsTyped, FilesTyped, ProcsTyped
  <1>5. CASE MishapNext
    <2>1. RowsTyped' /\ FilesTyped' /\ ProcsTyped' /\ mishaps' \in 0..MaxMishaps
      BY <1>5, MishapTyped DEF ProcsBacked
    <2> QED BY <2>1 DEF TypeOK, RowsTyped, FilesTyped, ProcsTyped
  <1> QED BY <1>1, <1>2, <1>3, <1>4, <1>5 DEF Next

----------------------------------------------------------------------------
(* What a process has captured *)

LEMMA CaptureHasHome ==
  ASSUME TypeOK, PurgeHasHome, NEW k \in Keys, Capture(k)
  PROVE  PurgeHasHome'
  <1>1. Home(k) \in Refs
    BY DEF TypeOK, Capture, Due, ArtDue, Home, Keys, Art
  <1>2. \A j \in Keys : purge'[j] = IF j = k THEN [pc |-> "CAPTURED", home |-> Home(k)] ELSE purge[j]
    BY DEF TypeOK, Capture
  <1> QED BY <1>1, <1>2 DEF PurgeHasHome

LEMMA PurgeMoves ==
  ASSUME TypeOK, PurgeHasHome, NEW k \in Keys,
         \/ \E pc \in Fencing : purge[k].pc # "IDLE" /\ PurgeGoto(k, pc)
         \/ \E ok \in BOOLEAN : PurgeEnds(k, ok)
  PROVE  PurgeHasHome'
  <1>1. \A j \in Keys :
          purge'[j].pc # "IDLE" => purge[j].pc # "IDLE" /\ purge'[j].home = purge[j].home
    BY DEF TypeOK, PurgeGoto, PurgeEnds, IdlePurge, Purge
  <1> QED BY <1>1 DEF PurgeHasHome

LEMMA NextProcsBacked ==
  ASSUME TypeOK, AttachedHasArtifact, ProcsBacked, Next
  PROVE  ProcsBacked'
  <1> USE DEF ProcsBacked, proc, fs, db
  <1>1. CASE SessionNext
    <2>1. UNCHANGED proc
      BY <1>1, SessionRows, DeleteLastClaimRows DEF SessionNext
    <2> QED BY <2>1 DEF ReadHasArtifact, PurgeHasHome
  <1>2. CASE UploadNext
    <2>1. PICK r \in Refs :
            \/ Reserve(r) \/ LeaseExpires(r) \/ Claim(r) \/ EnterUpload(r) \/ RecheckUpload(r)
            \/ OpenBlob(r) \/ StreamDone(r) \/ UploadStops(r) \/ SelfFence(r)
            \/ \E a \in Artifacts : FinalizeAdopt(r, a) \/ FinalizeShare(r, a) \/ FinalizeBlocked(r, a)
            \/ UploadPurges(r) \/ JoinPurge(r) \/ PurgeNotEligible(r)
            \/ OcrAttempt(r)
      BY <1>2 DEF UploadNext
    <2>2. CASE UploadPurges(r)
      <3>1. UNCHANGED rd
        BY <2>2 DEF UploadPurges, Capture
      <3>2. PurgeHasHome'
        <4>1. CASE up[r].on \in Keys
          BY <2>2, <4>1, CaptureHasHome DEF UploadPurges
        <4>2. CASE up[r].on \notin Keys
          BY <2>2, <4>2 DEF UploadPurges, Capture, TypeOK, PurgeHasHome
        <4> QED BY <4>1, <4>2
      <3> QED BY <3>1, <3>2 DEF ReadHasArtifact
    <2>3. CASE ~UploadPurges(r)
      <3>1. UNCHANGED <<rd, purge>>
        BY <2>1, <2>3 DEF Reserve, LeaseExpires, Claim, EnterUpload, RecheckUpload, OpenBlob, StreamDone,
           UploadStops, SelfFence, FinalizeAdopt, FinalizeShare, FinalizeBlocked, JoinPurge,
           PurgeNotEligible, OcrAttempt, UpStep
      <3> QED BY <3>1 DEF ReadHasArtifact, PurgeHasHome
    <2> QED BY <2>2, <2>3
  <1>3. CASE ReadNext
    <2>1. PICK r \in Refs : AdmitRead(r) \/ EnterRead(r) \/ RecheckRead(r) \/ OpenRead(r) \/ EndRead(r)
      BY <1>3 DEF ReadNext
    <2>2. PurgeHasHome'
      BY <2>1 DEF AdmitRead, EnterRead, RecheckRead, OpenRead, EndRead, RdStep, PurgeHasHome
    <2>3. \A q \in Refs : q # r => rd'[q] = rd[q]
      BY <2>1 DEF TypeOK, AdmitRead, EnterRead, RecheckRead, OpenRead, EndRead
    <2>4. rd'[r].pc # "IDLE" => rd'[r].art \in Artifacts
      <3>1. CASE AdmitRead(r)
        <4>1. rd'[r].art = ref[r].art
          BY <3>1 DEF AdmitRead, TypeOK, IdleRd
        <4> QED BY <3>1, <4>1 DEF AdmitRead, MayRead, AttachedHasArtifact
      <3>2. CASE EnterRead(r)
        BY <3>2 DEF EnterRead, TypeOK, IdleRd, Download, ReadHasArtifact
      <3>3. CASE RecheckRead(r)
        BY <3>3 DEF RecheckRead, TypeOK, Download, ReadHasArtifact
      <3>4. CASE OpenRead(r)
        BY <3>4 DEF OpenRead, TypeOK, Download, ReadHasArtifact
      <3>5. CASE EndRead(r)
        BY <3>5 DEF EndRead, TypeOK, IdleRd
      <3> QED BY <2>1, <3>1, <3>2, <3>3, <3>4, <3>5
    <2> QED BY <2>2, <2>3, <2>4 DEF ReadHasArtifact
  <1>4. CASE PurgeNext
    <2>1. PICK k \in Keys : \/ ReaperPurges(k) \/ Fence(k) \/ Drained(k) \/ DrainTimeout(k)
                            \/ Match(k) \/ Rename(k) \/ RemoveTrash(k) \/ Complete(k)
      BY <1>4 DEF PurgeNext
    <2>2. CASE Fence(k)
      <3>1. \A r \in Refs : rd'[r].pc = rd[r].pc /\ rd'[r].art = rd[r].art
        BY <2>2 DEF Fence, TypeOK, Download
      <3>2. \A j \in Keys : purge'[j].pc # "IDLE" => purge[j].pc # "IDLE" /\ purge'[j].home = purge[j].home
        BY <2>2 DEF Fence, TypeOK, Purge
      <3> QED BY <3>1, <3>2 DEF ReadHasArtifact, PurgeHasHome
    <2>3. CASE ReaperPurges(k)
      BY <2>3, CaptureHasHome DEF ReaperPurges, Capture, ReadHasArtifact
    <2>4. CASE ~Fence(k) /\ ~ReaperPurges(k)
      <3>1. UNCHANGED rd
        BY <2>1, <2>4 DEF Drained, DrainTimeout, Match, Rename, RemoveTrash, Complete
      <3>2. \/ \E pc \in Fencing : purge[k].pc # "IDLE" /\ PurgeGoto(k, pc)
            \/ \E ok \in BOOLEAN : PurgeEnds(k, ok)
        <4>1. CASE Drained(k)
          BY <4>1 DEF Drained, Fencing
        <4>2. CASE DrainTimeout(k)
          BY <4>2 DEF DrainTimeout
        <4>3. CASE Match(k)
          BY <4>3 DEF Match, Fencing
        <4>4. CASE Rename(k)
          BY <4>4 DEF Rename, Fencing
        <4>5. CASE RemoveTrash(k)
          BY <4>5 DEF RemoveTrash, Fencing
        <4>6. CASE Complete(k)
          <5>1. PurgeEnds(k, TRUE) \/ PurgeEnds(k, FALSE)
            BY <4>6 DEF Complete, Matches
          <5> QED BY <5>1
        <4> QED BY <2>1, <2>4, <4>1, <4>2, <4>3, <4>4, <4>5, <4>6
      <3> QED BY <3>1, <3>2, PurgeMoves DEF ReadHasArtifact
    <2> QED BY <2>2, <2>3, <2>4
  <1>5. CASE MishapNext
    <2>1. CASE Crash
      BY <2>1 DEF Crash, IdleRd, IdlePurge, ReadHasArtifact, PurgeHasHome
    <2>2. ASSUME NEW k \in Keys, PurgeFails(k)
          PROVE  ProcsBacked'
      BY <2>2, PurgeMoves DEF PurgeFails, ReadHasArtifact
    <2>3. ASSUME NEW r \in Refs, UncertainReadClose(r)
          PROVE  ProcsBacked'
      <3>1. \A q \in Refs : rd'[q] = IF q = r THEN IdleRd ELSE rd[q]
        BY <2>3 DEF UncertainReadClose, TypeOK
      <3> QED BY <2>3, <3>1 DEF UncertainReadClose, IdleRd, ReadHasArtifact, PurgeHasHome
    <2>4. ASSUME NEW r \in Refs, UncertainUploadClose(r) \/ SelfFenceFails(r)
          PROVE  ProcsBacked'
      BY <2>4 DEF UncertainUploadClose, SelfFenceFails, ReadHasArtifact, PurgeHasHome
    <2> QED BY <1>5, <2>1, <2>2, <2>3, <2>4 DEF MishapNext
  <1> QED BY <1>1, <1>2, <1>3, <1>4, <1>5 DEF Next

----------------------------------------------------------------------------
(* Attachments *)

\* What most steps do to the rows: a live row stays in its session, an attached one
\* with its artifact; no row is attached, and no session forgets that it was opened.
RowsCarried ==
  \A r \in Refs : Live(ref'[r]) =>
    /\ Live(ref[r])
    /\ ref'[r].sess = ref[r].sess
    /\ ref'[r].state = "ATTACHED" => ref[r].state = "ATTACHED" /\ ref'[r].art = ref[r].art

SessionsAge == \A s \in Sessions : sess'[s] = "NEW" => sess[s] = "NEW"

Attachments == AttachedHasArtifact /\ LiveSessions /\ SessionHoldsDocumentOnce

LEMMA QuietStep ==
  ASSUME TypeOK, Attachments, RowsCarried, SessionsAge
  PROVE  Attachments'
  <1>1. \A r \in Refs : ref[r].sess \in Sessions
    BY DEF TypeOK, Ref
  <1>2. AttachedHasArtifact' /\ LiveSessions'
    BY <1>1 DEF Attachments, AttachedHasArtifact, LiveSessions, RowsCarried, SessionsAge, Live
  <1>3. SessionHoldsDocumentOnce'
    BY DEF Attachments, SessionHoldsDocumentOnce, RowsCarried, Live
  <1> QED BY <1>2, <1>3 DEF Attachments

LEMMA CommitRows ==
  ASSUME NEW R \in [Refs -> Ref], NEW A, NEW C, NEW F, Commit(R, A, C, F), NEW r \in Refs
  PROVE  Live(ref'[r]) => ref'[r] = R[r]
  BY DEF Commit, GoneRef, AbsentRef, Live

LEMMA ReleaseRow ==
  ASSUME NEW row \in Ref
  PROVE  Release(row).state = "RELEASED" /\ Release(row).sess = row.sess
  BY DEF Release, Ref

LEMMA FailedRow ==
  ASSUME NEW row \in Ref
  PROVE  Failed(row).state = "FAILED" /\ Failed(row).sess = row.sess
  BY DEF Failed, Ref

LEMMA ReleasedRows ==
  ASSUME NEW R \in [Refs -> Ref], NEW s, NEW r \in Refs
  PROVE  /\ Released(R, s)[r].sess = R[r].sess
         /\ Live(Released(R, s)[r]) => Live(R[r])
         /\ Released(R, s)[r].state = "ATTACHED" => Released(R, s)[r] = R[r] /\ R[r].sess # s
  <1>1. CASE R[r].sess = s /\ R[r].state \in {"RESERVED", "ATTACHED", "FAILED"}
    <2>1. Released(R, s)[r] = Release(R[r])
      BY <1>1 DEF Released
    <2> QED BY <1>1, <2>1, ReleaseRow DEF Live
  <1>2. CASE ~(R[r].sess = s /\ R[r].state \in {"RESERVED", "ATTACHED", "FAILED"})
    <2>1. Released(R, s)[r] = R[r]
      BY <1>2 DEF Released
    <2> QED BY <1>2, <2>1
  <1> QED BY <1>1, <1>2

LEMMA MovedRows ==
  ASSUME ref \in [Refs -> Ref], NEW T, NEW c \in Sessions, NEW r \in Refs
  PROVE  /\ Moved(T, c)[r].state = ref[r].state
         /\ Moved(T, c)[r].art = ref[r].art
         /\ Moved(T, c)[r].sess = IF r \in T THEN c ELSE ref[r].sess
  BY DEF Moved, Ref

LEMMA ClosingCarries ==
  ASSUME TypeOK, NEW s \in Sessions, NEW A, NEW C, NEW F, Commit(Released(ref, s), A, C, F)
  PROVE  RowsCarried
  <1>1. ref \in [Refs -> Ref] /\ Released(ref, s) \in [Refs -> Ref]
    BY ReleasedType DEF TypeOK
  <1>2. \A r \in Refs : Live(ref'[r]) => ref'[r] = Released(ref, s)[r]
    BY <1>1, CommitRows
  <1> QED BY <1>1, <1>2, ReleasedRows DEF RowsCarried

LEMMA CaptureCarries ==
  ASSUME TypeOK, NEW k, Capture(k)
  PROVE  RowsCarried /\ SessionsAge
  <1>1. \A r \in Refs : ref'[r] = ref[r] \/ (ref[r].state = "RESERVED" /\ ref'[r] = Failed(ref[r]))
    BY DEF TypeOK, Capture
  <1>2. \A r \in Refs : Failed(ref[r]).state = "FAILED" /\ Failed(ref[r]).sess = ref[r].sess
    BY FailedRow DEF TypeOK
  <1> QED BY <1>1, <1>2 DEF Capture, RowsCarried, SessionsAge, Live

LEMMA SessionCarries ==
  ASSUME TypeOK, NEW s \in Sessions,
         OpenSession(s) \/ Confirm(s) \/ Edit(s) \/ Cancel(s) \/ Expire(s) \/ RetentionEnds(s)
  PROVE  RowsCarried /\ SessionsAge
  <1>1. SessionsAge
    BY DEF TypeOK, SessionsAge, OpenSession, Confirm, Edit, Cancel, Expire, RetentionEnds, Active
  <1>2. CASE Cancel(s) \/ Expire(s)
    <2>1. RowsCarried
      BY <1>2, ClosingCarries DEF Cancel, Expire
    <2> QED BY <1>1, <2>1
  <1>3. CASE OpenSession(s) \/ Confirm(s) \/ Edit(s) \/ RetentionEnds(s)
    BY <1>1, <1>3 DEF OpenSession, Confirm, Edit, RetentionEnds, RowsCarried
  <1> QED BY <1>2, <1>3

LEMMA DeletionCarries ==
  ASSUME TypeOK, NEW a \in Artifacts, DeleteLastClaim(a)
  PROVE  RowsCarried /\ SessionsAge
  <1>1. \A r \in Refs : Live(ref'[r]) => ref'[r] = ref[r]
    BY CommitRows DEF TypeOK, DeleteLastClaim
  <1> QED BY <1>1 DEF DeleteLastClaim, RowsCarried, SessionsAge, Live

LEMMA UploadCarries ==
  ASSUME TypeOK, NEW r \in Refs,
         \/ LeaseExpires(r) \/ Claim(r) \/ EnterUpload(r) \/ RecheckUpload(r)
         \/ OpenBlob(r) \/ StreamDone(r) \/ UploadStops(r) \/ SelfFence(r)
         \/ \E a \in Artifacts : FinalizeBlocked(r, a)
         \/ UploadPurges(r) \/ JoinPurge(r) \/ PurgeNotEligible(r) \/ OcrAttempt(r)
  PROVE  RowsCarried /\ SessionsAge
  <1>1. CASE LeaseExpires(r) \/ Claim(r)
    <2>1. \A q \in Refs : /\ ref'[q].state = ref[q].state
                          /\ ref'[q].sess = ref[q].sess
                          /\ ref'[q].art = ref[q].art
      <3>1. ref \in [Refs -> Ref]
        BY DEF TypeOK
      <3>2. CASE LeaseExpires(r)
        BY <3>1, <3>2 DEF LeaseExpires, Ref
      <3>3. CASE Claim(r)
        <4>1. ref' = [ref EXCEPT ![r].gen = 2]
          BY <3>3 DEF Claim
        <4> QED BY <3>1, <4>1 DEF Ref
      <3> QED BY <1>1, <3>2, <3>3
    <2> QED BY <1>1, <2>1 DEF LeaseExpires, Claim, RowsCarried, SessionsAge, Live
  <1>2. CASE SelfFence(r)
    <2>1. \A q \in Refs : ref'[q] = ref[q] \/ (ref[q].state = "RESERVED" /\ ref'[q] = Failed(ref[q]))
      BY <1>2 DEF TypeOK, SelfFence
    <2>2. \A q \in Refs : Failed(ref[q]).state = "FAILED" /\ Failed(ref[q]).sess = ref[q].sess
      BY FailedRow DEF TypeOK
    <2> QED BY <1>2, <2>1, <2>2 DEF SelfFence, RowsCarried, SessionsAge, Live
  <1>3. CASE UploadPurges(r)
    BY <1>3, CaptureCarries DEF UploadPurges
  <1>4. CASE ~(LeaseExpires(r) \/ Claim(r) \/ SelfFence(r) \/ UploadPurges(r))
    <2>1. UNCHANGED <<ref, sess>>
      BY <1>4 DEF EnterUpload, RecheckUpload, OpenBlob, StreamDone, UploadStops, FinalizeBlocked,
         JoinPurge, PurgeNotEligible, OcrAttempt, UpStep, db
    <2> QED BY <2>1 DEF RowsCarried, SessionsAge
  <1> QED BY <1>1, <1>2, <1>3, <1>4

LEMMA PurgeCarries ==
  ASSUME TypeOK, NEW k \in Keys,
         \/ ReaperPurges(k) \/ Fence(k) \/ Drained(k) \/ DrainTimeout(k)
         \/ Match(k) \/ Rename(k) \/ RemoveTrash(k) \/ Complete(k)
  PROVE  RowsCarried /\ SessionsAge
  <1>1. CASE ReaperPurges(k)
    BY <1>1, CaptureCarries DEF ReaperPurges
  <1>2. CASE Complete(k)
    <2> DEFINE R == IF k \in Refs THEN [ref EXCEPT ![k] = [@ EXCEPT !.temp = FALSE, !.pending = FALSE]]
                    ELSE ref
               A == IF k \in Refs THEN art
                    ELSE [art EXCEPT ![k] = [@ EXCEPT !.state = "PURGED", !.key = None]]
    <2>1. R \in [Refs -> Ref]
      BY ErasedType DEF TypeOK
    <2>2. Commit(R, A, claimed, {}) \/ UNCHANGED ref
      BY <1>2 DEF Complete
    <2>3. \A r \in Refs : Live(ref'[r]) => ref'[r] = R[r] \/ ref'[r] = ref[r]
      BY <2>1, <2>2, CommitRows
    <2>4. \A r \in Refs : R[r].state = ref[r].state /\ R[r].sess = ref[r].sess /\ R[r].art = ref[r].art
      BY DEF TypeOK, Ref
    <2> QED BY <1>2, <2>3, <2>4 DEF Complete, RowsCarried, SessionsAge, Live
  <1>3. CASE ~(ReaperPurges(k) \/ Complete(k))
    <2>1. UNCHANGED <<ref, sess>>
      BY <1>3 DEF Fence, Drained, DrainTimeout, Match, Rename, RemoveTrash, db
    <2> QED BY <2>1 DEF RowsCarried, SessionsAge
  <1> QED BY <1>1, <1>2, <1>3

LEMMA ReserveAttachments ==
  ASSUME TypeOK, Attachments, NEW r \in Refs, Reserve(r)
  PROVE  Attachments'
  <1>1. \A q \in Refs \ {r} : ref'[q] = ref[q]
    BY DEF TypeOK, Reserve
  <1>2. ref'[r].state = "RESERVED" /\ ref'[r].sess = HomeOf[r]
    BY DEF TypeOK, Reserve, AbsentRef
  <1>3. UNCHANGED sess /\ sess[HomeOf[r]] = "DRAFT"
    BY DEF Reserve
  <1> QED BY <1>1, <1>2, <1>3
          DEF Attachments, AttachedHasArtifact, LiveSessions, SessionHoldsDocumentOnce, Live

LEMMA SettledRow ==
  ASSUME TypeOK, NEW r \in Refs, NEW a \in Artifacts
  PROVE  /\ Settled(r, a).sess = ref[r].sess
         /\ Settled(r, a).state = "ATTACHED" => Settled(r, a).art = a /\ ~Duplicate(r, a)
  <1>1. ref[r] \in Ref
    BY DEF TypeOK
  <1> QED BY <1>1 DEF Settled, Ref

\* An upload settles in its session with artifact a, or is dropped.
LEMMA SettleAttachments ==
  ASSUME TypeOK, Attachments, NEW r \in Refs, NEW a \in Artifacts,
         Live(ref[r]), UNCHANGED sess,
         NEW R \in [Refs -> Ref],
         \A q \in Refs \ {r} : R[q] = ref[q],
         R[r].sess = ref[r].sess,
         R[r].state = "ATTACHED" => R[r].art = a /\ ~Duplicate(r, a),
         NEW A, Commit(R, A, claimed, {})
  PROVE  Attachments'
  <1>1. \A q \in Refs : Live(ref'[q]) => ref'[q] = R[q]
    BY CommitRows
  <1>2. AttachedHasArtifact' /\ LiveSessions'
    BY <1>1 DEF Attachments, AttachedHasArtifact, LiveSessions, Live
  <1>3. ASSUME NEW p \in Refs, NEW q \in Refs,
               ref'[p].state = "ATTACHED", ref'[q].state = "ATTACHED",
               ref'[p].sess = ref'[q].sess, ref'[p].art = ref'[q].art
        PROVE  p = q
    <2>1. ref'[p] = R[p] /\ ref'[q] = R[q]
      BY <1>1, <1>3 DEF Live
    <2>2. CASE p # r /\ q # r
      BY <2>1, <2>2, <1>3 DEF Attachments, SessionHoldsDocumentOnce
    <2>3. CASE p = r /\ q # r
      BY <2>1, <2>3, <1>3 DEF Duplicate
    <2>4. CASE q = r /\ p # r
      BY <2>1, <2>4, <1>3 DEF Duplicate
    <2> QED BY <2>2, <2>3, <2>4
  <1> QED BY <1>2, <1>3 DEF Attachments, SessionHoldsDocumentOnce

LEMMA FinalizeAttachments ==
  ASSUME TypeOK, Attachments, NEW r \in Refs, NEW a \in Artifacts,
         FinalizeAdopt(r, a) \/ FinalizeShare(r, a)
  PROVE  Attachments'
  <1>1. Live(ref[r]) /\ UNCHANGED sess
    BY DEF FinalizeAdopt, FinalizeShare, ValidClaim, Live
  <1>2. Settled(r, a) \in Ref
    BY SettledType DEF TypeOK
  <1>3. ASSUME NEW row \in Ref, NEW A, row.sess = Settled(r, a).sess,
               row.state = Settled(r, a).state, row.art = Settled(r, a).art,
               Commit([ref EXCEPT ![r] = row], A, claimed, {})
        PROVE  Attachments'
    <2> DEFINE R == [ref EXCEPT ![r] = row]
    <2>1. R \in [Refs -> Ref] /\ R[r] = row /\ \A q \in Refs \ {r} : R[q] = ref[q]
      BY <1>3 DEF TypeOK
    <2>2. Commit(R, A, claimed, {})
      BY <1>3
    <2>3. R[r].sess = ref[r].sess /\ (R[r].state = "ATTACHED" => R[r].art = a /\ ~Duplicate(r, a))
      BY <2>1, <1>3, SettledRow
    <2> HIDE DEF R
    <2> QED BY <1>1, <2>1, <2>2, <2>3, SettleAttachments
  <1>4. CASE FinalizeAdopt(r, a)
    <2> DEFINE row == [Settled(r, a) EXCEPT !.temp = FALSE]
    <2>1. row \in Ref
      BY <1>2, KeptType
    <2>2. /\ row.sess = Settled(r, a).sess /\ row.state = Settled(r, a).state
          /\ row.art = Settled(r, a).art
      BY <1>2 DEF Ref
    <2>3. PICK A : Commit([ref EXCEPT ![r] = row], A, claimed, {})
      BY <1>4 DEF FinalizeAdopt
    <2> QED BY <2>1, <2>2, <2>3, <1>3
  <1>5. CASE FinalizeShare(r, a)
    <2> DEFINE row == [Settled(r, a) EXCEPT !.pending = TRUE]
    <2>1. row \in Ref
      BY <1>2, PendingType
    <2>2. /\ row.sess = Settled(r, a).sess /\ row.state = Settled(r, a).state
          /\ row.art = Settled(r, a).art
      BY <1>2 DEF Ref
    <2>3. Commit([ref EXCEPT ![r] = row], art, claimed, {})
      BY <1>5 DEF FinalizeShare
    <2> QED BY <2>1, <2>2, <2>3, <1>3
  <1> QED BY <1>4, <1>5

LEMMA ApplyAttachments ==
  ASSUME TypeOK, Attachments, NEW s \in Sessions, Apply(s)
  PROVE  Attachments'
  <1>1. PICK Cl \in SUBSET Claimable(s),
             T \in SUBSET {r \in Refs : ref[r].sess = s /\ ref[r].state \in {"ATTACHED", "FAILED"}},
             c \in {s} \cup {x \in Late : sess[x] = "NEW" /\ Owner[x] = Owner[s]} :
          /\ c = s => T = {}
          /\ Commit(Released(Moved(T, c), s), art, claimed \cup Cl, {})
          /\ sess' = [x \in Sessions |-> IF x = s THEN "APPLIED"
                                         ELSE IF x = c THEN "DRAFT" ELSE sess[x]]
          /\ usage' = [r \in Refs |-> IF r \in T THEN usage[r] ELSE OcrContentPurged(s)[r]]
    BY DEF Apply
  <1>2. c \in Sessions /\ (c # s => sess[c] = "NEW")
    BY <1>1, VaultAssumption DEF VaultAssumption
  <1>3. Moved(T, c) \in [Refs -> Ref] /\ Released(Moved(T, c), s) \in [Refs -> Ref]
    BY <1>2, MovedType, ReleasedType DEF TypeOK
  <1>4. ASSUME NEW r \in Refs, Live(ref'[r])
        PROVE  /\ Live(ref[r])
               /\ ref'[r].sess = IF r \in T THEN c ELSE ref[r].sess
               /\ ref'[r].state = "ATTACHED" => ref[r].state = "ATTACHED" /\ ref'[r].art = ref[r].art
    <2>1. ref'[r] = Released(Moved(T, c), s)[r]
      BY <1>1, <1>3, <1>4, CommitRows
    <2>2. /\ Moved(T, c)[r].state = ref[r].state
          /\ Moved(T, c)[r].art = ref[r].art
          /\ Moved(T, c)[r].sess = IF r \in T THEN c ELSE ref[r].sess
      BY <1>2, MovedRows DEF TypeOK
    <2>3. /\ ref'[r].sess = Moved(T, c)[r].sess
          /\ Live(Moved(T, c)[r])
          /\ ref'[r].state = "ATTACHED" => ref'[r] = Moved(T, c)[r]
      BY <1>3, <1>4, <2>1, ReleasedRows
    <2> QED BY <2>2, <2>3 DEF Live
  <1>5. \A r \in Refs : ref[r].sess \in Sessions
    BY DEF TypeOK, Ref
  <1>6. \A r \in Refs : ref'[r].state = "ATTACHED" => Live(ref'[r])
    BY DEF Live
  <1>7. AttachedHasArtifact'
    BY <1>4, <1>6 DEF Attachments, AttachedHasArtifact
  <1>8. LiveSessions'
    BY <1>1, <1>2, <1>4, <1>5 DEF Attachments, LiveSessions
  <1>9. ASSUME NEW p \in Refs, NEW q \in Refs,
               ref'[p].state = "ATTACHED", ref'[q].state = "ATTACHED",
               ref'[p].sess = ref'[q].sess, ref'[p].art = ref'[q].art
        PROVE  p = q
    <2>1. /\ ref[p].state = "ATTACHED" /\ ref[q].state = "ATTACHED" /\ ref[p].art = ref[q].art
          /\ Live(ref[p]) /\ Live(ref[q])
      BY <1>4, <1>6, <1>9
    <2>2. ref'[p].sess = (IF p \in T THEN c ELSE ref[p].sess)
          /\ ref'[q].sess = (IF q \in T THEN c ELSE ref[q].sess)
      BY <1>4, <1>6, <1>9
    <2>3. ref[p].sess = ref[q].sess
      <3>1. CASE p \in T /\ q \in T
        BY <3>1, <1>1
      <3>2. CASE p \notin T /\ q \notin T
        BY <3>2, <2>2, <1>9
      <3>3. CASE p \in T /\ q \notin T
        BY <3>3, <2>1, <2>2, <1>1, <1>2, <1>9 DEF Attachments, LiveSessions
      <3>4. CASE p \notin T /\ q \in T
        BY <3>4, <2>1, <2>2, <1>1, <1>2, <1>9 DEF Attachments, LiveSessions
      <3> QED BY <3>1, <3>2, <3>3, <3>4
    <2> QED BY <2>1, <2>3 DEF Attachments, SessionHoldsDocumentOnce
  <1> QED BY <1>7, <1>8, <1>9 DEF Attachments, SessionHoldsDocumentOnce

LEMMA NextAttachments ==
  ASSUME TypeOK, Attachments, Next
  PROVE  Attachments'
  <1>1. CASE SessionNext
    BY <1>1, QuietStep, SessionCarries, DeletionCarries, ApplyAttachments DEF SessionNext
  <1>2. CASE UploadNext
    <2>1. PICK r \in Refs :
            \/ Reserve(r) \/ LeaseExpires(r) \/ Claim(r) \/ EnterUpload(r) \/ RecheckUpload(r)
            \/ OpenBlob(r) \/ StreamDone(r) \/ UploadStops(r) \/ SelfFence(r)
            \/ \E a \in Artifacts : FinalizeAdopt(r, a) \/ FinalizeShare(r, a) \/ FinalizeBlocked(r, a)
            \/ UploadPurges(r) \/ JoinPurge(r) \/ PurgeNotEligible(r)
            \/ OcrAttempt(r)
      BY <1>2 DEF UploadNext
    <2> QED BY <2>1, QuietStep, UploadCarries, ReserveAttachments, FinalizeAttachments
  <1>3. CASE ReadNext
    <2>1. UNCHANGED <<ref, sess>>
      BY <1>3 DEF ReadNext, AdmitRead, EnterRead, RecheckRead, OpenRead, EndRead, RdStep, db
    <2>2. RowsCarried /\ SessionsAge
      BY <2>1 DEF RowsCarried, SessionsAge
    <2> QED BY <2>2, QuietStep
  <1>4. CASE PurgeNext
    BY <1>4, QuietStep, PurgeCarries DEF PurgeNext
  <1>5. CASE MishapNext
    <2>1. UNCHANGED <<ref, sess>>
      BY <1>5 DEF MishapNext, Crash, PurgeFails, UncertainUploadClose, UncertainReadClose,
         SelfFenceFails, db
    <2>2. RowsCarried /\ SessionsAge
      BY <2>1 DEF RowsCarried, SessionsAge
    <2> QED BY <2>2, QuietStep
  <1> QED BY <1>1, <1>2, <1>3, <1>4, <1>5 DEF Next

----------------------------------------------------------------------------
(* Tombstones *)

\* What no step may undo, for artifact rows A that follow the current ones.
Entombed(A) ==
  \A a \in Artifacts :
    /\ IsArtRow(art, a) /\ art[a].doc = None => A[a].doc = None /\ A[a].key \in {art[a].key, None}
    /\ art[a].state = "PURGING" => A[a].state \in {"PURGING", "PURGED", "DELETED"}
    /\ art[a].state = "DELETED" => A[a].state = "DELETED"

Backed(A, C) == \A a \in Artifacts : A[a].doc # None \/ A[a].ocr \/ a \in C => IsArtRow(A, a)

LEMMA RetireRow ==
  ASSUME NEW row \in Art
  PROVE  /\ Retire(row).doc = None /\ Retire(row).ocr = FALSE /\ Retire(row).key = row.key
         /\ Retire(row).state \in {"PURGED", "PURGING"}
  BY DEF Retire, Art

LEMMA GoneRow == GoneArt.state = "DELETED" /\ GoneArt.doc = None /\ GoneArt.key = None /\ GoneArt.ocr = FALSE
  BY DEF GoneArt, NoRow

\* The triggers retire or delete rows that exist and that no claim refers to.
LEMMA CommitArtifacts ==
  ASSUME TypeOK, NEW R, NEW A \in [Artifacts -> Art], NEW C \in SUBSET Artifacts,
         NEW F \in SUBSET Artifacts, Commit(R, A, C, F),
         Entombed(A), Backed(A, C), F \cap C = {}, \A a \in F : IsArtRow(art, a)
  PROVE  RowsBacked' /\ Entombed(art')
  <1>1. ASSUME NEW a \in Artifacts
        PROVE  \/ art'[a] = A[a]
               \/ /\ a \notin C /\ art[a].state # "DELETED"
                  /\ \/ art'[a] = Retire(A[a])
                     \/ art'[a] = GoneArt
    <2>1. \/ art'[a] = A[a]
          \/ /\ a \in F \cup Unlinked(R, A, C)
             /\ \/ art'[a] = Retire(A[a])
                \/ art'[a] = GoneArt
      BY DEF Commit, Finalized
    <2>2. a \in F => a \notin C /\ art[a].state # "DELETED"
      BY DEF IsArtRow
    <2>3. a \in Unlinked(R, A, C) => a \notin C /\ art[a].state # "DELETED"
      BY DEF Unlinked, IsArtRow, Entombed
    <2> QED BY <2>1, <2>2, <2>3
  <1>2. claimed' = C
    BY DEF Commit
  <1>3. ASSUME NEW a \in Artifacts
        PROVE  A[a] \in Art
    OBVIOUS
  <1>4. RowsBacked'
    <2> SUFFICES ASSUME NEW a \in Artifacts, (art[a].doc # None \/ art[a].ocr \/ a \in claimed)'
                 PROVE  IsArtRow(art', a)
      BY DEF RowsBacked, IsArtRow
    <2>1. CASE art'[a] = A[a]
      BY <1>2, <2>1 DEF Backed, IsArtRow
    <2>2. CASE a \notin C /\ art'[a] = Retire(A[a])
      BY <2>2, <1>3, RetireRow DEF IsArtRow
    <2>3. CASE a \notin C /\ art'[a] = GoneArt
      BY <1>2, <2>3, GoneRow
    <2> QED BY <1>1, <2>1, <2>2, <2>3
  <1>5. Entombed(art')
    <2> SUFFICES ASSUME NEW a \in Artifacts
                 PROVE  /\ IsArtRow(art, a) /\ art[a].doc = None =>
                             art'[a].doc = None /\ art'[a].key \in {art[a].key, None}
                        /\ art[a].state = "PURGING" => art'[a].state \in {"PURGING", "PURGED", "DELETED"}
                        /\ art[a].state = "DELETED" => art'[a].state = "DELETED"
      BY DEF Entombed
    <2>1. CASE art'[a] = A[a]
      BY <2>1 DEF Entombed
    <2>2. CASE art[a].state # "DELETED" /\ art'[a] = Retire(A[a])
      <3>1. art'[a].doc = None /\ art'[a].key = A[a].key /\ art'[a].state \in {"PURGED", "PURGING"}
        BY <2>2, <1>3, RetireRow
      <3>2. IsArtRow(art, a) /\ art[a].doc = None => A[a].key \in {art[a].key, None}
        BY DEF Entombed
      <3> QED BY <2>2, <3>1, <3>2
    <2>3. CASE art[a].state # "DELETED" /\ art'[a] = GoneArt
      BY <2>3, GoneRow
    <2> QED BY <1>1, <2>1, <2>2, <2>3
  <1> QED BY <1>4, <1>5

LEMMA SameArtifacts ==
  ASSUME RowsBacked
  PROVE  /\ Entombed(art) /\ Backed(art, claimed)
         /\ UNCHANGED <<art, claimed>> => RowsBacked' /\ Entombed(art')
  BY DEF RowsBacked, Backed, Entombed, IsArtRow

LEMMA CaptureArtifacts ==
  ASSUME TypeOK, RowsBacked, NEW k \in Keys, Capture(k)
  PROVE  RowsBacked' /\ Entombed(art')
  <1>1. CASE k \in Artifacts
    <2>1. IsArtRow(art, k)
      BY <1>1, VaultAssumption DEF Capture, Due, ArtDue, VaultAssumption
    <2>2. \A a \in Artifacts :
            /\ art'[a].doc = art[a].doc /\ art'[a].key = art[a].key /\ art'[a].ocr = art[a].ocr
            /\ art'[a].state = IF a = k THEN "PURGING" ELSE art[a].state
      BY <1>1 DEF TypeOK, Capture, Art
    <2> QED BY <2>1, <2>2 DEF Capture, RowsBacked, Entombed, IsArtRow
  <1>2. CASE k \notin Artifacts
    BY <1>2, SameArtifacts DEF Capture
  <1> QED BY <1>1, <1>2

LEMMA SessionArtifacts ==
  ASSUME TypeOK, RowsBacked, NEW s \in Sessions,
         \/ OpenSession(s) \/ Confirm(s) \/ Edit(s) \/ Cancel(s) \/ Expire(s) \/ Apply(s)
         \/ RetentionEnds(s)
  PROVE  RowsBacked' /\ Entombed(art')
  <1>1. CASE OpenSession(s) \/ Confirm(s) \/ Edit(s)
    BY <1>1, SameArtifacts DEF OpenSession, Confirm, Edit
  <1>2. CASE Cancel(s) \/ Expire(s)
    <2>1. Commit(Released(ref, s), art, claimed, {})
      BY <1>2 DEF Cancel, Expire
    <2> QED BY <2>1, SameArtifacts, CommitArtifacts DEF TypeOK
  <1>3. CASE Apply(s)
    <2>1. PICK Cl \in SUBSET Claimable(s) : \E R : Commit(R, art, claimed \cup Cl, {})
      BY <1>3 DEF Apply
    <2>2. Cl \subseteq Artifacts /\ \A a \in Cl : IsArtRow(art, a)
      BY <2>1 DEF Claimable, RowsBacked
    <2>3. Backed(art, claimed \cup Cl)
      BY <2>2 DEF Backed, RowsBacked
    <2>4. claimed \cup Cl \in SUBSET Artifacts
      BY <2>2 DEF TypeOK
    <2> QED BY <2>1, <2>3, <2>4, SameArtifacts, CommitArtifacts DEF TypeOK
  <1>4. CASE RetentionEnds(s)
    <2>1. PICK arts \in SUBSET {a \in Artifacts : art[a].ocr} :
            /\ \A a \in arts : art[a].state # "PURGING"
            /\ art' = [a \in Artifacts |-> IF a \in arts
                         THEN [art[a] EXCEPT !.state = "RAW_READY", !.ocr = FALSE] ELSE art[a]]
      BY <1>4 DEF RetentionEnds, Scrubbable
    <2>2. \A a \in arts : IsArtRow(art, a)
      BY <2>1 DEF RowsBacked
    <2>3. \A a \in Artifacts :
            /\ art'[a].doc = art[a].doc /\ art'[a].key = art[a].key
            /\ art'[a].ocr => art[a].ocr
            /\ art'[a].state = IF a \in arts THEN "RAW_READY" ELSE art[a].state
      BY <2>1 DEF TypeOK, Art
    <2>4. UNCHANGED claimed
      BY <1>4 DEF RetentionEnds
    <2> QED BY <2>1, <2>2, <2>3, <2>4 DEF RowsBacked, Entombed, IsArtRow
  <1> QED BY <1>1, <1>2, <1>3, <1>4

LEMMA DeletionArtifacts ==
  ASSUME TypeOK, RowsBacked, NEW a \in Artifacts, DeleteLastClaim(a)
  PROVE  RowsBacked' /\ Entombed(art')
  <1>1. IsArtRow(art, a) /\ Commit(ref, art, claimed \ {a}, {a})
    BY DEF DeleteLastClaim, RowsBacked
  <1>2. Backed(art, claimed \ {a}) /\ {a} \cap (claimed \ {a}) = {}
    BY DEF RowsBacked, Backed
  <1> QED BY <1>1, <1>2, SameArtifacts, CommitArtifacts DEF TypeOK

LEMMA FinalizeArtifacts ==
  ASSUME TypeOK, RowsBacked, NEW r \in Refs, NEW a \in Artifacts,
         FinalizeAdopt(r, a) \/ FinalizeShare(r, a)
  PROVE  RowsBacked' /\ Entombed(art')
  <1>1. CASE FinalizeAdopt(r, a)
    <2> DEFINE row == [state |-> "RAW_READY", doc |-> DocOf[r], key |-> r, ocr |-> FALSE]
               A == [art EXCEPT ![a] = row]
    <2>1. A \in [Artifacts -> Art]
      BY StoredType, ArtUpdate DEF TypeOK
    <2>2. \A x \in Artifacts : A[x] = IF x = a THEN row ELSE art[x]
      BY DEF TypeOK
    <2>3. DocOf[r] # None
      BY VaultAssumption DEF VaultAssumption, Docs
    <2>4. /\ art[a].state \in {"ABSENT", "PURGED"}
          /\ art[a].state = "PURGED" => art[a].doc # None
      BY <1>1, <2>3 DEF FinalizeAdopt, Vacant
    <2>5. Entombed(A)
      BY <2>2, <2>4 DEF Entombed, IsArtRow
    <2>6. Backed(A, claimed)
      BY <2>2 DEF Backed, RowsBacked, IsArtRow
    <2>7. PICK R : Commit(R, A, claimed, {})
      BY <1>1 DEF FinalizeAdopt
    <2> HIDE DEF A
    <2> QED BY <2>1, <2>5, <2>6, <2>7, CommitArtifacts DEF TypeOK
  <1>2. CASE FinalizeShare(r, a)
    <2>1. PICK R : Commit(R, art, claimed, {})
      BY <1>2 DEF FinalizeShare
    <2> QED BY <2>1, SameArtifacts, CommitArtifacts DEF TypeOK
  <1> QED BY <1>1, <1>2

LEMMA UploadArtifacts ==
  ASSUME TypeOK, RowsBacked, NEW r \in Refs,
         \/ Reserve(r) \/ LeaseExpires(r) \/ Claim(r) \/ EnterUpload(r) \/ RecheckUpload(r)
         \/ OpenBlob(r) \/ StreamDone(r) \/ UploadStops(r) \/ SelfFence(r)
         \/ \E a \in Artifacts : FinalizeBlocked(r, a)
         \/ UploadPurges(r) \/ JoinPurge(r) \/ PurgeNotEligible(r) \/ OcrAttempt(r)
  PROVE  RowsBacked' /\ Entombed(art')
  <1>1. CASE UploadPurges(r)
    <2>1. CASE up[r].on \in Keys
      BY <1>1, <2>1, CaptureArtifacts DEF UploadPurges
    <2>2. CASE up[r].on \notin Keys
      BY <1>1, <2>2, SameArtifacts DEF UploadPurges, Capture, Keys
    <2> QED BY <2>1, <2>2
  <1>2. CASE OcrAttempt(r)
    <2>1. \A a \in Artifacts :
            /\ art'[a].doc = art[a].doc /\ art'[a].key = art[a].key /\ art'[a].state = art[a].state
            /\ art'[a].ocr => art[a].ocr \/ art[a].state = "RAW_READY"
      <3>1. PICK b : art' = [art EXCEPT ![ref[r].art].ocr = b]
        BY <1>2 DEF OcrAttempt
      <3>2. art[ref[r].art].state = "RAW_READY"
        BY <1>2 DEF OcrAttempt
      <3> QED BY <3>1, <3>2 DEF TypeOK, Art
    <2> QED BY <1>2, <2>1 DEF OcrAttempt, RowsBacked, Entombed, IsArtRow
  <1>3. CASE ~(UploadPurges(r) \/ OcrAttempt(r))
    <2>1. UNCHANGED <<art, claimed>>
      BY <1>3 DEF Reserve, LeaseExpires, Claim, EnterUpload, RecheckUpload, OpenBlob, StreamDone,
         UploadStops, SelfFence, FinalizeBlocked, JoinPurge, PurgeNotEligible, UpStep, db
    <2> QED BY <2>1, SameArtifacts
  <1> QED BY <1>1, <1>2, <1>3

LEMMA PurgeArtifacts ==
  ASSUME TypeOK, RowsBacked, NEW k \in Keys,
         \/ ReaperPurges(k) \/ Fence(k) \/ Drained(k) \/ DrainTimeout(k)
         \/ Match(k) \/ Rename(k) \/ RemoveTrash(k) \/ Complete(k)
  PROVE  RowsBacked' /\ Entombed(art')
  <1>1. CASE ReaperPurges(k)
    BY <1>1, CaptureArtifacts DEF ReaperPurges
  <1>2. CASE Complete(k)
    <2> DEFINE A == IF k \in Refs THEN art
                    ELSE [art EXCEPT ![k] = [@ EXCEPT !.state = "PURGED", !.key = None]]
    <2>1. \/ UNCHANGED <<art, claimed>>
          \/ Matches(k) /\ \E R : Commit(R, A, claimed, {})
      BY <1>2 DEF Complete
    <2>2. CASE Matches(k) /\ \E R : Commit(R, A, claimed, {})
      <3>1. PICK R : Commit(R, A, claimed, {})
        BY <2>2
      <3>2. k \notin Refs => /\ k \in Artifacts
                            /\ [art[k] EXCEPT !.state = "PURGED", !.key = None] \in Art
        BY PurgedType DEF TypeOK, Keys
      <3>3. A \in [Artifacts -> Art]
        BY <3>2 DEF TypeOK
      <3>4. CASE k \in Refs
        BY <3>1, <3>4, SameArtifacts, CommitArtifacts DEF TypeOK
      <3>5. CASE k \notin Refs
        <4>1. art[k].state = "PURGING" /\ k \in Artifacts
          BY <2>2, <3>2, <3>5 DEF Matches
        <4>2. \A a \in Artifacts :
                /\ A[a].doc = art[a].doc /\ A[a].ocr = art[a].ocr
                /\ A[a].state = IF a = k THEN "PURGED" ELSE art[a].state
                /\ A[a].key = IF a = k THEN None ELSE art[a].key
          BY <3>5 DEF TypeOK, Art
        <4>3. Entombed(A) /\ Backed(A, claimed)
          BY <4>1, <4>2 DEF Entombed, Backed, RowsBacked, IsArtRow
        <4> HIDE DEF A
        <4> QED BY <3>1, <3>3, <4>3, CommitArtifacts DEF TypeOK
      <3> QED BY <3>4, <3>5
    <2> QED BY <2>1, <2>2, SameArtifacts
  <1>3. CASE ~(ReaperPurges(k) \/ Complete(k))
    <2>1. UNCHANGED <<art, claimed>>
      BY <1>3 DEF Fence, Drained, DrainTimeout, Match, Rename, RemoveTrash, db
    <2> QED BY <2>1, SameArtifacts
  <1> QED BY <1>1, <1>2, <1>3

LEMMA NextArtifacts ==
  ASSUME TypeOK, RowsBacked, Next
  PROVE  RowsBacked' /\ Entombed(art')
  <1>1. CASE SessionNext
    BY <1>1, SessionArtifacts, DeletionArtifacts DEF SessionNext
  <1>2. CASE UploadNext
    BY <1>2, UploadArtifacts, FinalizeArtifacts DEF UploadNext
  <1>3. CASE ReadNext
    <2>1. UNCHANGED <<art, claimed>>
      BY <1>3 DEF ReadNext, AdmitRead, EnterRead, RecheckRead, OpenRead, EndRead, RdStep, db
    <2> QED BY <2>1, SameArtifacts
  <1>4. CASE PurgeNext
    BY <1>4, PurgeArtifacts DEF PurgeNext
  <1>5. CASE MishapNext
    <2>1. UNCHANGED <<art, claimed>>
      BY <1>5 DEF MishapNext, Crash, PurgeFails, UncertainUploadClose, UncertainReadClose,
         SelfFenceFails, db
    <2> QED BY <2>1, SameArtifacts
  <1> QED BY <1>1, <1>2, <1>3, <1>4, <1>5 DEF Next

----------------------------------------------------------------------------
(* Types, rows and tombstones: the theorems *)

IInv == TypeOK /\ ProcsBacked /\ Attachments /\ RowsBacked

LEMMA InitInv == Init => IInv
  <1> SUFFICES ASSUME Init PROVE IInv
    OBVIOUS
  <1>1. TypeOK
    BY InitTyped
  <1>2. ProcsBacked
    BY DEF Init, ProcsBacked, ReadHasArtifact, PurgeHasHome, IdleRd, IdlePurge
  <1>3. \A r \in Refs : ref[r].state = "ABSENT"
    BY DEF Init, AbsentRef
  <1>4. Attachments
    BY <1>3 DEF Attachments, AttachedHasArtifact, LiveSessions, SessionHoldsDocumentOnce, Live
  <1>5. RowsBacked
    BY DEF Init, RowsBacked, NoRow
  <1> QED BY <1>1, <1>2, <1>4, <1>5 DEF IInv

LEMMA StepInv == IInv /\ [Next]_vars => IInv'
  <1> SUFFICES ASSUME IInv, [Next]_vars PROVE IInv'
    OBVIOUS
  <1>1. CASE Next
    <2>1. TypeOK' /\ ProcsBacked'
      BY <1>1, NextTyped, NextProcsBacked DEF IInv, Attachments
    <2>2. Attachments' /\ RowsBacked'
      BY <1>1, NextAttachments, NextArtifacts DEF IInv
    <2> QED BY <2>1, <2>2 DEF IInv
  <1>2. CASE UNCHANGED vars
    BY <1>2 DEF vars, db, fs, proc, IInv, TypeOK, ProcsBacked, ReadHasArtifact, PurgeHasHome,
       Attachments, AttachedHasArtifact, LiveSessions, SessionHoldsDocumentOnce, Live,
       RowsBacked, IsArtRow
  <1> QED BY <1>1, <1>2

\* The strengthened invariant of the vault: rows, directories, requests and purges
\* stay in their domains, a purge holds a directory and a download an artifact.
THEOREM Inductive == Spec => []IInv
  BY InitInv, StepInv, PTL DEF Spec

\* Every row, directory, upload, download and purge of the vault stays in its
\* domain, whatever requests, purges and crashes interleave.
THEOREM TypeCorrect == Spec => []TypeOK
  <1>1. IInv => TypeOK
    BY DEF IInv
  <1> QED BY <1>1, Inductive, PTL

\* A session is never attached to the same document twice: not by two uploads that
\* race to finalize, not by a continuation that receives what it already holds.
THEOREM DocumentHeldOnce == Spec => []SessionHoldsDocumentOnce
  <1>1. IInv => SessionHoldsDocumentOnce
    BY DEF IInv, Attachments
  <1> QED BY <1>1, Inductive, PTL

\* A retired artifact never gets its hash or its storage back, a purging one only
\* completes, a deleted row is never used again: the triggers and the statements of
\* finalize, capture, completion, OCR and retention all keep to it.
THEOREM TombstonesStay == Spec => TombstonesAreFinal
  <1>1. IInv /\ [Next]_vars =>
          [\A a \in Artifacts :
             /\ IsArtRow(art, a) /\ art[a].doc = None =>
                  art'[a].doc = None /\ art'[a].key \in {art[a].key, None}
             /\ art[a].state = "PURGING" => art'[a].state \in {"PURGING", "PURGED", "DELETED"}
             /\ art[a].state = "DELETED" => art'[a].state = "DELETED"]_vars
    BY NextArtifacts DEF IInv, Entombed
  <1> QED BY <1>1, Inductive, PTL DEF Spec, TombstonesAreFinal

----------------------------------------------------------------------------
(* Files: rows, directories and descriptors *)

\* Row k answers for the directory of x: the attachment that still has its temporary
\* bytes, or the artifact whose stored original they became.
Owns(k, x) == \/ k = x /\ ref[x].temp
              \/ k \in Artifacts /\ art[k].key = x

\* A reservation owns its directory, and nobody has touched that of a row that is not
\* there yet.
Reservations ==
  \A r \in Refs :
    /\ ref[r].state = "RESERVED" => ref[r].temp /\ ~ref[r].pending
    /\ ref[r].state = "ABSENT" => ~ref[r].temp /\ up[r].pc = "IDLE"

\* No two rows answer for one directory, and an artifact without bytes has no key.
SoleOwners ==
  /\ \A r \in Refs, a \in Artifacts : ref[r].state = "ABSENT" \/ ref[r].temp => art[a].key # r
  /\ \A a, b \in Artifacts : art[a].key # None /\ art[a].key = art[b].key => a = b
  /\ \A a \in Artifacts : art[a].key # None => art[a].state \in {"RAW_READY", "PURGING"}

\* What is on disk has an owner; what is in the trash belongs to a purge that is due,
\* and its directory is gone and not being made again.
BytesOwned ==
  /\ \A x \in Refs : disk[x] # "NONE" => \E k \in Keys : Owns(k, x)
  /\ \A k \in Keys, x \in Refs : <<k, x>> \in trash =>
       /\ Owns(k, x) /\ disk[x] = "NONE"
       /\ k \in Refs => ref[k].pending /\ up[k].pc \notin {"CHECKED", "WRITING"}
       /\ k \in Artifacts => art[k].state = "PURGING"

\* A stream writes into a directory its attachment owns; once stored, the bytes stay
\* whole for as long as the reservation stands.
Streams ==
  \A r \in Refs :
    /\ up[r].pc \in {"CHECKED", "WRITING"} => ref[r].temp
    /\ up[r].pc = "WRITING" => disk[r] = "PARTIAL"
    /\ up[r].pc \in {"STORED", "BLOCKED", "WAITING"} /\ ref[r].state = "RESERVED" => disk[r] = "WHOLE"

\* A download that passed its recheck reads the artifact's own original.
Reads ==
  \A r \in Refs : rd[r].pc \in {"CHECKED", "READING"} =>
    /\ rd[r].key # None
    /\ art[rd[r].art].key = rd[r].key
    /\ disk[rd[r].key] = "WHOLE"


\* A purge erases only what its row still says it may, after the last descriptor.
PastDrain == {"DRAINED", "MATCHED", "RENAMED", "ERASED"}
Purges ==
  \A k \in Keys :
    /\ purge[k].pc # "IDLE" => Matches(k) /\ (k \in Refs => purge[k].home = k)
    /\ purge[k].pc \in PastDrain =>
         /\ k \in Refs => up[k].pc \notin UpEntered
         /\ \A r \in Refs : ~(rd[r].pc \in RdEntered /\ rd[r].art = k)
    /\ purge[k].pc \in {"RENAMED", "ERASED"} => disk[purge[k].home] = "NONE"
    /\ purge[k].pc = "ERASED" => <<k, purge[k].home>> \notin trash

FInv == Reservations /\ SoleOwners /\ BytesOwned /\ Streams /\ Reads /\ StoredIsWhole /\ Purges

\* What most steps do to the rows of attachments: nobody gains or loses temporary
\* bytes, a purge that is due stays due, nothing is reserved or attached.
RefsQuiet ==
  \A r \in Refs :
    /\ ref'[r].temp = ref[r].temp
    /\ ref[r].temp /\ ref[r].pending => ref'[r].pending
    /\ ref'[r].state = "RESERVED" => ref[r].state = "RESERVED" /\ ref'[r].pending = ref[r].pending
    /\ ref'[r].state = "ABSENT" => ref[r].state = "ABSENT"
    /\ ref'[r].state = "ATTACHED" => ref[r].state = "ATTACHED" /\ ref'[r].art = ref[r].art

\* And to those of artifacts: storage keeps its owner, and is not brought back from
\* a purge.
ArtsQuiet ==
  \A a \in Artifacts :
    /\ art'[a].key = art[a].key
    /\ art[a].key # None =>
         /\ art'[a].state \in {"RAW_READY", "PURGING"}
         /\ art'[a].state = "RAW_READY" => art[a].state = "RAW_READY"

\* Uploads: only a standing reservation is rechecked, nothing enters behind a fence.
UpsQuiet ==
  \A r \in Refs :
    /\ ref[r].state = "ABSENT" /\ up[r].pc = "IDLE" => up'[r].pc = "IDLE"
    /\ up'[r].pc \in UpEntered => up[r].pc \in UpEntered \/ ~Fenced(r)
    /\ up'[r].pc \in {"CHECKED", "WRITING"} =>
         up[r].pc \in {"CHECKED", "WRITING"} \/ ref[r].state = "RESERVED"
    /\ up'[r].pc = "WRITING" => up[r].pc = "WRITING"
    /\ up'[r].pc \in {"STORED", "BLOCKED", "WAITING"} => up[r].pc \in {"STORED", "BLOCKED", "WAITING"}

\* Downloads: only the present original is rechecked, nothing enters behind a fence.
RdsQuiet ==
  \A r \in Refs :
    /\ rd'[r].pc \in RdEntered =>
         \/ rd[r].pc \in RdEntered /\ rd'[r].art = rd[r].art
         \/ ~Fenced(rd'[r].art)
    /\ rd'[r].pc \in {"CHECKED", "READING"} =>
         \/ rd[r].pc \in {"CHECKED", "READING"} /\ rd'[r].art = rd[r].art /\ rd'[r].key = rd[r].key
         \/ /\ rd'[r].key # None /\ art[rd'[r].art].key = rd'[r].key
            /\ disk[rd'[r].key] = "WHOLE"

\* Purges: one that starts matches its row, one that drains has no descriptor left.
PurgesQuiet ==
  \A k \in Keys :
    /\ purge'[k].pc # "IDLE" =>
         \/ purge[k].pc # "IDLE" /\ purge'[k].home = purge[k].home
         \/ Matches(k)' /\ (k \in Refs => purge'[k].home = k)
    /\ purge'[k].pc \in PastDrain =>
         purge'[k].home = purge[k].home /\ Fenced(k) /\ (purge[k].pc \in PastDrain \/ ~Entered(k))
    /\ purge'[k].pc \in {"RENAMED", "ERASED"} => purge[k].pc \in {"RENAMED", "ERASED"}
    /\ purge'[k].pc = "ERASED" => purge[k].pc = "ERASED"

RowsQuiet == RefsQuiet /\ ArtsQuiet
ProcsQuiet == UpsQuiet /\ RdsQuiet /\ PurgesQuiet

LEMMA QuietReservations ==
  ASSUME FInv, RefsQuiet, UpsQuiet
  PROVE  Reservations'
  BY DEF FInv, Reservations, RefsQuiet, UpsQuiet

LEMMA QuietOwners ==
  ASSUME FInv, RowsQuiet
  PROVE  SoleOwners'
  BY DEF FInv, SoleOwners, RowsQuiet, RefsQuiet, ArtsQuiet

LEMMA QuietOwns ==
  ASSUME RowsQuiet
  PROVE  \A k \in Keys, x \in Refs : Owns(k, x) => Owns(k, x)'
  BY DEF RowsQuiet, RefsQuiet, ArtsQuiet, Owns

LEMMA QuietBytes ==
  ASSUME IInv, FInv, RowsQuiet, UpsQuiet, UNCHANGED fs
  PROVE  BytesOwned'
  <1>1. \A x \in Refs : disk'[x] # "NONE" => \E k \in Keys : Owns(k, x)'
    BY QuietOwns DEF FInv, BytesOwned, fs
  <1>2. ASSUME NEW k \in Keys, NEW x \in Refs, <<k, x>> \in trash'
        PROVE  /\ Owns(k, x)' /\ disk'[x] = "NONE"
               /\ k \in Refs => ref'[k].pending /\ up'[k].pc \notin {"CHECKED", "WRITING"}
               /\ k \in Artifacts => art'[k].state = "PURGING"
    <2>1. /\ Owns(k, x) /\ disk[x] = "NONE"
          /\ k \in Refs => ref[k].pending /\ up[k].pc \notin {"CHECKED", "WRITING"}
          /\ k \in Artifacts => art[k].state = "PURGING"
      BY <1>2 DEF FInv, BytesOwned, fs
    <2>2. Owns(k, x)' /\ disk'[x] = "NONE"
      BY <2>1, QuietOwns DEF fs
    <2>3. CASE k \in Refs
      <3>1. k \notin Artifacts /\ k = x /\ ref[k].temp /\ ref[k].pending
        BY <2>1, <2>3, VaultAssumption DEF VaultAssumption, Owns
      <3>2. ref[k].state # "RESERVED"
        BY <2>3, <3>1 DEF FInv, Reservations
      <3> QED BY <2>1, <2>2, <2>3, <3>1, <3>2 DEF RowsQuiet, RefsQuiet, UpsQuiet
    <2>4. CASE k \in Artifacts
      <3>1. k \notin Refs /\ art[k].key = x /\ x # None
        BY <2>1, <2>4, VaultAssumption DEF VaultAssumption, Owns, Keys
      <3> QED BY <2>1, <2>2, <2>4, <3>1 DEF RowsQuiet, ArtsQuiet
    <2> QED BY <2>3, <2>4 DEF Keys
  <1> QED BY <1>1, <1>2 DEF BytesOwned

LEMMA QuietStreams ==
  ASSUME FInv, RefsQuiet, UpsQuiet, UNCHANGED fs
  PROVE  Streams'
  BY DEF FInv, Streams, Reservations, RefsQuiet, UpsQuiet, fs

LEMMA QuietReads ==
  ASSUME IInv', FInv, ArtsQuiet, RdsQuiet, UNCHANGED fs
  PROVE  Reads'
  <1> SUFFICES ASSUME NEW r \in Refs, rd'[r].pc \in {"CHECKED", "READING"}
               PROVE  /\ rd'[r].key # None
                      /\ art'[rd'[r].art].key = rd'[r].key
                      /\ disk'[rd'[r].key] = "WHOLE"
    BY DEF Reads
  <1>1. /\ rd'[r].key # None /\ art[rd'[r].art].key = rd'[r].key
        /\ disk[rd'[r].key] = "WHOLE"
    BY DEF FInv, Reads, RdsQuiet
  <1>2. rd'[r].art \in Artifacts
    BY DEF IInv, ProcsBacked, ReadHasArtifact
  <1> QED BY <1>1, <1>2 DEF ArtsQuiet, fs

LEMMA QuietStored ==
  ASSUME FInv, RowsQuiet, UNCHANGED fs
  PROVE  StoredIsWhole'
  BY DEF FInv, StoredIsWhole, RowsQuiet, RefsQuiet, ArtsQuiet, Attached, fs

LEMMA QuietPurges ==
  ASSUME IInv, FInv, RowsQuiet, ProcsQuiet, UNCHANGED fs
  PROVE  Purges'
  <1> SUFFICES ASSUME NEW k \in Keys
               PROVE  /\ purge'[k].pc # "IDLE" => Matches(k)' /\ (k \in Refs => purge'[k].home = k)
                      /\ purge'[k].pc \in PastDrain =>
                           /\ k \in Refs => up'[k].pc \notin UpEntered
                           /\ \A r \in Refs : ~(rd'[r].pc \in RdEntered /\ rd'[r].art = k)
                      /\ purge'[k].pc \in {"RENAMED", "ERASED"} => disk'[purge'[k].home] = "NONE"
                      /\ purge'[k].pc = "ERASED" => <<k, purge'[k].home>> \notin trash'
    BY DEF Purges
  <1>1. purge'[k].pc # "IDLE" => Matches(k)' /\ (k \in Refs => purge'[k].home = k)
    <2> SUFFICES ASSUME purge[k].pc # "IDLE", purge'[k].home = purge[k].home
                 PROVE  Matches(k)' /\ (k \in Refs => purge'[k].home = k)
      BY DEF ProcsQuiet, PurgesQuiet
    <2>1. Matches(k) /\ (k \in Refs => purge[k].home = k)
      BY DEF FInv, Purges
    <2>2. CASE k \in Refs
      BY <2>1, <2>2 DEF Matches, RowsQuiet, RefsQuiet
    <2>3. CASE k \notin Refs
      <3>1. k \in Artifacts /\ purge[k].home \in Refs /\ purge[k].home # None
        BY <2>3, VaultAssumption DEF VaultAssumption, Keys, IInv, ProcsBacked, PurgeHasHome
      <3> QED BY <2>1, <2>3, <3>1 DEF Matches, Attached, RowsQuiet, RefsQuiet, ArtsQuiet
    <2> QED BY <2>2, <2>3
  <1>2. ASSUME purge'[k].pc \in PastDrain
        PROVE  /\ k \in Refs => up'[k].pc \notin UpEntered
               /\ \A r \in Refs : ~(rd'[r].pc \in RdEntered /\ rd'[r].art = k)
    <2>1. /\ Fenced(k)
          /\ k \in Refs => up[k].pc \notin UpEntered
          /\ \A r \in Refs : ~(rd[r].pc \in RdEntered /\ rd[r].art = k)
      BY <1>2 DEF FInv, Purges, ProcsQuiet, PurgesQuiet, Entered
    <2> QED BY <2>1 DEF ProcsQuiet, UpsQuiet, RdsQuiet
  <1>3. /\ purge'[k].pc \in {"RENAMED", "ERASED"} => disk'[purge'[k].home] = "NONE"
        /\ purge'[k].pc = "ERASED" => <<k, purge'[k].home>> \notin trash'
    <2>1. purge'[k].pc \in {"RENAMED", "ERASED"} => purge'[k].home = purge[k].home
      BY DEF ProcsQuiet, PurgesQuiet, PastDrain
    <2> QED BY <2>1 DEF FInv, Purges, ProcsQuiet, PurgesQuiet, fs
  <1> QED BY <1>1, <1>2, <1>3

\* A step that is quiet about rows, files and processes keeps the invariant.
LEMMA QuietFiles ==
  ASSUME IInv, IInv', FInv, RowsQuiet, ProcsQuiet, UNCHANGED fs
  PROVE  FInv'
  BY QuietReservations, QuietOwners, QuietBytes, QuietStreams, QuietReads, QuietStored, QuietPurges
  DEF FInv, RowsQuiet, ProcsQuiet

----------------------------------------------------------------------------
(* Quiet parts of a step *)

LEMMA SameParts ==
  ASSUME FInv
  PROVE  /\ UNCHANGED ref => RefsQuiet
         /\ UNCHANGED art => ArtsQuiet
         /\ UNCHANGED up => UpsQuiet
         /\ UNCHANGED rd => RdsQuiet
         /\ UNCHANGED purge => PurgesQuiet
  <1>1. UNCHANGED ref => RefsQuiet
    BY DEF RefsQuiet
  <1>2. UNCHANGED art => ArtsQuiet
    BY DEF ArtsQuiet, FInv, SoleOwners
  <1>3. UNCHANGED up => UpsQuiet
    BY DEF UpsQuiet
  <1>4. UNCHANGED rd => RdsQuiet
    BY DEF RdsQuiet
  <1>5. UNCHANGED purge => PurgesQuiet
    BY DEF PurgesQuiet, PastDrain, Fenced, Fencing
  <1> QED BY <1>1, <1>2, <1>3, <1>4, <1>5

\* The triggers delete rows without bytes and retire artifacts with their storage.
LEMMA CommitKeeps ==
  ASSUME NEW R \in [Refs -> Ref], NEW A \in [Artifacts -> Art], NEW C, NEW F, Commit(R, A, C, F)
  PROVE  /\ \A r \in Refs :
              \/ ref'[r] = R[r]
              \/ /\ R[r].state = "RELEASED" /\ ~R[r].temp /\ ~R[r].pending
                 /\ ref'[r].state = "DELETED" /\ ~ref'[r].temp /\ ~ref'[r].pending
         /\ \A a \in Artifacts :
              /\ art'[a].key = A[a].key
              /\ \/ art'[a] = A[a]
                 \/ art'[a].state = IF A[a].key = None THEN art'[a].state ELSE "PURGING"
              /\ A[a].key = None => art'[a].state \in {A[a].state, "PURGED", "DELETED"}
  <1>1. ASSUME NEW r \in Refs
        PROVE  \/ ref'[r] = R[r]
               \/ /\ R[r].state = "RELEASED" /\ ~R[r].temp /\ ~R[r].pending
                  /\ ref'[r].state = "DELETED" /\ ~ref'[r].temp /\ ~ref'[r].pending
    <2>1. ref'[r] = R[r] \/ (r \in Swept(R, F \cup Unlinked(R, A, C)) /\ ref'[r] = GoneRef(r))
      BY DEF Commit
    <2>2. GoneRef(r).state = "DELETED" /\ ~GoneRef(r).temp /\ ~GoneRef(r).pending
      BY DEF GoneRef, AbsentRef
    <2> QED BY <2>1, <2>2 DEF Swept
  <1>2. ASSUME NEW a \in Artifacts
        PROVE  /\ art'[a].key = A[a].key
               /\ \/ art'[a] = A[a]
                  \/ art'[a].state = IF A[a].key = None THEN art'[a].state ELSE "PURGING"
               /\ A[a].key = None => art'[a].state \in {A[a].state, "PURGED", "DELETED"}
    <2>1. \/ art'[a] = A[a]
          \/ art'[a] = Retire(A[a])
          \/ art'[a] = GoneArt /\ A[a].key = None
      BY DEF Commit, Finalized
    <2>2. /\ Retire(A[a]).key = A[a].key
          /\ Retire(A[a]).state = IF A[a].key = None THEN "PURGED" ELSE "PURGING"
      BY DEF Retire, Art
    <2> QED BY <2>1, <2>2, GoneRow
  <1> QED BY <1>1, <1>2

LEMMA CommitArts ==
  ASSUME IInv, FInv, NEW R \in [Refs -> Ref], NEW C, NEW F, Commit(R, art, C, F)
  PROVE  ArtsQuiet
  <1>1. art \in [Artifacts -> Art]
    BY DEF IInv, TypeOK
  <1>2. \A a \in Artifacts :
              /\ art'[a].key = art[a].key
              /\ \/ art'[a] = art[a]
                 \/ art'[a].state = IF art[a].key = None THEN art'[a].state ELSE "PURGING"
    BY <1>1, CommitKeeps
  <1> QED BY <1>2 DEF ArtsQuiet, FInv, SoleOwners

\* Rows R that only a release or a handover set apart from the present ones.
ReleasedOnly(R) ==
  \A r \in Refs :
    /\ R[r].temp = ref[r].temp
    /\ ref[r].temp /\ ref[r].pending => R[r].pending
    /\ R[r].state \in {ref[r].state, "RELEASED"} /\ (R[r].state = "ABSENT" => ref[r].state = "ABSENT")
    /\ R[r].state = "RESERVED" => R[r].pending = ref[r].pending
    /\ R[r].state = "ATTACHED" => R[r].art = ref[r].art

LEMMA CommitRefs ==
  ASSUME IInv, IInv', NEW R \in [Refs -> Ref], NEW A \in [Artifacts -> Art], NEW C, NEW F, Commit(R, A, C, F),
         ReleasedOnly(R)
  PROVE  RefsQuiet
  <1>1. \A r \in Refs :
              \/ ref'[r] = R[r]
              \/ /\ R[r].state = "RELEASED" /\ ~R[r].temp /\ ~R[r].pending
                 /\ ref'[r].state = "DELETED" /\ ~ref'[r].temp /\ ~ref'[r].pending
    BY CommitKeeps
  <1>2. \A r \in Refs : ref[r].temp \in BOOLEAN /\ ref'[r].temp \in BOOLEAN
    BY DEF IInv, TypeOK, Ref
  <1> QED BY <1>1, <1>2 DEF ReleasedOnly, RefsQuiet

LEMMA ReleaseKeeps ==
  ASSUME NEW R \in [Refs -> Ref], NEW s, NEW r \in Refs
  PROVE  LET q == Released(R, s)[r]
         IN  \/ q = R[r]
             \/ /\ R[r].state \in {"RESERVED", "ATTACHED", "FAILED"} /\ q.state = "RELEASED"
                /\ q.temp = R[r].temp /\ (R[r].temp \/ R[r].pending => q.pending)
  <1>1. R[r] \in Ref
    OBVIOUS
  <1>2. /\ Release(R[r]).state = "RELEASED" /\ Release(R[r]).temp = R[r].temp
        /\ Release(R[r]).pending = (R[r].pending \/ R[r].temp)
    BY <1>1 DEF Release, Ref
  <1>3. Released(R, s)[r] = R[r]
        \/ (R[r].state \in {"RESERVED", "ATTACHED", "FAILED"} /\ Released(R, s)[r] = Release(R[r]))
    BY DEF Released
  <1> QED BY <1>2, <1>3

LEMMA ClosingQuiet ==
  ASSUME IInv, IInv', FInv, NEW s, NEW C, NEW F, Commit(Released(ref, s), art, C, F)
  PROVE  RowsQuiet
  <1>1. ref \in [Refs -> Ref] /\ art \in [Artifacts -> Art]
    BY DEF IInv, TypeOK
  <1>2. Released(ref, s) \in [Refs -> Ref]
    BY <1>1, ReleasedType
  <1>3. ReleasedOnly(Released(ref, s))
    BY <1>1, ReleaseKeeps DEF ReleasedOnly
  <1> QED BY <1>1, <1>2, <1>3, CommitRefs, CommitArts DEF RowsQuiet

LEMMA ApplyQuiet ==
  ASSUME IInv, IInv', FInv, NEW s \in Sessions, Apply(s)
  PROVE  RowsQuiet
  <1>1. PICK T \in SUBSET Refs, c \in Sessions, C \in SUBSET Artifacts :
          Commit(Released(Moved(T, c), s), art, C, {})
    <2>1. PICK Cl \in SUBSET Claimable(s),
               T \in SUBSET {r \in Refs : ref[r].sess = s /\ ref[r].state \in {"ATTACHED", "FAILED"}},
               c \in {s} \cup {x \in Late : sess[x] = "NEW" /\ Owner[x] = Owner[s]} :
            Commit(Released(Moved(T, c), s), art, claimed \cup Cl, {})
      BY DEF Apply
    <2>2. T \in SUBSET Refs /\ c \in Sessions /\ claimed \cup Cl \in SUBSET Artifacts
      BY VaultAssumption DEF VaultAssumption, Claimable, IInv, TypeOK
    <2> QED BY <2>1, <2>2
  <1>2. ref \in [Refs -> Ref] /\ art \in [Artifacts -> Art]
    BY DEF IInv, TypeOK
  <1>3. Moved(T, c) \in [Refs -> Ref] /\ Released(Moved(T, c), s) \in [Refs -> Ref]
    BY <1>2, MovedType, ReleasedType
  <1>4. \A r \in Refs :
          /\ Moved(T, c)[r].state = ref[r].state /\ Moved(T, c)[r].art = ref[r].art
          /\ Moved(T, c)[r].temp = ref[r].temp /\ Moved(T, c)[r].pending = ref[r].pending
    BY <1>2 DEF Moved, Ref
  <1>5. ReleasedOnly(Released(Moved(T, c), s))
    <2> SUFFICES ASSUME NEW r \in Refs
                 PROVE  LET q == Released(Moved(T, c), s)[r]
                        IN  /\ q.temp = ref[r].temp
                            /\ ref[r].temp /\ ref[r].pending => q.pending
                            /\ q.state \in {ref[r].state, "RELEASED"}
                            /\ q.state = "ABSENT" => ref[r].state = "ABSENT"
                            /\ q.state = "RESERVED" => q.pending = ref[r].pending
                            /\ q.state = "ATTACHED" => q.art = ref[r].art
      BY DEF ReleasedOnly
    <2> DEFINE q == Released(Moved(T, c), s)[r]
               m == Moved(T, c)[r]
    <2>1. \/ q = m
          \/ /\ m.state \in {"RESERVED", "ATTACHED", "FAILED"} /\ q.state = "RELEASED"
             /\ q.temp = m.temp /\ (m.temp \/ m.pending => q.pending)
      BY <1>3, ReleaseKeeps
    <2>2. m.state = ref[r].state /\ m.art = ref[r].art /\ m.temp = ref[r].temp /\ m.pending = ref[r].pending
      BY <1>4
    <2> HIDE DEF q, m
    <2>3. /\ q.temp = ref[r].temp
          /\ ref[r].temp /\ ref[r].pending => q.pending
          /\ q.state \in {ref[r].state, "RELEASED"}
          /\ q.state = "ABSENT" => ref[r].state = "ABSENT"
          /\ q.state = "RESERVED" => q.pending = ref[r].pending
          /\ q.state = "ATTACHED" => q.art = ref[r].art
      BY <2>1, <2>2
    <2> QED BY <2>3 DEF q
  <1> QED BY <1>1, <1>2, <1>3, <1>5, CommitRefs, CommitArts DEF RowsQuiet

LEMMA RetentionQuiet ==
  ASSUME IInv, FInv, NEW s \in Sessions, RetentionEnds(s)
  PROVE  RowsQuiet
  <1>1. PICK arts \in SUBSET {a \in Artifacts : art[a].ocr} :
          /\ \A a \in arts : art[a].state # "PURGING"
          /\ art' = [a \in Artifacts |-> IF a \in arts
                       THEN [art[a] EXCEPT !.state = "RAW_READY", !.ocr = FALSE] ELSE art[a]]
    BY DEF RetentionEnds, Scrubbable
  <1>2. \A a \in Artifacts :
          /\ art'[a].key = art[a].key
          /\ art'[a].state = IF a \in arts THEN "RAW_READY" ELSE art[a].state
    BY <1>1 DEF IInv, TypeOK, Art
  <1>3. ArtsQuiet
    BY <1>1, <1>2 DEF ArtsQuiet, FInv, SoleOwners
  <1> QED BY <1>3, SameParts DEF RetentionEnds, RowsQuiet

\* Every session operation is quiet.
LEMMA SessionQuiet ==
  ASSUME IInv, IInv', FInv, SessionNext
  PROVE  RowsQuiet /\ ProcsQuiet /\ UNCHANGED fs
  <1>1. UNCHANGED <<fs, proc>>
    BY SessionRows, DeleteLastClaimRows DEF SessionNext, IInv
  <1>2. ProcsQuiet
    BY <1>1, SameParts DEF proc, ProcsQuiet
  <1>3. CASE \E s \in Sessions : OpenSession(s) \/ Confirm(s) \/ Edit(s)
    BY <1>1, <1>2, <1>3, SameParts DEF OpenSession, Confirm, Edit, RowsQuiet
  <1>4. CASE \E s \in Sessions : Cancel(s) \/ Expire(s)
    BY <1>1, <1>2, <1>4, ClosingQuiet DEF Cancel, Expire
  <1>5. CASE \E s \in Sessions : Apply(s) \/ RetentionEnds(s)
    BY <1>1, <1>2, <1>5, ApplyQuiet, RetentionQuiet
  <1>6. CASE \E a \in Artifacts : DeleteLastClaim(a)
    <2>1. PICK a \in Artifacts : Commit(ref, art, claimed \ {a}, {a})
      BY <1>6 DEF DeleteLastClaim
    <2>2. ref \in [Refs -> Ref] /\ art \in [Artifacts -> Art]
      BY DEF IInv, TypeOK
    <2>3. ReleasedOnly(ref)
      BY DEF ReleasedOnly
    <2>4. RowsQuiet
      BY <2>1, <2>2, <2>3, CommitRefs, CommitArts DEF RowsQuiet
    <2> QED BY <1>1, <1>2, <2>4
  <1> QED BY <1>3, <1>4, <1>5, <1>6 DEF SessionNext

LEMMA FailedKeeps ==
  ASSUME NEW row \in Ref
  PROVE  /\ Failed(row).state = "FAILED" /\ Failed(row).pending /\ Failed(row).temp = row.temp
  BY DEF Failed, Ref

\* A purge that ends answers the uploads that wait for it.
LEMMA EndingQuiet ==
  ASSUME FInv, IInv, NEW k, NEW ok, PurgeEnds(k, ok)
  PROVE  UpsQuiet /\ PurgesQuiet
  <1>1. \A r \in Refs : \/ up'[r] = up[r]
                        \/ up[r].pc = "WAITING" /\ up'[r].pc \in {"STORED", "FAILING"}
    <2>1. \A u \in Upload : Resume(u, ok).pc \in {"STORED", "FAILING"}
      BY DEF Resume, Upload
    <2>2. \A r \in Refs : up[r] \in Upload
      BY DEF IInv, TypeOK
    <2> QED BY <2>1, <2>2 DEF PurgeEnds
  <1>2. UpsQuiet
    BY <1>1 DEF UpsQuiet, UpEntered
  <1>3. \A j \in Keys : purge'[j] = purge[j] \/ purge'[j].pc = "IDLE"
    BY DEF PurgeEnds, IdlePurge, IInv, TypeOK
  <1>4. PurgesQuiet
    BY <1>3 DEF PurgesQuiet, PastDrain, Fenced, Fencing
  <1> QED BY <1>2, <1>4

LEMMA CaptureQuiet ==
  ASSUME IInv, IInv', FInv, NEW k \in Keys, Capture(k)
  PROVE  RowsQuiet /\ PurgesQuiet
  <1>1. \A r \in Refs :
          \/ ref'[r] = ref[r] /\ ~(r = k /\ ref[r].state = "RESERVED")
          \/ r = k /\ ref[r].state = "RESERVED" /\ ref'[r].state = "FAILED" /\ ref'[r].pending
             /\ ref'[r].temp = ref[r].temp
    <2>1. \A r \in Refs : ref[r] \in Ref
      BY DEF IInv, TypeOK
    <2>2. ref' = IF k \in Refs /\ ref[k].state = "RESERVED"
                 THEN [ref EXCEPT ![k] = Failed(ref[k])] ELSE ref
      BY DEF Capture
    <2> QED BY <2>1, <2>2, FailedKeeps DEF IInv, TypeOK
  <1>2. RefsQuiet
    BY <1>1 DEF RefsQuiet
  <1>3. \A a \in Artifacts :
          art'[a].key = art[a].key /\ art'[a].state = IF a = k THEN "PURGING" ELSE art[a].state
    BY DEF Capture, IInv, TypeOK, Art
  <1>4. ArtsQuiet
    BY <1>3 DEF ArtsQuiet, FInv, SoleOwners
  <1>5. \A j \in Keys : purge'[j] = IF j = k THEN [pc |-> "CAPTURED", home |-> Home(k)] ELSE purge[j]
    BY DEF Capture, IInv, TypeOK
  <1>6. Matches(k)' /\ (k \in Refs => Home(k) = k)
    <2>1. CASE k \in Refs
      <3>1. ref[k].temp /\ (ref[k].pending \/ ref[k].state = "RESERVED")
        BY <2>1 DEF Capture, Due, RefDue
      <3> QED BY <2>1, <3>1, <1>1 DEF Matches, Home
    <2>2. CASE k \notin Refs
      <3>1. k \in Artifacts /\ Attached(ref, k) = {} /\ ref' = ref /\ Home(k) = art[k].key
        BY <2>2 DEF Keys, Capture, Due, ArtDue, Home
      <3>2. purge'[k].home = art'[k].key /\ art'[k].state = "PURGING" /\ Attached(ref, k)' = {}
        BY <3>1, <1>3, <1>5 DEF Attached
      <3> QED BY <2>2, <3>2 DEF Matches
    <2> QED BY <2>1, <2>2
  <1>7. PurgesQuiet
    <2>1. \A j \in Keys : \/ purge'[j] = purge[j]
                          \/ j = k /\ purge'[j].pc = "CAPTURED" /\ purge'[j].home = Home(k)
      BY <1>5
    <2> QED BY <2>1, <1>6 DEF PurgesQuiet, PastDrain, Fenced, Fencing
  <1> QED BY <1>2, <1>4, <1>7 DEF RowsQuiet

\* The steps of an upload that touch no file, and settle nothing.
LEMMA UploadQuiet ==
  ASSUME IInv, IInv', FInv, NEW r \in Refs,
         \/ LeaseExpires(r) \/ Claim(r) \/ EnterUpload(r) \/ RecheckUpload(r)
         \/ UploadStops(r) \/ SelfFence(r)
         \/ \E a \in Artifacts : FinalizeBlocked(r, a)
         \/ UploadPurges(r) \/ JoinPurge(r) \/ PurgeNotEligible(r) \/ OcrAttempt(r)
  PROVE  RowsQuiet /\ ProcsQuiet /\ UNCHANGED fs
  <1> USE SameParts DEF RowsQuiet, ProcsQuiet
  <1>1. /\ ref \in [Refs -> Ref] /\ art \in [Artifacts -> Art] /\ up \in [Refs -> Upload]
        /\ \A q \in Refs : ref[q] \in Ref /\ up[q] \in Upload
    BY DEF IInv, TypeOK
  <1>2. CASE LeaseExpires(r)
    <2>1. ref' = [ref EXCEPT ![r] = [ref[r] EXCEPT !.lease = FALSE]]
      BY <1>2 DEF LeaseExpires
    <2>2. RefsQuiet
      BY <1>1, <2>1 DEF RefsQuiet, Ref
    <2> QED BY <1>2, <2>2 DEF LeaseExpires, proc
  <1>3. CASE Claim(r)
    <2>1. ref' = [ref EXCEPT ![r] = [ref[r] EXCEPT !.gen = 2]]
      BY <1>3 DEF Claim
    <2>2. RefsQuiet
      BY <1>1, <2>1 DEF RefsQuiet, Ref
    <2>3. \A q \in Refs : up'[q] = up[q] \/ (q = r /\ up'[q].pc = "CLAIMED")
      BY <1>1, <1>3 DEF Claim, IdleUp
    <2>4. UpsQuiet
      BY <1>3, <2>3 DEF UpsQuiet, UpEntered, Claim
    <2> QED BY <1>3, <2>2, <2>4 DEF Claim, fs
  <1>4. CASE EnterUpload(r) \/ RecheckUpload(r) \/ UploadStops(r) \/ JoinPurge(r)
    <2>1. UNCHANGED <<ref, art, rd, purge, fs>>
      BY <1>4 DEF EnterUpload, RecheckUpload, UploadStops, JoinPurge, UpStep, db
    <2>2. ASSUME NEW pc, UpGoto(r, pc)
          PROVE  \A q \in Refs : up'[q].pc = IF q = r THEN pc ELSE up[q].pc
      BY <1>1, <2>2 DEF UpGoto, Upload
    <2>3. CASE EnterUpload(r)
      <3>1. \A q \in Refs : up'[q].pc = IF q = r THEN (IF Fenced(r) THEN "FAILING" ELSE "ENTERED")
                                        ELSE up[q].pc
        BY <2>2, <2>3 DEF EnterUpload
      <3>2. up[r].pc = "CLAIMED"
        BY <2>3 DEF EnterUpload
      <3> QED BY <2>1, <3>1, <3>2 DEF UpsQuiet, UpEntered
    <2>4. CASE RecheckUpload(r)
      <3>1. \A q \in Refs : up'[q].pc = IF q = r THEN "CHECKED" ELSE up[q].pc
        BY <2>2, <2>4 DEF RecheckUpload
      <3>2. up[r].pc = "ENTERED" /\ ref[r].state = "RESERVED"
        BY <2>4 DEF RecheckUpload, ValidClaim
      <3> QED BY <2>1, <3>1, <3>2 DEF UpsQuiet, UpEntered
    <2>5. CASE UploadStops(r)
      <3>1. \A q \in Refs : up'[q].pc = IF q = r THEN "FAILING" ELSE up[q].pc
        BY <2>2, <2>5 DEF UploadStops
      <3>2. up[r].pc # "IDLE"
        BY <2>5 DEF UploadStops, UpEntered
      <3> QED BY <2>1, <3>1, <3>2 DEF UpsQuiet, UpEntered
    <2>6. CASE JoinPurge(r)
      <3>1. \A q \in Refs : up'[q].pc = IF q = r THEN "WAITING" ELSE up[q].pc
        BY <2>2, <2>6 DEF JoinPurge
      <3>2. up[r].pc = "BLOCKED"
        BY <2>6 DEF JoinPurge
      <3> QED BY <2>1, <3>1, <3>2 DEF UpsQuiet, UpEntered
    <2> QED BY <1>4, <2>3, <2>4, <2>5, <2>6
  <1>5. CASE SelfFence(r)
    <2>1. \A q \in Refs :
            \/ ref'[q] = ref[q]
            \/ ref[q].state = "RESERVED" /\ ref'[q].state = "FAILED" /\ ref'[q].pending
               /\ ref'[q].temp = ref[q].temp
      <3>1. ref' = IF ref[r].state = "RESERVED" /\ ref[r].gen = 2
                   THEN [ref EXCEPT ![r] = Failed(ref[r])] ELSE ref
        BY <1>5 DEF SelfFence
      <3> QED BY <1>1, <3>1, FailedKeeps
    <2>2. RefsQuiet
      BY <2>1 DEF RefsQuiet
    <2>3. \A q \in Refs : up'[q] = up[q] \/ up'[q].pc = "IDLE"
      BY <1>1, <1>5 DEF SelfFence, IdleUp
    <2>4. UpsQuiet
      BY <2>3 DEF UpsQuiet, UpEntered
    <2> QED BY <1>5, <2>2, <2>4 DEF SelfFence
  <1>6. CASE \E a \in Artifacts : FinalizeBlocked(r, a)
    <2>1. up[r].pc = "STORED" /\ UNCHANGED <<ref, art, rd, purge, fs>>
      BY <1>6 DEF FinalizeBlocked, UpStep, db
    <2>2. \A q \in Refs : up'[q].pc = IF q = r THEN "BLOCKED" ELSE up[q].pc
      <3>1. PICK a \in Artifacts : up' = [up EXCEPT ![r] = [up[r] EXCEPT !.pc = "BLOCKED", !.on = a]]
        BY <1>1, <1>6 DEF FinalizeBlocked
      <3>2. [up[r] EXCEPT !.pc = "BLOCKED", !.on = a].pc = "BLOCKED"
        BY <1>1 DEF Upload
      <3> QED BY <1>1, <3>1, <3>2
    <2> QED BY <2>1, <2>2 DEF UpsQuiet, UpEntered
  <1>7. CASE UploadPurges(r)
    <2>1. CASE up[r].on \in Keys
      <3>1. RowsQuiet /\ PurgesQuiet
        BY <1>7, <2>1, CaptureQuiet DEF UploadPurges
      <3>2. up[r].pc = "BLOCKED" /\ \A q \in Refs : up'[q].pc = IF q = r THEN "WAITING" ELSE up[q].pc
        BY <1>1, <1>7 DEF UploadPurges, UpGoto, Upload
      <3>3. UpsQuiet
        BY <3>2 DEF UpsQuiet, UpEntered
      <3> QED BY <1>7, <3>1, <3>3 DEF UploadPurges, Capture
    <2>2. CASE up[r].on \notin Keys
      <3>1. up[r].on \notin Refs /\ up[r].on \notin Artifacts
        BY <2>2 DEF Keys
      <3>2. UNCHANGED <<ref, art, purge, fs, rd>>
        BY <1>7, <2>2, <3>1 DEF UploadPurges, Capture, IInv, TypeOK
      <3>3. up[r].pc = "BLOCKED" /\ \A q \in Refs : up'[q].pc = IF q = r THEN "WAITING" ELSE up[q].pc
        BY <1>1, <1>7 DEF UploadPurges, UpGoto, Upload
      <3>4. UpsQuiet
        BY <3>3 DEF UpsQuiet, UpEntered
      <3> QED BY <3>2, <3>4
    <2> QED BY <2>1, <2>2
  <1>8. CASE PurgeNotEligible(r)
    <2>1. UNCHANGED <<ref, art, rd, purge, fs>> /\ up[r].pc = "BLOCKED"
      BY <1>8 DEF PurgeNotEligible, UpStep, db
    <2>2. Resume(up[r], TRUE).pc \in {"STORED", "FAILING"}
      BY <1>1 DEF Resume, Upload
    <2>3. \A q \in Refs : up'[q] = up[q] \/ (q = r /\ up'[q].pc \in {"STORED", "FAILING"})
      BY <1>1, <1>8, <2>2 DEF PurgeNotEligible
    <2> QED BY <2>1, <2>3 DEF UpsQuiet, UpEntered
  <1>9. CASE OcrAttempt(r)
    <2>1. PICK b : art' = [art EXCEPT ![ref[r].art].ocr = b]
      BY <1>9 DEF OcrAttempt
    <2>2. \A a \in Artifacts : art'[a].key = art[a].key /\ art'[a].state = art[a].state
      BY <1>1, <2>1 DEF Art
    <2>3. ArtsQuiet
      BY <2>2 DEF ArtsQuiet, FInv, SoleOwners
    <2> QED BY <1>9, <2>3 DEF OcrAttempt, proc
  <1> QED BY <1>2, <1>3, <1>4, <1>5, <1>6, <1>7, <1>8, <1>9

\* Downloads touch no row and no file, and recheck the original they read.
LEMMA ReadQuiet ==
  ASSUME IInv, FInv, ReadNext
  PROVE  RowsQuiet /\ ProcsQuiet /\ UNCHANGED fs
  <1>1. UNCHANGED <<db, fs, up, purge>>
    BY DEF ReadNext, AdmitRead, EnterRead, RecheckRead, OpenRead, EndRead, RdStep
  <1>2. /\ rd \in [Refs -> Download]
        /\ \A q \in Refs : rd[q] \in Download
    BY DEF IInv, TypeOK
  <1>3. RdsQuiet
    <2>1. PICK r \in Refs : AdmitRead(r) \/ EnterRead(r) \/ RecheckRead(r) \/ OpenRead(r) \/ EndRead(r)
      BY DEF ReadNext
    <2>2. CASE AdmitRead(r) \/ EndRead(r)
      <3>1. CASE AdmitRead(r)
        <4> DEFINE row == [IdleRd EXCEPT !.pc = "CAPTURED", !.art = ref[r].art, !.key = art[ref[r].art].key]
        <4>1. row.pc = "CAPTURED"
          BY DEF IdleRd
        <4>2. rd' = [rd EXCEPT ![r] = row]
          BY <3>1 DEF AdmitRead
        <4> HIDE DEF row
        <4>3. \A q \in Refs : rd'[q] = rd[q] \/ rd'[q].pc = "CAPTURED"
          BY <1>2, <4>1, <4>2
        <4> QED BY <4>3 DEF RdsQuiet, RdEntered
      <3>2. CASE EndRead(r)
        <4>1. \A q \in Refs : rd'[q] = rd[q] \/ rd'[q].pc = "IDLE"
          BY <1>2, <3>2 DEF EndRead, IdleRd
        <4> QED BY <4>1 DEF RdsQuiet, RdEntered
      <3> QED BY <2>2, <3>1, <3>2
    <2>3. CASE EnterRead(r)
      <3>1. \A q \in Refs : \/ rd'[q] = rd[q]
                            \/ rd'[q].pc = "IDLE"
                            \/ rd'[q].pc = "ENTERED" /\ ~Fenced(rd[q].art) /\ rd'[q].art = rd[q].art
        BY <1>2, <2>3 DEF EnterRead, IdleRd, Download
      <3> QED BY <3>1 DEF RdsQuiet, RdEntered
    <2>4. CASE RecheckRead(r)
      <3>1. \A q \in Refs : /\ rd'[q].pc = IF q = r THEN "CHECKED" ELSE rd[q].pc
                            /\ rd'[q].art = rd[q].art /\ rd'[q].key = rd[q].key
        BY <1>2, <2>4 DEF RecheckRead, Download
      <3>2. /\ rd[r].pc = "ENTERED" /\ ref[r].state = "ATTACHED" /\ ref[r].art = rd[r].art
            /\ art[rd[r].art].key = rd[r].key /\ art[ref[r].art].key # None
        BY <2>4 DEF RecheckRead, MayRead
      <3>3. rd[r].art \in Artifacts /\ Attached(ref, rd[r].art) # {}
        BY <3>2 DEF IInv, ProcsBacked, ReadHasArtifact, Attached
      <3>4. rd[r].key # None /\ disk[rd[r].key] = "WHOLE"
        BY <3>2, <3>3 DEF FInv, StoredIsWhole
      <3> QED BY <3>1, <3>2, <3>4 DEF RdsQuiet, RdEntered
    <2>5. CASE OpenRead(r)
      <3>1. \A q \in Refs : /\ rd'[q].pc = IF q = r THEN "READING" ELSE rd[q].pc
                            /\ rd'[q].art = rd[q].art /\ rd'[q].key = rd[q].key
        BY <1>2, <2>5 DEF OpenRead, Download
      <3>2. rd[r].pc = "CHECKED"
        BY <2>5 DEF OpenRead
      <3> QED BY <3>1, <3>2 DEF RdsQuiet, RdEntered
    <2> QED BY <2>1, <2>2, <2>3, <2>4, <2>5
  <1> QED BY <1>1, <1>3, SameParts DEF db, RowsQuiet, ProcsQuiet

\* The steps of a purge that touch no file.
LEMMA PurgeQuiet ==
  ASSUME IInv, IInv', FInv, NEW k \in Keys,
         ReaperPurges(k) \/ Fence(k) \/ Drained(k) \/ DrainTimeout(k) \/ Match(k)
  PROVE  RowsQuiet /\ ProcsQuiet /\ UNCHANGED fs
  <1> USE SameParts DEF RowsQuiet, ProcsQuiet
  <1>1. purge \in [Keys -> Purge] /\ \A j \in Keys : purge[j] \in Purge
    BY DEF IInv, TypeOK
  <1>2. ASSUME NEW pc, PurgeGoto(k, pc)
        PROVE  UNCHANGED up /\ \A j \in Keys : /\ purge'[j].home = purge[j].home
                                               /\ purge'[j].pc = IF j = k THEN pc ELSE purge[j].pc
    BY <1>1, <1>2 DEF PurgeGoto, Purge
  <1>3. CASE ReaperPurges(k)
    BY <1>3, CaptureQuiet DEF ReaperPurges, Capture
  <1>4. CASE Fence(k)
    <2>1. \A j \in Keys : /\ purge'[j].home = purge[j].home
                          /\ purge'[j].pc = IF j = k THEN "FENCED" ELSE purge[j].pc
      BY <1>1, <1>4 DEF Fence, Purge
    <2>2. PurgesQuiet
      BY <1>4, <2>1 DEF Fence, PurgesQuiet, PastDrain, Fenced, Fencing
    <2>3. \A r \in Refs : up'[r].pc = up[r].pc
      BY <1>4 DEF Fence, IInv, TypeOK, Upload
    <2>4. UpsQuiet
      BY <2>3 DEF UpsQuiet
    <2>5. \A r \in Refs : rd'[r].pc = rd[r].pc /\ rd'[r].art = rd[r].art /\ rd'[r].key = rd[r].key
      BY <1>4 DEF Fence, IInv, TypeOK, Download
    <2>6. RdsQuiet
      BY <2>5 DEF RdsQuiet
    <2> QED BY <1>4, <2>2, <2>4, <2>6 DEF Fence, db
  <1>5. CASE Drained(k)
    <2>1. /\ UNCHANGED <<db, fs, rd, up>> /\ purge[k].pc = "FENCED" /\ ~Entered(k)
          /\ \A j \in Keys : /\ purge'[j].home = purge[j].home
                             /\ purge'[j].pc = IF j = k THEN "DRAINED" ELSE purge[j].pc
      BY <1>2, <1>5 DEF Drained
    <2>2. PurgesQuiet
      BY <2>1 DEF PurgesQuiet, PastDrain, Fenced, Fencing
    <2> QED BY <2>1, <2>2 DEF db
  <1>6. CASE DrainTimeout(k) \/ (Match(k) /\ ~Matches(k))
    <2>1. UNCHANGED <<db, fs, rd>> /\ \E ok : PurgeEnds(k, ok)
      BY <1>6 DEF DrainTimeout, Match
    <2> QED BY <2>1, EndingQuiet DEF db
  <1>7. CASE Match(k) /\ Matches(k)
    <2>1. /\ UNCHANGED <<db, fs, rd, up>> /\ purge[k].pc = "DRAINED"
          /\ \A j \in Keys : /\ purge'[j].home = purge[j].home
                             /\ purge'[j].pc = IF j = k THEN "MATCHED" ELSE purge[j].pc
      BY <1>2, <1>7 DEF Match
    <2>2. PurgesQuiet
      BY <2>1 DEF PurgesQuiet, PastDrain, Fenced, Fencing
    <2> QED BY <2>1, <2>2 DEF db
  <1> QED BY <1>3, <1>4, <1>5, <1>6, <1>7

\* Mishaps other than the crash touch no row and no file.
LEMMA MishapQuiet ==
  ASSUME IInv, FInv,
         \/ \E k \in Keys : PurgeFails(k)
         \/ \E r \in Refs : UncertainUploadClose(r) \/ UncertainReadClose(r) \/ SelfFenceFails(r)
  PROVE  RowsQuiet /\ ProcsQuiet /\ UNCHANGED fs
  <1> USE SameParts DEF RowsQuiet, ProcsQuiet
  <1>1. UNCHANGED <<db, fs>>
    BY DEF PurgeFails, UncertainUploadClose, UncertainReadClose, SelfFenceFails
  <1>2. CASE \E k \in Keys : PurgeFails(k)
    <2>1. UNCHANGED rd /\ \E k, ok : PurgeEnds(k, ok)
      BY <1>2 DEF PurgeFails
    <2> QED BY <1>1, <2>1, EndingQuiet DEF db
  <1>3. CASE \E r \in Refs : UncertainUploadClose(r) \/ SelfFenceFails(r)
    <2>1. UNCHANGED <<rd, purge>>
      BY <1>3 DEF UncertainUploadClose, SelfFenceFails
    <2>2. \A q \in Refs : up'[q] = up[q] \/ (up[q].pc # "IDLE" /\ up'[q].pc \in {"FAILING", "IDLE"})
      <3>1. PICK r \in Refs : UncertainUploadClose(r) \/ SelfFenceFails(r)
        BY <1>3
      <3>2. up \in [Refs -> Upload] /\ up[r] \in Upload
        BY DEF IInv, TypeOK
      <3>3. [up[r] EXCEPT !.pc = "FAILING"].pc = "FAILING"
        BY <3>2 DEF Upload
      <3>4. CASE UncertainUploadClose(r)
        <4>1. up' = [up EXCEPT ![r] = [up[r] EXCEPT !.pc = "FAILING"]] /\ up[r].pc = "WRITING"
          BY <3>4 DEF UncertainUploadClose, UpGoto
        <4> QED BY <4>1, <3>2, <3>3
      <3>5. CASE SelfFenceFails(r)
        BY <3>2, <3>5 DEF SelfFenceFails, IdleUp
      <3> QED BY <3>1, <3>4, <3>5
    <2>3. UpsQuiet
      BY <2>2 DEF UpsQuiet, UpEntered
    <2> QED BY <1>1, <2>1, <2>3 DEF db
  <1>4. CASE \E r \in Refs : UncertainReadClose(r)
    <2>1. UNCHANGED <<up, purge>>
      BY <1>4 DEF UncertainReadClose
    <2>2. \A q \in Refs : rd'[q] = rd[q] \/ rd'[q].pc = "IDLE"
      BY <1>4 DEF UncertainReadClose, IdleRd, IInv, TypeOK
    <2>3. RdsQuiet
      BY <2>2 DEF RdsQuiet, RdEntered
    <2> QED BY <1>1, <2>1, <2>3 DEF db
  <1> QED BY <1>2, <1>3, <1>4

----------------------------------------------------------------------------
(* The steps that make, move or give up bytes *)

LEMMA ReserveFiles ==
  ASSUME IInv, IInv', FInv, NEW r \in Refs, Reserve(r)
  PROVE  FInv'
  <1>1. /\ UNCHANGED <<art, fs, proc>>
        /\ ref[r].state = "ABSENT" /\ ~ref[r].temp /\ up[r].pc = "IDLE"
        /\ \A a \in Artifacts : art[a].key # r
    BY DEF Reserve, FInv, Reservations, SoleOwners
  <1>2. /\ \A q \in Refs : q # r => ref'[q] = ref[q]
        /\ ref'[r].state = "RESERVED" /\ ref'[r].temp /\ ~ref'[r].pending
    BY DEF Reserve, AbsentRef, IInv, TypeOK
  <1>3. UNCHANGED <<disk, trash, up, rd, purge>>
    BY <1>1 DEF fs, proc
  <1>4. Reservations' /\ SoleOwners' /\ Streams' /\ Reads'
    <2>1. Reservations'
      BY <1>1, <1>2, <1>3 DEF FInv, Reservations
    <2>2. SoleOwners'
      BY <1>1, <1>2 DEF FInv, SoleOwners
    <2>3. Streams'
      BY <1>1, <1>2, <1>3 DEF FInv, Streams
    <2>4. Reads'
      BY <1>1, <1>3 DEF FInv, Reads
    <2> QED BY <2>1, <2>2, <2>3, <2>4
  <1>5. BytesOwned'
    <2>1. \A k \in Keys, x \in Refs : Owns(k, x) => Owns(k, x)' /\ k # r
      BY <1>1, <1>2, VaultAssumption DEF Owns, VaultAssumption
    <2>2. \A x \in Refs : disk'[x] # "NONE" => \E k \in Keys : Owns(k, x)'
      BY <1>3, <2>1 DEF FInv, BytesOwned
    <2>3. ASSUME NEW k \in Keys, NEW x \in Refs, <<k, x>> \in trash'
          PROVE  /\ Owns(k, x)' /\ disk'[x] = "NONE"
                 /\ k \in Refs => ref'[k].pending /\ up'[k].pc \notin {"CHECKED", "WRITING"}
                 /\ k \in Artifacts => art'[k].state = "PURGING"
      <3>1. /\ Owns(k, x) /\ disk[x] = "NONE"
            /\ k \in Refs => ref[k].pending /\ up[k].pc \notin {"CHECKED", "WRITING"}
            /\ k \in Artifacts => art[k].state = "PURGING"
        BY <1>3, <2>3 DEF FInv, BytesOwned
      <3> QED BY <1>1, <1>2, <1>3, <2>1, <3>1
    <2> QED BY <2>2, <2>3 DEF BytesOwned
  <1>6. \A a \in Artifacts : Attached(ref', a) = Attached(ref, a)
    BY <1>1, <1>2 DEF Attached
  <1>7. StoredIsWhole'
    BY <1>1, <1>3, <1>6 DEF FInv, StoredIsWhole, Attached
  <1>8. Purges'
    <2>1. \A k \in Keys : purge[k].pc # "IDLE" => Matches(k)'
      <3> SUFFICES ASSUME NEW k \in Keys, Matches(k) PROVE Matches(k)'
        BY DEF FInv, Purges
      <3>1. k \notin Refs => k \in Artifacts
        BY DEF Keys
      <3> QED BY <1>1, <1>2, <1>3, <1>6, <3>1 DEF Matches, Attached
    <2> QED BY <1>1, <1>3, <2>1 DEF FInv, Purges
  <1> QED BY <1>4, <1>5, <1>7, <1>8 DEF FInv

\* The stream of r makes its file, and completes it.
LEMMA StreamFiles ==
  ASSUME IInv, IInv', FInv, NEW r \in Refs, OpenBlob(r) \/ StreamDone(r)
  PROVE  FInv'
  <1>1. UNCHANGED <<ref, art, rd, purge, trash>>
    BY DEF OpenBlob, StreamDone, UpStep, db
  <1>2. PICK pc \in {"WRITING", "STORED"} :
          /\ \A q \in Refs : up'[q].pc = IF q = r THEN pc ELSE up[q].pc
          /\ \A q \in Refs : q # r => disk'[q] = disk[q]
          /\ disk'[r] = IF pc = "WRITING" THEN "PARTIAL" ELSE "WHOLE"
          /\ up[r].pc \in {"CHECKED", "WRITING"}
          /\ disk[r] \in {"NONE", "PARTIAL"}
    <2>1. up \in [Refs -> Upload] /\ disk \in [Refs -> {"NONE", "PARTIAL", "WHOLE"}]
      BY DEF IInv, TypeOK
    <2>2. CASE OpenBlob(r)
      <3>1. /\ \A q \in Refs : up'[q].pc = IF q = r THEN "WRITING" ELSE up[q].pc
            /\ \A q \in Refs : q # r => disk'[q] = disk[q]
            /\ disk'[r] = "PARTIAL" /\ up[r].pc = "CHECKED" /\ disk[r] = "NONE"
        BY <2>1, <2>2 DEF OpenBlob, UpGoto, Upload
      <3> QED BY <3>1
    <2>3. CASE StreamDone(r)
      <3>1. /\ \A q \in Refs : up'[q].pc = IF q = r THEN "STORED" ELSE up[q].pc
            /\ \A q \in Refs : q # r => disk'[q] = disk[q]
            /\ disk'[r] = "WHOLE" /\ up[r].pc = "WRITING"
        BY <2>1, <2>3 DEF StreamDone, UpGoto, Upload
      <3>2. disk[r] = "PARTIAL"
        BY <3>1 DEF FInv, Streams
      <3> QED BY <3>1, <3>2
    <2> QED BY <2>2, <2>3
  <1>3. ref[r].temp /\ \A a \in Artifacts : art[a].key # r
    BY <1>2 DEF FInv, Streams, SoleOwners
  <1>4. \A k \in Keys : /\ <<k, r>> \notin trash
                        /\ purge[k].pc \in {"RENAMED", "ERASED"} => purge[k].home # r
    <2> SUFFICES ASSUME NEW k \in Keys
                 PROVE  /\ <<k, r>> \notin trash
                        /\ purge[k].pc \in {"RENAMED", "ERASED"} => purge[k].home # r
      OBVIOUS
    <2>1. <<k, r>> \notin trash
      BY <1>2, <1>3 DEF FInv, BytesOwned, Owns, Keys
    <2>2. CASE k \in Refs
      BY <1>2, <2>1, <2>2 DEF FInv, Purges, PastDrain, UpEntered
    <2>3. CASE k \notin Refs
      BY <1>3, <2>1, <2>3 DEF FInv, Purges, Matches, Keys
    <2> QED BY <2>1, <2>2, <2>3
  <1>5. Reservations' /\ SoleOwners'
    BY <1>1, <1>2 DEF FInv, Reservations, SoleOwners
  <1>6. BytesOwned'
    <2>1. \A k \in Keys, x \in Refs : Owns(k, x)' <=> Owns(k, x)
      BY <1>1 DEF Owns
    <2>2. r \in Keys /\ Owns(r, r)
      BY <1>3 DEF Owns, Keys
    <2>3. \A x \in Refs : disk'[x] # "NONE" => \E k \in Keys : Owns(k, x)'
      BY <1>2, <2>1, <2>2 DEF FInv, BytesOwned
    <2>4. ASSUME NEW k \in Keys, NEW x \in Refs, <<k, x>> \in trash'
          PROVE  /\ Owns(k, x)' /\ disk'[x] = "NONE"
                 /\ k \in Refs => ref'[k].pending /\ up'[k].pc \notin {"CHECKED", "WRITING"}
                 /\ k \in Artifacts => art'[k].state = "PURGING"
      <3>1. x # r /\ <<k, x>> \in trash
        BY <1>1, <1>4, <2>4
      <3>2. k # r
        BY <1>2, <3>1 DEF FInv, BytesOwned
      <3>3. /\ Owns(k, x) /\ disk[x] = "NONE"
            /\ k \in Refs => ref[k].pending /\ up[k].pc \notin {"CHECKED", "WRITING"}
            /\ k \in Artifacts => art[k].state = "PURGING"
        BY <3>1 DEF FInv, BytesOwned
      <3> QED BY <1>1, <1>2, <2>1, <3>1, <3>2, <3>3
    <2> QED BY <2>3, <2>4 DEF BytesOwned
  <1>7. Streams'
    BY <1>1, <1>2, <1>3 DEF FInv, Streams
  <1>8. Reads'
    <2>1. \A q \in Refs : rd[q].pc \in {"CHECKED", "READING"} => rd[q].art \in Artifacts /\ rd[q].key \in Refs
      BY DEF FInv, Reads, IInv, TypeOK, Download, ProcsBacked, ReadHasArtifact
    <2> QED BY <1>1, <1>2, <1>3, <2>1 DEF FInv, Reads
  <1>9. StoredIsWhole'
    <2>1. \A a \in Artifacts : art[a].key # None => art[a].key \in Refs /\ art[a].key # r
      BY <1>3 DEF IInv, TypeOK, Art
    <2> QED BY <1>1, <1>2, <2>1 DEF FInv, StoredIsWhole, Attached
  <1>10. Purges'
    <2> SUFFICES ASSUME NEW k \in Keys
                 PROVE  /\ purge'[k].pc # "IDLE" => Matches(k)' /\ (k \in Refs => purge'[k].home = k)
                        /\ purge'[k].pc \in PastDrain =>
                             /\ k \in Refs => up'[k].pc \notin UpEntered
                             /\ \A q \in Refs : ~(rd'[q].pc \in RdEntered /\ rd'[q].art = k)
                        /\ purge'[k].pc \in {"RENAMED", "ERASED"} => disk'[purge'[k].home] = "NONE"
                        /\ purge'[k].pc = "ERASED" => <<k, purge'[k].home>> \notin trash'
      BY DEF Purges
    <2>1. purge'[k].pc # "IDLE" => Matches(k)' /\ (k \in Refs => purge'[k].home = k)
      <3>1. Matches(k)' <=> Matches(k)
        BY <1>1 DEF Matches, Attached
      <3> QED BY <1>1, <3>1 DEF FInv, Purges
    <2>2. ASSUME purge'[k].pc \in PastDrain
          PROVE  /\ k \in Refs => up'[k].pc \notin UpEntered
                 /\ \A q \in Refs : ~(rd'[q].pc \in RdEntered /\ rd'[q].art = k)
      BY <1>1, <1>2, <2>2 DEF FInv, Purges, UpEntered
    <2>3. /\ purge'[k].pc \in {"RENAMED", "ERASED"} => disk'[purge'[k].home] = "NONE"
          /\ purge'[k].pc = "ERASED" => <<k, purge'[k].home>> \notin trash'
      <3>1. purge[k].pc # "IDLE" => purge[k].home \in Refs
        BY DEF IInv, ProcsBacked, PurgeHasHome
      <3> QED BY <1>1, <1>2, <1>4, <3>1 DEF FInv, Purges
    <2> QED BY <2>1, <2>2, <2>3
  <1> QED BY <1>5, <1>6, <1>7, <1>8, <1>9, <1>10 DEF FInv

\* A crash loses processes, and files that were still being written.
LEMMA CrashFiles ==
  ASSUME IInv, IInv', FInv, Crash
  PROVE  FInv'
  <1>1. UNCHANGED <<ref, art, trash>>
    BY DEF Crash, db
  <1>2. \A x \in Refs : /\ disk'[x] \in {disk[x], "NONE"}
                        /\ disk[x] = "WHOLE" => disk'[x] = "WHOLE"
    BY DEF Crash
  <1>3. /\ \A r \in Refs : up'[r].pc = "IDLE" /\ rd'[r].pc = "IDLE"
        /\ \A k \in Keys : purge'[k].pc = "IDLE"
    BY DEF Crash, IdleUp, IdleRd, IdlePurge
  <1>4. Reservations' /\ SoleOwners'
    BY <1>1, <1>3 DEF FInv, Reservations, SoleOwners
  <1>5. BytesOwned'
    <2>1. \A k \in Keys, x \in Refs : Owns(k, x)' <=> Owns(k, x)
      BY <1>1 DEF Owns
    <2>2. \A x \in Refs : disk'[x] # "NONE" => \E k \in Keys : Owns(k, x)'
      BY <1>2, <2>1 DEF FInv, BytesOwned
    <2>3. ASSUME NEW k \in Keys, NEW x \in Refs, <<k, x>> \in trash'
          PROVE  /\ Owns(k, x)' /\ disk'[x] = "NONE"
                 /\ k \in Refs => ref'[k].pending /\ up'[k].pc \notin {"CHECKED", "WRITING"}
                 /\ k \in Artifacts => art'[k].state = "PURGING"
      BY <1>1, <1>2, <1>3, <2>1, <2>3 DEF FInv, BytesOwned
    <2> QED BY <2>2, <2>3 DEF BytesOwned
  <1>6. StoredIsWhole'
    <2>1. \A a \in Artifacts : art[a].key # None => art[a].key \in Refs
      BY DEF IInv, TypeOK, Art
    <2> QED BY <1>1, <1>2, <2>1 DEF FInv, StoredIsWhole, Attached
  <1>7. Streams' /\ Reads' /\ Purges'
    BY <1>3 DEF Streams, Reads, Purges, PastDrain
  <1> QED BY <1>4, <1>5, <1>6, <1>7 DEF FInv

\* What finalize may do to the rows: r is settled, no other attachment gains an
\* artifact or bytes, no artifact but a gains storage.
LEMMA FinalizeRows ==
  ASSUME IInv, IInv', FInv, NEW r \in Refs, NEW a \in Artifacts,
         FinalizeAdopt(r, a) \/ FinalizeShare(r, a)
  PROVE  /\ UNCHANGED <<fs, rd, purge>>
         /\ ref[r].state = "RESERVED" /\ ref[r].temp /\ ~ref[r].pending /\ disk[r] = "WHOLE"
         /\ up'[r].pc = "IDLE"
         /\ \A q \in Refs : q # r => up'[q] = up[q]
         /\ \A q \in Refs : q # r =>
              \/ ref'[q] = ref[q]
              \/ /\ ref[q].state = "RELEASED" /\ ~ref[q].temp /\ ~ref[q].pending
                 /\ ref'[q].state = "DELETED" /\ ~ref'[q].temp /\ ~ref'[q].pending
         /\ ref'[r].state \in {"ATTACHED", "RELEASED", "DELETED"}
         /\ ref'[r].state = "ATTACHED" => ref'[r].art = a
  <1>1. /\ ref \in [Refs -> Ref] /\ art \in [Artifacts -> Art] /\ up \in [Refs -> Upload]
        /\ \A q \in Refs : ref[q] \in Ref
    BY DEF IInv, TypeOK
  <1>2. /\ UNCHANGED <<fs, rd, purge>>
        /\ up[r].pc = "STORED" /\ ref[r].state = "RESERVED" /\ ref[r].temp /\ ~ref[r].pending
        /\ up' = [up EXCEPT ![r] = IdleUp]
    BY DEF FinalizeAdopt, FinalizeShare, ValidClaim
  <1>3. disk[r] = "WHOLE"
    BY <1>2 DEF FInv, Streams
  <1>4. up'[r].pc = "IDLE" /\ \A q \in Refs : q # r => up'[q] = up[q]
    BY <1>1, <1>2 DEF IdleUp
  <1>5. PICK row \in Ref, A \in [Artifacts -> Art] :
          /\ Commit([ref EXCEPT ![r] = row], A, claimed, {})
          /\ row.state \in {"ATTACHED", "RELEASED"}
          /\ row.state = "ATTACHED" => row.art = a
    <2>1. /\ Settled(r, a) \in Ref
          /\ Settled(r, a).state \in {"ATTACHED", "RELEASED"}
          /\ Settled(r, a).state = "ATTACHED" => Settled(r, a).art = a
      <3>1. Settled(r, a).state \in {"ATTACHED", "RELEASED"}
        BY <1>1 DEF Settled, Ref
      <3> QED BY <1>1, <3>1, SettledType, SettledRow DEF IInv
    <2>2. CASE FinalizeAdopt(r, a)
      <3> DEFINE row == [Settled(r, a) EXCEPT !.temp = FALSE]
                 new == [state |-> "RAW_READY", doc |-> DocOf[r], key |-> r, ocr |-> FALSE]
      <3>1. row \in Ref /\ new \in Art
        BY <2>1, KeptType, StoredType
      <3>2. row.state = Settled(r, a).state /\ row.art = Settled(r, a).art
        BY <2>1 DEF Ref
      <3>3. Commit([ref EXCEPT ![r] = row], [art EXCEPT ![a] = new], claimed, {})
        BY <2>2 DEF FinalizeAdopt
      <3> HIDE DEF row, new
      <3>4. [art EXCEPT ![a] = new] \in [Artifacts -> Art]
        BY <1>1, <3>1
      <3> QED BY <2>1, <3>1, <3>2, <3>3, <3>4
    <2>3. CASE FinalizeShare(r, a)
      <3> DEFINE row == [Settled(r, a) EXCEPT !.pending = TRUE]
      <3>1. row \in Ref
        BY <2>1, PendingType
      <3>2. row.state = Settled(r, a).state /\ row.art = Settled(r, a).art
        BY <2>1 DEF Ref
      <3>3. Commit([ref EXCEPT ![r] = row], art, claimed, {})
        BY <2>3 DEF FinalizeShare
      <3> QED BY <1>1, <2>1, <3>1, <3>2, <3>3
    <2> QED BY <2>2, <2>3
  <1>6. [ref EXCEPT ![r] = row] \in [Refs -> Ref]
    BY <1>1
  <1>7. \A q \in Refs :
          \/ ref'[q] = [ref EXCEPT ![r] = row][q]
          \/ /\ [ref EXCEPT ![r] = row][q].state = "RELEASED"
             /\ ~[ref EXCEPT ![r] = row][q].temp /\ ~[ref EXCEPT ![r] = row][q].pending
             /\ ref'[q].state = "DELETED" /\ ~ref'[q].temp /\ ~ref'[q].pending
    BY <1>5, <1>6, CommitKeeps
  <1>8. \A q \in Refs : [ref EXCEPT ![r] = row][q] = IF q = r THEN row ELSE ref[q]
    BY <1>1
  <1> QED BY <1>2, <1>3, <1>4, <1>5, <1>7, <1>8

\* Artifact a takes the bytes of r over: nothing else in the vault changes hands.
LEMMA AdoptRows ==
  ASSUME IInv, IInv', FInv, NEW r \in Refs, NEW a \in Artifacts, FinalizeAdopt(r, a)
  PROVE  /\ art[a].key = None /\ art[a].state # "PURGING"
         /\ ~ref'[r].temp /\ ~ref'[r].pending
         /\ art'[a].key = r /\ art'[a].state \in {"RAW_READY", "PURGING"}
         /\ \A b \in Artifacts : b # a =>
              /\ art'[b].key = art[b].key
              /\ art[b].key # None =>
                   /\ art'[b].state \in {"RAW_READY", "PURGING"}
                   /\ art'[b].state = "RAW_READY" => art[b].state = "RAW_READY"
  <1>1. /\ ref \in [Refs -> Ref] /\ art \in [Artifacts -> Art]
        /\ \A q \in Refs : ref[q] \in Ref
    BY DEF IInv, TypeOK
  <1>2. art[a].key = None /\ art[a].state # "PURGING" /\ ~ref[r].pending
    BY DEF FinalizeAdopt, Vacant, ValidClaim, FInv, SoleOwners
  <1> DEFINE row == [Settled(r, a) EXCEPT !.temp = FALSE]
             new == [state |-> "RAW_READY", doc |-> DocOf[r], key |-> r, ocr |-> FALSE]
             R == [ref EXCEPT ![r] = row]
             A == [art EXCEPT ![a] = new]
  <1>3. Commit(R, A, claimed, {})
    BY DEF FinalizeAdopt
  <1>4. row \in Ref /\ row.state # "ABSENT" /\ ~row.temp /\ ~row.pending
    <2>1. Settled(r, a).pending = ref[r].pending
      BY <1>1 DEF Settled, Ref
    <2>2. Settled(r, a).state # "ABSENT"
      BY <1>1 DEF Settled, Ref
    <2>3. Settled(r, a) \in Ref
      BY <1>1, SettledType
    <2>4. row.pending = ref[r].pending /\ row.temp = FALSE /\ row.state # "ABSENT"
      BY <2>1, <2>2, <2>3 DEF Ref
    <2>5. row \in Ref
      BY <2>3, KeptType
    <2> QED BY <1>2, <2>4, <2>5
  <1>5. new \in Art /\ new.key = r /\ new.state = "RAW_READY" /\ r # None
    BY StoredType, VaultAssumption DEF VaultAssumption, Keys
  <1> HIDE DEF row, new
  <1>6. R \in [Refs -> Ref] /\ A \in [Artifacts -> Art]
    BY <1>1, <1>4, <1>5
  <1>7. R[r] = row /\ A[a] = new /\ \A b \in Artifacts : b # a => A[b] = art[b]
    BY <1>1
  <1> HIDE DEF R, A
  <1>8. ~ref'[r].temp /\ ~ref'[r].pending
    <2>1. \/ ref'[r] = row
          \/ ~ref'[r].temp /\ ~ref'[r].pending
      BY <1>3, <1>6, <1>7, CommitKeeps
    <2> QED BY <1>4, <2>1
  <1>9. \A b \in Artifacts :
              /\ art'[b].key = A[b].key
              /\ \/ art'[b] = A[b]
                 \/ art'[b].state = IF A[b].key = None THEN art'[b].state ELSE "PURGING"
    BY <1>3, <1>6, CommitKeeps
  <1>10. art'[a].key = r /\ art'[a].state \in {"RAW_READY", "PURGING"}
    BY <1>5, <1>7, <1>9
  <1>11. \A b \in Artifacts : b # a =>
              /\ art'[b].key = art[b].key
              /\ art[b].key # None =>
                   /\ art'[b].state \in {"RAW_READY", "PURGING"}
                   /\ art'[b].state = "RAW_READY" => art[b].state = "RAW_READY"
    BY <1>7, <1>9 DEF FInv, SoleOwners
  <1> QED BY <1>2, <1>8, <1>10, <1>11

LEMMA ShareRows ==
  ASSUME IInv, IInv', FInv, NEW r \in Refs, NEW a \in Artifacts, FinalizeShare(r, a)
  PROVE  art[a].state = "RAW_READY" /\ ref'[r].temp /\ ref'[r].pending /\ ArtsQuiet
  <1>1. /\ ref \in [Refs -> Ref] /\ art \in [Artifacts -> Art]
        /\ \A q \in Refs : ref[q] \in Ref
    BY DEF IInv, TypeOK
  <1> DEFINE row == [Settled(r, a) EXCEPT !.pending = TRUE]
             R == [ref EXCEPT ![r] = row]
  <1>2. Commit(R, art, claimed, {}) /\ art[a].state = "RAW_READY" /\ ref[r].temp
    BY DEF FinalizeShare, Shares, ValidClaim
  <1>3. row \in Ref /\ row.temp /\ row.pending
    <2>1. Settled(r, a).temp = ref[r].temp
      BY <1>1 DEF Settled, Ref
    <2>2. Settled(r, a) \in Ref
      BY <1>1, SettledType
    <2>3. row.temp = ref[r].temp /\ row.pending = TRUE
      BY <2>1, <2>2 DEF Ref
    <2>4. row \in Ref
      BY <2>2, PendingType
    <2> QED BY <1>2, <2>3, <2>4
  <1> HIDE DEF row
  <1>4. R \in [Refs -> Ref] /\ R[r] = row
    BY <1>1, <1>3
  <1> HIDE DEF R
  <1>5. ref'[r] = row
    BY <1>1, <1>2, <1>3, <1>4, CommitKeeps
  <1>6. ArtsQuiet
    BY <1>2, <1>4, CommitArts
  <1> QED BY <1>2, <1>3, <1>5, <1>6

\* Finalize: the bytes of r change owner, or are left to the purge of r.
LEMMA FinalizeFiles ==
  ASSUME IInv, IInv', FInv, NEW r \in Refs, NEW a \in Artifacts,
         FinalizeAdopt(r, a) \/ FinalizeShare(r, a)
  PROVE  FInv'
  <1>1. /\ UNCHANGED <<disk, trash, rd, purge>>
        /\ ref[r].state = "RESERVED" /\ ref[r].temp /\ ~ref[r].pending /\ disk[r] = "WHOLE"
        /\ up'[r].pc = "IDLE" /\ \A q \in Refs : q # r => up'[q] = up[q]
    BY FinalizeRows DEF fs
  <1>2. /\ \A q \in Refs : q # r =>
              \/ ref'[q] = ref[q]
              \/ /\ ref[q].state = "RELEASED" /\ ~ref[q].temp /\ ~ref[q].pending
                 /\ ref'[q].state = "DELETED" /\ ~ref'[q].temp /\ ~ref'[q].pending
        /\ ref'[r].state \in {"ATTACHED", "RELEASED", "DELETED"}
        /\ ref'[r].state = "ATTACHED" => ref'[r].art = a
    BY FinalizeRows
  <1>3. \A b \in Artifacts : b # a =>
              /\ art'[b].key = art[b].key
              /\ art[b].key # None =>
                   /\ art'[b].state \in {"RAW_READY", "PURGING"}
                   /\ art'[b].state = "RAW_READY" => art[b].state = "RAW_READY"
    BY AdoptRows, ShareRows DEF ArtsQuiet
  <1>4. \/ /\ art[a].key = None /\ art[a].state # "PURGING"
           /\ ~ref'[r].temp /\ ~ref'[r].pending
           /\ art'[a].key = r /\ art'[a].state \in {"RAW_READY", "PURGING"}
        \/ /\ art[a].state = "RAW_READY" /\ ref'[r].temp /\ ref'[r].pending
           /\ art'[a].key = art[a].key
           /\ art[a].key # None => art'[a].state \in {"RAW_READY", "PURGING"}
    BY AdoptRows, ShareRows DEF ArtsQuiet
  <1>5. r # None /\ None \notin Refs /\ r \in Keys /\ a \in Keys /\ Refs \cap Artifacts = {}
    BY VaultAssumption DEF VaultAssumption, Keys
  <1>6. \A b \in Artifacts : art[b].key # r
    BY <1>1 DEF FInv, SoleOwners
  <1>7. Reservations'
    BY <1>1, <1>2 DEF FInv, Reservations
  <1>8. SoleOwners'
    <2>1. \A q \in Refs, b \in Artifacts : ref'[q].state = "ABSENT" \/ ref'[q].temp => art'[b].key # q
      BY <1>1, <1>2, <1>3, <1>4, <1>6 DEF FInv, SoleOwners
    <2>2. \A b, c \in Artifacts : art'[b].key # None /\ art'[b].key = art'[c].key => b = c
      BY <1>3, <1>4, <1>6 DEF FInv, SoleOwners
    <2>3. \A b \in Artifacts : art'[b].key # None => art'[b].state \in {"RAW_READY", "PURGING"}
      BY <1>3, <1>4 DEF FInv, SoleOwners
    <2> QED BY <2>1, <2>2, <2>3 DEF SoleOwners
  <1>9. BytesOwned'
    <2>1. ASSUME NEW k \in Keys, NEW x \in Refs, x # r, Owns(k, x)
          PROVE  Owns(k, x)'
      BY <1>2, <1>3, <1>4, <1>5, <2>1 DEF Owns
    <2>2. \E k \in Keys : Owns(k, r)'
      BY <1>4, <1>5 DEF Owns
    <2>3. \A x \in Refs : disk'[x] # "NONE" => \E k \in Keys : Owns(k, x)'
      BY <1>1, <2>1, <2>2 DEF FInv, BytesOwned
    <2>4. ASSUME NEW k \in Keys, NEW x \in Refs, <<k, x>> \in trash'
          PROVE  /\ Owns(k, x)' /\ disk'[x] = "NONE"
                 /\ k \in Refs => ref'[k].pending /\ up'[k].pc \notin {"CHECKED", "WRITING"}
                 /\ k \in Artifacts => art'[k].state = "PURGING"
      <3>1. /\ Owns(k, x) /\ disk[x] = "NONE"
            /\ k \in Refs => ref[k].pending /\ up[k].pc \notin {"CHECKED", "WRITING"}
            /\ k \in Artifacts => art[k].state = "PURGING"
        BY <1>1, <2>4 DEF FInv, BytesOwned
      <3>2. x # r
        BY <1>1, <3>1
      <3>3. k \in Refs => k # r /\ ref'[k].pending
        BY <1>1, <1>2, <3>1
      <3>4. k \in Artifacts => art'[k].state = "PURGING"
        BY <1>3, <1>4, <1>5, <3>1 DEF Owns
      <3> QED BY <1>1, <2>1, <3>1, <3>2, <3>3, <3>4
    <2> QED BY <2>3, <2>4 DEF BytesOwned
  <1>10. Streams'
    BY <1>1, <1>2 DEF FInv, Streams
  <1>11. Reads'
    <2>1. \A q \in Refs : rd[q].pc \in {"CHECKED", "READING"} => rd[q].art \in Artifacts
      BY DEF IInv, ProcsBacked, ReadHasArtifact
    <2> QED BY <1>1, <1>3, <1>4, <2>1 DEF FInv, Reads
  <1>12. StoredIsWhole'
    <2> SUFFICES ASSUME NEW b \in Artifacts, art'[b].key # None,
                        art'[b].state = "RAW_READY" \/ Attached(ref, b)' # {}
                 PROVE  disk'[art'[b].key] = "WHOLE"
      BY DEF StoredIsWhole
    <2>1. CASE b = a
      BY <1>1, <1>4, <2>1 DEF FInv, StoredIsWhole
    <2>2. CASE b # a
      <3>1. Attached(ref, b)' \subseteq Attached(ref, b)
        BY <1>2, <2>2 DEF Attached
      <3> QED BY <1>1, <1>3, <2>2, <3>1 DEF FInv, StoredIsWhole
    <2> QED BY <2>1, <2>2
  <1>13. Purges'
    <2>1. ASSUME NEW k \in Keys, purge[k].pc # "IDLE"
          PROVE  Matches(k)'
      <3>1. Matches(k) /\ purge[k].home \in Refs
        BY <2>1 DEF FInv, Purges, IInv, ProcsBacked, PurgeHasHome
      <3>2. CASE k \in Refs
        BY <1>1, <1>2, <3>1, <3>2 DEF Matches
      <3>3. CASE k \notin Refs
        <4>1. k \in Artifacts /\ k # a /\ art[k].key # None
          BY <1>4, <1>5, <3>1, <3>3, VaultAssumption DEF Matches, Keys, VaultAssumption
        <4>2. Attached(ref, k)' \subseteq Attached(ref, k)
          BY <1>2, <4>1 DEF Attached
        <4> QED BY <1>1, <1>3, <3>1, <3>3, <4>1, <4>2 DEF Matches
      <3> QED BY <3>2, <3>3
    <2>2. \A k \in Refs : up'[k].pc \in UpEntered => up[k].pc \in UpEntered
      BY <1>1 DEF UpEntered
    <2> QED BY <1>1, <2>1, <2>2 DEF FInv, Purges
  <1> QED BY <1>7, <1>8, <1>9, <1>10, <1>11, <1>12, <1>13 DEF FInv

\* The directory is moved away: nobody but the purge refers to it.
LEMMA RenameFiles ==
  ASSUME IInv, IInv', FInv, NEW k \in Keys, Rename(k)
  PROVE  FInv'
  <1> DEFINE h == purge[k].home
  <1>1. UNCHANGED <<ref, art, up, rd>> /\ purge[k].pc = "MATCHED"
    BY DEF Rename, PurgeGoto, db
  <1>2. \A j \in Keys : /\ purge'[j].home = purge[j].home
                        /\ purge'[j].pc = IF j = k THEN "RENAMED" ELSE purge[j].pc
    BY DEF Rename, PurgeGoto, IInv, TypeOK, Purge
  <1>3. /\ h \in Refs /\ h # None /\ Matches(k) /\ (k \in Refs => h = k)
        /\ k \in Refs => up[k].pc \notin UpEntered
        /\ \A r \in Refs : ~(rd[r].pc \in RdEntered /\ rd[r].art = k)
    <2>1. h \in Refs /\ h # None
      BY <1>1, VaultAssumption DEF IInv, ProcsBacked, PurgeHasHome, VaultAssumption, Keys
    <2>2. purge[k].pc # "IDLE" /\ purge[k].pc \in PastDrain
      BY <1>1 DEF PastDrain
    <2> QED BY <2>1, <2>2 DEF FInv, Purges
  <1>4. /\ disk'[h] = "NONE" /\ \A x \in Refs : x # h => disk'[x] = disk[x]
        /\ trash' \subseteq trash \cup {<<k, h>>}
    BY <1>3 DEF Rename, IInv, TypeOK
  <1>5. Owns(k, h) /\ (k \in Refs => ref[k].pending) /\ (k \in Artifacts => art[k].state = "PURGING")
    BY <1>3, VaultAssumption DEF Matches, Owns, Keys, VaultAssumption
  <1>6. \A a \in Artifacts : art[a].key = h => a = k /\ k \notin Refs
    BY <1>3, <1>5, VaultAssumption DEF FInv, SoleOwners, Owns, VaultAssumption
  <1>7. k \in Artifacts => ~ref[h].temp
    BY <1>3, <1>5, VaultAssumption DEF FInv, SoleOwners, Owns, VaultAssumption
  <1> HIDE DEF h
  <1>8. Reservations' /\ SoleOwners'
    BY <1>1 DEF FInv, Reservations, SoleOwners
  <1>9. BytesOwned'
    <2>1. \A j \in Keys, x \in Refs : Owns(j, x)' <=> Owns(j, x)
      BY <1>1 DEF Owns
    <2>2. \A x \in Refs : disk'[x] # "NONE" => \E j \in Keys : Owns(j, x)'
      BY <1>4, <2>1 DEF FInv, BytesOwned
    <2>3. ASSUME NEW j \in Keys, NEW x \in Refs, <<j, x>> \in trash'
          PROVE  /\ Owns(j, x)' /\ disk'[x] = "NONE"
                 /\ j \in Refs => ref'[j].pending /\ up'[j].pc \notin {"CHECKED", "WRITING"}
                 /\ j \in Artifacts => art'[j].state = "PURGING"
      <3>1. CASE <<j, x>> \in trash
        BY <1>1, <1>4, <2>1, <3>1 DEF FInv, BytesOwned
      <3>2. CASE j = k /\ x = h
        BY <1>1, <1>3, <1>4, <1>5, <2>1, <3>2 DEF UpEntered
      <3> QED BY <1>4, <2>3, <3>1, <3>2
    <2> QED BY <2>2, <2>3 DEF BytesOwned
  <1>10. Streams'
    <2>1. /\ up[h].pc # "WRITING"
          /\ ref[h].state # "RESERVED"
      <3>1. CASE k \in Refs
        BY <1>3, <1>5, <3>1 DEF FInv, Reservations, UpEntered
      <3>2. CASE k \in Artifacts
        BY <1>3, <1>7, <3>2 DEF FInv, Reservations, Streams
      <3> QED BY <3>1, <3>2 DEF Keys
    <2> QED BY <1>1, <1>4, <2>1 DEF FInv, Streams
  <1>11. Reads'
    <2>1. \A q \in Refs : rd[q].pc \in {"CHECKED", "READING"} =>
            rd[q].art \in Artifacts /\ rd[q].key \in Refs /\ rd[q].key # h
      BY <1>3, <1>6 DEF FInv, Reads, IInv, TypeOK, Download, ProcsBacked, ReadHasArtifact, RdEntered
    <2> QED BY <1>1, <1>4, <2>1 DEF FInv, Reads
  <1>12. StoredIsWhole'
    <2> SUFFICES ASSUME NEW a \in Artifacts, art[a].key # None,
                        art[a].state = "RAW_READY" \/ Attached(ref, a) # {}
                 PROVE  disk'[art[a].key] = "WHOLE"
      BY <1>1 DEF StoredIsWhole, Attached
    <2>1. art[a].key # h
      BY <1>3, <1>5, <1>6 DEF Matches
    <2>2. art[a].key \in Refs
      BY DEF IInv, TypeOK, Art
    <2> QED BY <1>4, <2>1, <2>2 DEF FInv, StoredIsWhole
  <1>13. Purges'
    <2> SUFFICES ASSUME NEW j \in Keys
                 PROVE  /\ purge'[j].pc # "IDLE" => Matches(j)' /\ (j \in Refs => purge'[j].home = j)
                        /\ purge'[j].pc \in PastDrain =>
                             /\ j \in Refs => up'[j].pc \notin UpEntered
                             /\ \A q \in Refs : ~(rd'[q].pc \in RdEntered /\ rd'[q].art = j)
                        /\ purge'[j].pc \in {"RENAMED", "ERASED"} => disk'[purge'[j].home] = "NONE"
                        /\ purge'[j].pc = "ERASED" => <<j, purge'[j].home>> \notin trash'
      BY DEF Purges
    <2>1. Matches(j)' <=> Matches(j)
      BY <1>1, <1>2 DEF Matches, Attached
    <2>2. purge[j].pc # "IDLE" => purge[j].home \in Refs
      BY DEF IInv, ProcsBacked, PurgeHasHome
    <2>3. CASE j = k
      BY <1>1, <1>2, <1>3, <1>4, <2>1, <2>3 DEF h
    <2>4. CASE j # k
      <3>1. \A x \in Refs : disk[x] = "NONE" => disk'[x] = "NONE"
        BY <1>4
      <3>2. \A x \in Refs : <<j, x>> \in trash' => <<j, x>> \in trash
        BY <1>4, <2>4
      <3> QED BY <1>1, <1>2, <2>1, <2>2, <2>4, <3>1, <3>2 DEF FInv, Purges, PastDrain
    <2> QED BY <2>3, <2>4
  <1> QED BY <1>8, <1>9, <1>10, <1>11, <1>12, <1>13 DEF FInv

LEMMA RemoveFiles ==
  ASSUME IInv, IInv', FInv, NEW k \in Keys, RemoveTrash(k)
  PROVE  FInv'
  <1>1. UNCHANGED <<ref, art, up, rd, disk>> /\ purge[k].pc = "RENAMED" /\ trash' = trash \ {<<k, purge[k].home>>}
    BY DEF RemoveTrash, PurgeGoto, db
  <1>2. \A j \in Keys : /\ purge'[j].home = purge[j].home
                        /\ purge'[j].pc = IF j = k THEN "ERASED" ELSE purge[j].pc
    BY DEF RemoveTrash, PurgeGoto, IInv, TypeOK, Purge
  <1>3. Reservations' /\ SoleOwners' /\ Streams' /\ Reads' /\ StoredIsWhole'
    BY <1>1 DEF FInv, Reservations, SoleOwners, Streams, Reads, StoredIsWhole, Attached
  <1>4. BytesOwned'
    <2>1. \A j \in Keys, x \in Refs : Owns(j, x)' <=> Owns(j, x)
      BY <1>1 DEF Owns
    <2>2. \A x \in Refs : disk'[x] # "NONE" => \E j \in Keys : Owns(j, x)'
      BY <1>1, <2>1 DEF FInv, BytesOwned
    <2>3. ASSUME NEW j \in Keys, NEW x \in Refs, <<j, x>> \in trash'
          PROVE  /\ Owns(j, x)' /\ disk'[x] = "NONE"
                 /\ j \in Refs => ref'[j].pending /\ up'[j].pc \notin {"CHECKED", "WRITING"}
                 /\ j \in Artifacts => art'[j].state = "PURGING"
      BY <1>1, <2>1, <2>3 DEF FInv, BytesOwned
    <2> QED BY <2>2, <2>3 DEF BytesOwned
  <1>5. \A j \in Keys : Matches(j)' <=> Matches(j)
    BY <1>1, <1>2 DEF Matches, Attached
  <1>6. Purges'
    BY <1>1, <1>2, <1>5 DEF FInv, Purges, PastDrain
  <1> QED BY <1>3, <1>4, <1>6 DEF FInv

\* The completing transaction, when the row still says what the purge captured.
LEMMA CompleteRows ==
  ASSUME IInv, IInv', FInv, NEW k \in Keys, Complete(k)
  PROVE  \/ UNCHANGED <<ref, art>>
         \/ /\ \A q \in Refs : q # k =>
                 \/ ref'[q] = ref[q]
                 \/ /\ ref[q].state = "RELEASED" /\ ~ref[q].temp /\ ~ref[q].pending
                    /\ ref'[q].state = "DELETED" /\ ~ref'[q].temp /\ ~ref'[q].pending
            /\ k \in Refs => /\ ref'[k].state \in {ref[k].state, "DELETED"} /\ ref'[k].art \in {ref[k].art, None}
                             /\ ~ref'[k].temp
            /\ \A b \in Artifacts : b # k =>
                 /\ art'[b].key = art[b].key
                 /\ art[b].key # None =>
                      /\ art'[b].state \in {"RAW_READY", "PURGING"}
                      /\ art'[b].state = "RAW_READY" => art[b].state = "RAW_READY"
            /\ k \in Artifacts => art'[k].key = None
  <1>1. /\ ref \in [Refs -> Ref] /\ art \in [Artifacts -> Art]
        /\ \A q \in Refs : ref[q] \in Ref
        /\ \A a \in Artifacts : art[a] \in Art
    BY DEF IInv, TypeOK
  <1> DEFINE row == [ref[k] EXCEPT !.temp = FALSE, !.pending = FALSE]
             R == IF k \in Refs THEN [ref EXCEPT ![k] = row] ELSE ref
             new == [art[k] EXCEPT !.state = "PURGED", !.key = None]
             A == IF k \in Refs THEN art ELSE [art EXCEPT ![k] = new]
  <1>2. SUFFICES ASSUME Commit(R, A, claimed, {})
                 PROVE  /\ \A q \in Refs : q # k =>
                             \/ ref'[q] = ref[q]
                             \/ /\ ref[q].state = "RELEASED" /\ ~ref[q].temp /\ ~ref[q].pending
                                /\ ref'[q].state = "DELETED" /\ ~ref'[q].temp /\ ~ref'[q].pending
                        /\ k \in Refs => /\ ref'[k].state \in {ref[k].state, "DELETED"}
                                         /\ ref'[k].art \in {ref[k].art, None}
                                         /\ ~ref'[k].temp
                        /\ \A b \in Artifacts : b # k =>
                             /\ art'[b].key = art[b].key
                             /\ art[b].key # None =>
                                  /\ art'[b].state \in {"RAW_READY", "PURGING"}
                                  /\ art'[b].state = "RAW_READY" => art[b].state = "RAW_READY"
                        /\ k \in Artifacts => art'[k].key = None
    BY DEF Complete
  <1>3. k \in Refs => row \in Ref /\ row.state = ref[k].state /\ row.art = ref[k].art /\ row.temp = FALSE
    BY <1>1, ErasedType DEF Ref
  <1>4. k \in Artifacts => new \in Art /\ new.key = None
    BY <1>1, PurgedType DEF Art
  <1> HIDE DEF row, new
  <1>5. Refs \cap Artifacts = {} /\ (k \notin Refs => k \in Artifacts)
    BY VaultAssumption DEF VaultAssumption, Keys
  <1>6. R \in [Refs -> Ref] /\ A \in [Artifacts -> Art]
    BY <1>1, <1>3, <1>4, <1>5
  <1>7. /\ \A q \in Refs : R[q] = IF q = k THEN row ELSE ref[q]
        /\ \A b \in Artifacts : A[b] = IF b = k THEN new ELSE art[b]
    BY <1>1, <1>5
  <1> HIDE DEF R, A
  <1>8. /\ \A q \in Refs :
             \/ ref'[q] = R[q]
             \/ /\ R[q].state = "RELEASED" /\ ~R[q].temp /\ ~R[q].pending
                /\ ref'[q].state = "DELETED" /\ ~ref'[q].temp /\ ~ref'[q].pending
        /\ \A b \in Artifacts :
             /\ art'[b].key = A[b].key
             /\ \/ art'[b] = A[b]
                \/ art'[b].state = IF A[b].key = None THEN art'[b].state ELSE "PURGING"
    BY <1>2, <1>6, CommitKeeps
  <1>9. \A q \in Refs : ref'[q].state = "DELETED" \/ ref'[q] = R[q]
    BY <1>8
  <1>10. \A q \in Refs : q # k =>
                             \/ ref'[q] = ref[q]
                             \/ /\ ref[q].state = "RELEASED" /\ ~ref[q].temp /\ ~ref[q].pending
                                /\ ref'[q].state = "DELETED" /\ ~ref'[q].temp /\ ~ref'[q].pending
    BY <1>7, <1>8
  <1>11. k \in Refs => ref'[k] \in {row, GoneRef(k)}
    <2>1. \A q \in Refs : ref'[q] \in {R[q], GoneRef(q)}
      BY <1>2 DEF Commit
    <2> QED BY <1>7, <2>1
  <1>12. k \in Refs => /\ ref'[k].state \in {ref[k].state, "DELETED"}
                       /\ ref'[k].art \in {ref[k].art, None}
                       /\ ~ref'[k].temp
    BY <1>3, <1>11 DEF GoneRef, AbsentRef
  <1>13. \A b \in Artifacts : b # k =>
                             /\ art'[b].key = art[b].key
                             /\ art[b].key # None =>
                                  /\ art'[b].state \in {"RAW_READY", "PURGING"}
                                  /\ art'[b].state = "RAW_READY" => art[b].state = "RAW_READY"
    BY <1>7, <1>8 DEF FInv, SoleOwners
  <1>14. k \in Artifacts => art'[k].key = None
    BY <1>4, <1>5, <1>7, <1>8
  <1> QED BY <1>10, <1>12, <1>13, <1>14

\* The owner of an erased directory gives it up.
LEMMA CompleteFiles ==
  ASSUME IInv, IInv', FInv, NEW k \in Keys, Complete(k)
  PROVE  FInv'
  <1> DEFINE h == purge[k].home
  <1>1. /\ UNCHANGED <<rd, disk, trash, fs>> /\ purge[k].pc = "ERASED" /\ \E ok : PurgeEnds(k, ok)
        /\ disk[h] = "NONE" /\ <<k, h>> \notin trash
    BY DEF Complete, fs
  <1>2. CASE UNCHANGED <<ref, art>>
    <2>1. RowsQuiet /\ ProcsQuiet
      BY <1>1, <1>2, EndingQuiet, SameParts DEF RowsQuiet, ProcsQuiet
    <2> QED BY <1>1, <2>1, QuietFiles
  <1>3. CASE ~UNCHANGED <<ref, art>>
    <2>1. \A q \in Refs : q # k =>
            \/ ref'[q] = ref[q]
            \/ /\ ref[q].state = "RELEASED" /\ ~ref[q].temp /\ ~ref[q].pending
               /\ ref'[q].state = "DELETED" /\ ~ref'[q].temp /\ ~ref'[q].pending
      BY <1>3, CompleteRows
    <2>2. k \in Refs => /\ ref'[k].state \in {ref[k].state, "DELETED"} /\ ref'[k].art \in {ref[k].art, None}
                        /\ ~ref'[k].temp
      BY <1>3, CompleteRows
    <2>3. /\ \A b \in Artifacts : b # k =>
                 /\ art'[b].key = art[b].key
                 /\ art[b].key # None =>
                      /\ art'[b].state \in {"RAW_READY", "PURGING"}
                      /\ art'[b].state = "RAW_READY" => art[b].state = "RAW_READY"
          /\ k \in Artifacts => art'[k].key = None
      BY <1>3, CompleteRows
    <2>4. /\ h \in Refs /\ Matches(k) /\ (k \in Refs => h = k)
          /\ k \in Refs => up[k].pc \notin UpEntered
          /\ \A r \in Refs : ~(rd[r].pc \in RdEntered /\ rd[r].art = k)
      <3>1. h \in Refs
        BY <1>1 DEF IInv, ProcsBacked, PurgeHasHome
      <3>2. purge[k].pc # "IDLE" /\ purge[k].pc \in PastDrain
        BY <1>1 DEF PastDrain
      <3> QED BY <3>1, <3>2 DEF FInv, Purges
    <2>5. Refs \cap Artifacts = {} /\ None \notin Refs /\ (k \notin Refs => k \in Artifacts)
      BY VaultAssumption DEF VaultAssumption, Keys
    <2>6. /\ k \in Refs => ref[k].temp /\ ref[k].pending /\ ref[k].state \notin {"RESERVED", "ABSENT"}
          /\ k \in Artifacts => art[k].key = h /\ art[k].state = "PURGING" /\ Attached(ref, k) = {}
      BY <2>4, <2>5 DEF Matches, FInv, Reservations
    <2>7. \A j \in Keys : Owns(j, h) => j = k
      BY <2>4, <2>5, <2>6 DEF FInv, SoleOwners, Owns
    <2>8. UpsQuiet /\ (\A j \in Keys : purge'[j] = purge[j] \/ purge'[j].pc = "IDLE") /\ purge'[k].pc = "IDLE"
      <3>1. PICK ok : PurgeEnds(k, ok)
        BY <1>1
      <3>2. UpsQuiet
        BY <3>1, EndingQuiet
      <3>3. \A j \in Keys : purge'[j] = IF j = k THEN IdlePurge ELSE purge[j]
        BY <3>1 DEF PurgeEnds, IInv, TypeOK
      <3> QED BY <3>2, <3>3 DEF IdlePurge
    <2> HIDE DEF h
    <2>9. \A q \in Refs : /\ ref'[q].temp => ref[q].temp
                          /\ ref'[q].state = "RESERVED" => ref[q].state = "RESERVED" /\ q # k /\ ref'[q] = ref[q]
                          /\ ref'[q].state = "ABSENT" => ref[q].state = "ABSENT" /\ q # k /\ ref'[q] = ref[q]
      BY <2>1, <2>2, <2>6
    <2>10. Reservations'
      BY <2>8, <2>9 DEF FInv, Reservations, UpsQuiet
    <2>11. SoleOwners'
      <3>1. \A b \in Artifacts : art'[b].key # None => b # k /\ art'[b].key = art[b].key
        BY <2>3
      <3>2. \A b \in Artifacts : art'[b].key # None => art'[b].state \in {"RAW_READY", "PURGING"}
        BY <2>3, <3>1
      <3>3. \A b, c \in Artifacts : art'[b].key # None /\ art'[b].key = art'[c].key => b = c
        BY <3>1 DEF FInv, SoleOwners
      <3>4. \A q \in Refs, b \in Artifacts : ref'[q].state = "ABSENT" \/ ref'[q].temp => art'[b].key # q
        BY <2>5, <2>9, <3>1 DEF FInv, SoleOwners
      <3> QED BY <3>2, <3>3, <3>4 DEF SoleOwners
    <2>12. \A j \in Keys, x \in Refs : Owns(j, x) /\ j # k => Owns(j, x)'
      BY <2>1, <2>3 DEF Owns
    <2>13. \A x \in Refs : Owns(k, x) => x = h
      BY <2>4, <2>5, <2>6 DEF Owns
    <2>14. BytesOwned'
      <3>1. ASSUME NEW x \in Refs, disk'[x] # "NONE"
            PROVE  \E j \in Keys : Owns(j, x)'
        <4>1. PICK j \in Keys : Owns(j, x)
          BY <1>1, <3>1 DEF FInv, BytesOwned
        <4>2. j # k
          BY <1>1, <2>13, <3>1, <4>1 DEF h
        <4> QED BY <2>12, <4>1, <4>2
      <3>2. ASSUME NEW j \in Keys, NEW x \in Refs, <<j, x>> \in trash'
            PROVE  /\ Owns(j, x)' /\ disk'[x] = "NONE"
                   /\ j \in Refs => ref'[j].pending /\ up'[j].pc \notin {"CHECKED", "WRITING"}
                   /\ j \in Artifacts => art'[j].state = "PURGING"
        <4>1. /\ Owns(j, x) /\ disk[x] = "NONE"
              /\ j \in Refs => ref[j].pending /\ up[j].pc \notin {"CHECKED", "WRITING"}
              /\ j \in Artifacts => art[j].state = "PURGING"
          BY <1>1, <3>2 DEF FInv, BytesOwned
        <4>2. j # k
          BY <1>1, <2>13, <3>2, <4>1 DEF h
        <4>3. j \in Refs => ref'[j].pending /\ ref[j].state # "RESERVED"
          BY <2>1, <4>1, <4>2 DEF FInv, Reservations
        <4>4. j \in Refs => up'[j].pc \notin {"CHECKED", "WRITING"}
          BY <2>8, <4>1, <4>3 DEF UpsQuiet
        <4>5. j \in Artifacts => art'[j].state = "PURGING"
          BY <2>3, <2>5, <4>1, <4>2 DEF Owns
        <4> QED BY <1>1, <2>12, <4>1, <4>2, <4>3, <4>4, <4>5
      <3> QED BY <3>1, <3>2 DEF BytesOwned
    <2>15. Streams'
      <3>1. ASSUME NEW q \in Refs, up'[q].pc \in {"CHECKED", "WRITING"}
            PROVE  ref'[q].temp
        <4>1. up[q].pc \in {"CHECKED", "WRITING"} \/ ref[q].state = "RESERVED"
          BY <2>8, <3>1 DEF UpsQuiet
        <4>2. ref[q].temp /\ q # k
          BY <2>4, <2>6, <4>1 DEF FInv, Streams, Reservations, UpEntered
        <4> QED BY <2>1, <4>2
      <3> QED BY <1>1, <2>8, <2>9, <3>1 DEF FInv, Streams, UpsQuiet
    <2>16. Reads'
      <3>1. \A q \in Refs : rd[q].pc \in {"CHECKED", "READING"} => rd[q].art \in Artifacts /\ rd[q].art # k
        BY <2>4 DEF RdEntered, IInv, ProcsBacked, ReadHasArtifact
      <3> QED BY <1>1, <2>3, <3>1 DEF FInv, Reads
    <2>17. StoredIsWhole'
      <3> SUFFICES ASSUME NEW b \in Artifacts, art'[b].key # None,
                          art'[b].state = "RAW_READY" \/ Attached(ref, b)' # {}
                   PROVE  disk'[art'[b].key] = "WHOLE"
        BY DEF StoredIsWhole
      <3>1. b # k
        BY <2>3
      <3>2. Attached(ref, b)' \subseteq Attached(ref, b)
        BY <2>1, <2>2, <2>5 , VaultAssumption DEF Attached, VaultAssumption, Keys
      <3> QED BY <1>1, <2>3, <3>1, <3>2 DEF FInv, StoredIsWhole
    <2>18. Purges'
      <3>1. ASSUME NEW j \in Keys, purge'[j].pc # "IDLE"
            PROVE  Matches(j)' /\ j # k /\ purge'[j] = purge[j]
        <4>1. j # k /\ purge'[j] = purge[j] /\ Matches(j) /\ purge[j].home \in Refs
          BY <2>8, <3>1 DEF FInv, Purges, IInv, ProcsBacked, PurgeHasHome
        <4>2. CASE j \in Refs
          BY <2>1, <4>1, <4>2 DEF Matches
        <4>3. CASE j \notin Refs
          <5>1. j \in Artifacts /\ art[j].key # None
            BY <2>5, <4>1, <4>3 DEF Matches, Keys
          <5>2. Attached(ref, j)' \subseteq Attached(ref, j)
            BY <2>1, <2>2, <5>1, VaultAssumption DEF Attached, VaultAssumption, Keys
          <5> QED BY <2>3, <4>1, <4>3, <5>1, <5>2 DEF Matches
        <4> QED BY <4>1, <4>2, <4>3
      <3>2. ASSUME NEW j \in Keys, purge'[j].pc \in PastDrain
            PROVE  /\ j \in Refs => up'[j].pc \notin UpEntered
                   /\ \A r \in Refs : ~(rd'[r].pc \in RdEntered /\ rd'[r].art = j)
        <4>1. purge'[j] = purge[j] /\ Fenced(j)
          BY <3>1, <3>2 DEF PastDrain, Fenced, Fencing
        <4> QED BY <1>1, <2>8, <3>2, <4>1 DEF FInv, Purges, UpsQuiet
      <3> QED BY <1>1, <3>1, <3>2 DEF FInv, Purges
    <2> QED BY <2>10, <2>11, <2>14, <2>15, <2>16, <2>17, <2>18 DEF FInv
  <1> QED BY <1>2, <1>3

----------------------------------------------------------------------------
(* The files of the vault are safe *)

LEMMA InitFiles == Init => FInv
  <1> SUFFICES ASSUME Init PROVE FInv
    OBVIOUS
  <1>1. /\ \A r \in Refs : /\ ref[r].state = "ABSENT" /\ ~ref[r].temp
                           /\ disk[r] = "NONE" /\ up[r].pc = "IDLE" /\ rd[r].pc = "IDLE"
        /\ \A a \in Artifacts : art[a].key = None /\ art[a].state = "ABSENT"
        /\ \A k \in Keys : purge[k].pc = "IDLE"
        /\ trash = {}
    BY DEF Init, AbsentRef, NoRow, IdleUp, IdleRd, IdlePurge
  <1>2. None \notin Refs
    BY VaultAssumption DEF VaultAssumption, Keys
  <1> QED BY <1>1, <1>2
          DEF FInv, Reservations, SoleOwners, BytesOwned, Streams, Reads, StoredIsWhole, Purges, PastDrain

LEMMA StepFiles == IInv /\ IInv' /\ FInv /\ [Next]_vars => FInv'
  <1> SUFFICES ASSUME IInv, IInv', FInv, [Next]_vars PROVE FInv'
    OBVIOUS
  <1>1. CASE UNCHANGED vars
    BY <1>1, QuietFiles, SameParts DEF vars, db, fs, proc, RowsQuiet, ProcsQuiet
  <1>2. CASE SessionNext
    BY <1>2, SessionQuiet, QuietFiles
  <1>3. CASE UploadNext
    <2>1. PICK r \in Refs :
            \/ Reserve(r) \/ LeaseExpires(r) \/ Claim(r) \/ EnterUpload(r) \/ RecheckUpload(r)
            \/ OpenBlob(r) \/ StreamDone(r) \/ UploadStops(r) \/ SelfFence(r)
            \/ \E a \in Artifacts : FinalizeAdopt(r, a) \/ FinalizeShare(r, a) \/ FinalizeBlocked(r, a)
            \/ UploadPurges(r) \/ JoinPurge(r) \/ PurgeNotEligible(r)
            \/ OcrAttempt(r)
      BY <1>3 DEF UploadNext
    <2>2. CASE Reserve(r)
      BY <2>2, ReserveFiles
    <2>3. CASE OpenBlob(r) \/ StreamDone(r)
      BY <2>3, StreamFiles
    <2>4. CASE \E a \in Artifacts : FinalizeAdopt(r, a) \/ FinalizeShare(r, a)
      BY <2>4, FinalizeFiles
    <2>5. CASE \/ LeaseExpires(r) \/ Claim(r) \/ EnterUpload(r) \/ RecheckUpload(r)
               \/ UploadStops(r) \/ SelfFence(r)
               \/ \E a \in Artifacts : FinalizeBlocked(r, a)
               \/ UploadPurges(r) \/ JoinPurge(r) \/ PurgeNotEligible(r) \/ OcrAttempt(r)
      BY <2>5, UploadQuiet, QuietFiles
    <2> QED BY <2>1, <2>2, <2>3, <2>4, <2>5
  <1>4. CASE ReadNext
    BY <1>4, ReadQuiet, QuietFiles
  <1>5. CASE PurgeNext
    <2>1. PICK k \in Keys : \/ ReaperPurges(k) \/ Fence(k) \/ Drained(k) \/ DrainTimeout(k)
                            \/ Match(k) \/ Rename(k) \/ RemoveTrash(k) \/ Complete(k)
      BY <1>5 DEF PurgeNext
    <2> QED BY <2>1, PurgeQuiet, QuietFiles, RenameFiles, RemoveFiles, CompleteFiles
  <1>6. CASE MishapNext
    BY <1>6, MishapQuiet, QuietFiles, CrashFiles DEF MishapNext
  <1> QED BY <1>1, <1>2, <1>3, <1>4, <1>5, <1>6 DEF Next

\* What is on disk, or in the trash, has exactly one owner.
LEMMA OneOwner ==
  ASSUME IInv, FInv
  PROVE  NoOrphanBytes
  <1> SUFFICES ASSUME NEW x \in Refs, disk[x] # "NONE" \/ \E k \in Keys : <<k, x>> \in trash
               PROVE  Cardinality({k \in Keys : \/ k = x /\ ref[x].temp
                                                \/ k \in Artifacts /\ art[k].key = x}) = 1
    BY DEF NoOrphanBytes
  <1>1. PICK o \in Keys : Owns(o, x)
    BY DEF FInv, BytesOwned
  <1>2. x # None /\ Refs \cap Artifacts = {}
    BY VaultAssumption DEF VaultAssumption, Keys
  <1>3. {k \in Keys : \/ k = x /\ ref[x].temp
                      \/ k \in Artifacts /\ art[k].key = x} = {o}
    BY <1>1, <1>2 DEF Owns, FInv, SoleOwners
  <1> QED BY <1>3, FS_Singleton

LEMMA FilesFollow == IInv /\ FInv => FilesAreSafe
  <1> SUFFICES ASSUME IInv, FInv PROVE FilesAreSafe
    OBVIOUS
  <1>1. StoredIsWhole
    BY DEF FInv
  <1>2. NoOrphanBytes
    BY OneOwner
  <1>3. NoEraseUnderDescriptor
    BY DEF FInv, Streams, Reads, NoEraseUnderDescriptor
  <1>4. EraseNeverAnomalous
    <2>1. \A k \in Keys : purge[k].pc # "IDLE" => purge[k].home \in Refs
      BY DEF IInv, ProcsBacked, PurgeHasHome
    <2> QED BY <2>1 DEF FInv, BytesOwned, Purges, EraseNeverAnomalous, Fencing
  <1>5. CapturesStayFresh
    BY DEF FInv, Purges, CapturesStayFresh
  <1> QED BY <1>1, <1>2, <1>3, <1>4, <1>5 DEF FilesAreSafe

\* The inductive invariant of the files: whoever may still write or erase a file is
\* named by a row, a descriptor or a purge that says so (the claims of the rows in
\* import-upload.service.ts, the registry of vault-fd-registry.ts and the fences of
\* vault-purger.ts), so that no two of them meet at one directory.
THEOREM BytesStayOwned == Spec => []FInv
  <1>1. Init => FInv
    BY InitFiles
  <1>2. IInv /\ IInv' /\ FInv /\ [Next]_vars => FInv'
    BY StepFiles
  <1> QED BY <1>1, <1>2, Inductive, PTL DEF Spec

\* FilesAreSafe: rows, files, descriptors and purges agree after every step of every
\* interleaving and after every crash, for any number of uploads, downloads and purges
\* (vault-purger.ts, vault-fd-registry.ts, import-upload.service.ts).
THEOREM FilesStaySafe == Spec => []FilesAreSafe
  BY Inductive, BytesStayOwned, FilesFollow, PTL

----------------------------------------------------------------------------
(* What an attached document needs of OCR *)

\* What the purger would have to see to: an erased artifact bears no mark of OCR
\* content, so that the end of its retention does not bring the row back.
NoStaleMark == \A a \in Artifacts : art[a].state = "PURGED" => ~art[a].ocr

\* An artifact that is ready or attached has storage.
Housed ==
  /\ \A a \in Artifacts : art[a].state = "RAW_READY" => art[a].key # None
  /\ \A r \in Refs : ref[r].state = "ATTACHED" => art[ref[r].art].key # None

\* A row that a transaction leaves ready, or marked, was that before its triggers ran.
LEMMA CommitMarks ==
  ASSUME NEW R, NEW A \in [Artifacts -> Art], NEW C, NEW F, Commit(R, A, C, F)
  PROVE  \A a \in Artifacts : /\ art'[a].state = "RAW_READY" => art'[a] = A[a]
                              /\ art'[a].ocr => A[a].ocr
  <1> SUFFICES ASSUME NEW a \in Artifacts
               PROVE  /\ art'[a].state = "RAW_READY" => art'[a] = A[a]
                      /\ art'[a].ocr => A[a].ocr
    OBVIOUS
  <1>1. art'[a] \in {A[a], Retire(A[a]), GoneArt}
    BY DEF Commit, Finalized
  <1> QED BY <1>1, RetireRow, GoneRow

\* How an artifact becomes ready, or is marked.
ReadyOrMarked ==
  \A a \in Artifacts :
    /\ art'[a].state = "RAW_READY" =>
         \/ art[a].state = "RAW_READY" /\ art'[a].key = art[a].key
         \/ art'[a].key # None
         \/ art[a].ocr /\ art[a].state = "PURGED"
    /\ art'[a].ocr => art[a].ocr \/ Scanned # {}

LEMMA CommitReady ==
  ASSUME IInv, NEW R, NEW C, NEW F, Commit(R, art, C, F)
  PROVE  ReadyOrMarked
  <1>1. art \in [Artifacts -> Art]
    BY DEF IInv, TypeOK
  <1> QED BY <1>1, CommitMarks DEF ReadyOrMarked

LEMMA NextReady ==
  ASSUME IInv, IInv', FInv, Next
  PROVE  ReadyOrMarked
  <1>1. art \in [Artifacts -> Art] /\ \A a \in Artifacts : art[a] \in Art
    BY DEF IInv, TypeOK
  <1>2. UNCHANGED art => ReadyOrMarked
    BY DEF ReadyOrMarked
  <1>3. CASE \E s \in Sessions : RetentionEnds(s)
    <2>1. PICK arts \in SUBSET {a \in Artifacts : art[a].ocr} :
            /\ \A a \in arts : art[a].state # "PURGING"
            /\ art' = [a \in Artifacts |-> IF a \in arts
                         THEN [art[a] EXCEPT !.state = "RAW_READY", !.ocr = FALSE] ELSE art[a]]
      BY <1>3 DEF RetentionEnds, Scrubbable
    <2>2. \A a \in arts : art[a].ocr /\ art[a].state \in {"RAW_READY", "PURGED"}
      BY <2>1 DEF IInv, RowsBacked, IsArtRow
    <2>3. \A a \in Artifacts : (art'[a].ocr => art[a].ocr) /\ art'[a].key = art[a].key
      BY <1>1, <2>1 DEF Art
    <2> QED BY <2>1, <2>2, <2>3 DEF ReadyOrMarked
  <1>4. CASE SessionNext /\ ~\E s \in Sessions : RetentionEnds(s)
    <2>1. UNCHANGED art \/ \E R, C, F : Commit(R, art, C, F)
      BY <1>4 DEF SessionNext, OpenSession, Confirm, Edit, Cancel, Expire, Apply, DeleteLastClaim
    <2> QED BY <1>2, <2>1, CommitReady
  <1>5. ASSUME NEW k \in Keys, Capture(k)
        PROVE  ReadyOrMarked
    <2>1. \A a \in Artifacts : /\ art'[a].ocr = art[a].ocr /\ art'[a].key = art[a].key
                               /\ art'[a].state \in {art[a].state, "PURGING"}
      BY <1>1, <1>5 DEF Capture, Art
    <2> QED BY <2>1 DEF ReadyOrMarked
  <1>6. CASE UploadNext
    <2>1. PICK r \in Refs :
            \/ Reserve(r) \/ LeaseExpires(r) \/ Claim(r) \/ EnterUpload(r) \/ RecheckUpload(r)
            \/ OpenBlob(r) \/ StreamDone(r) \/ UploadStops(r) \/ SelfFence(r)
            \/ \E a \in Artifacts : FinalizeAdopt(r, a) \/ FinalizeShare(r, a) \/ FinalizeBlocked(r, a)
            \/ UploadPurges(r) \/ JoinPurge(r) \/ PurgeNotEligible(r)
            \/ OcrAttempt(r)
      BY <1>6 DEF UploadNext
    <2>2. CASE UploadPurges(r)
      <3>1. CASE up[r].on \in Keys
        BY <1>5, <2>2, <3>1 DEF UploadPurges
      <3>2. CASE up[r].on \notin Keys
        BY <1>2, <2>2, <3>2 DEF UploadPurges, Capture, Keys
      <3> QED BY <3>1, <3>2
    <2>3. CASE OcrAttempt(r)
      <3>1. PICK b : art' = [art EXCEPT ![ref[r].art].ocr = b]
        BY <2>3 DEF OcrAttempt
      <3>2. Scanned # {} /\ \A a \in Artifacts : art'[a].state = art[a].state /\ art'[a].key = art[a].key
        BY <1>1, <2>3, <3>1 DEF OcrAttempt, Art
      <3> QED BY <3>2 DEF ReadyOrMarked
    <2>4. CASE \E a \in Artifacts : FinalizeShare(r, a)
      BY <2>4, CommitReady DEF FinalizeShare
    <2>5. ASSUME NEW a \in Artifacts, FinalizeAdopt(r, a)
          PROVE  ReadyOrMarked
      <3> DEFINE new == [state |-> "RAW_READY", doc |-> DocOf[r], key |-> r, ocr |-> FALSE]
                 A == [art EXCEPT ![a] = new]
      <3>1. new \in Art /\ new.key = r /\ new.ocr = FALSE /\ r # None
        BY StoredType, VaultAssumption DEF VaultAssumption, Keys
      <3> HIDE DEF new
      <3>2. A \in [Artifacts -> Art] /\ \A b \in Artifacts : A[b] = IF b = a THEN new ELSE art[b]
        BY <1>1, <3>1
      <3>3. PICK R : Commit(R, A, claimed, {})
        BY <2>5 DEF FinalizeAdopt, new
      <3> HIDE DEF A
      <3>4. \A b \in Artifacts : /\ art'[b].state = "RAW_READY" => art'[b] = A[b]
                                 /\ art'[b].ocr => A[b].ocr
        BY <3>2, <3>3, CommitMarks
      <3> QED BY <3>1, <3>2, <3>4 DEF ReadyOrMarked
    <2>6. CASE \/ Reserve(r) \/ LeaseExpires(r) \/ Claim(r) \/ EnterUpload(r) \/ RecheckUpload(r)
               \/ OpenBlob(r) \/ StreamDone(r) \/ UploadStops(r) \/ SelfFence(r)
               \/ \E a \in Artifacts : FinalizeBlocked(r, a)
               \/ JoinPurge(r) \/ PurgeNotEligible(r)
      BY <1>2, <2>6 DEF Reserve, LeaseExpires, Claim, EnterUpload, RecheckUpload, OpenBlob, StreamDone,
         UploadStops, SelfFence, FinalizeBlocked, JoinPurge, PurgeNotEligible, UpStep, db
    <2> QED BY <2>1, <2>2, <2>3, <2>4, <2>5, <2>6
  <1>7. CASE ReadNext \/ MishapNext
    BY <1>2, <1>7 DEF ReadNext, AdmitRead, EnterRead, RecheckRead, OpenRead, EndRead, RdStep, db,
       MishapNext, Crash, PurgeFails, UncertainUploadClose, UncertainReadClose, SelfFenceFails
  <1>8. CASE PurgeNext
    <2>1. PICK k \in Keys : \/ ReaperPurges(k) \/ Fence(k) \/ Drained(k) \/ DrainTimeout(k)
                            \/ Match(k) \/ Rename(k) \/ RemoveTrash(k) \/ Complete(k)
      BY <1>8 DEF PurgeNext
    <2>2. CASE ReaperPurges(k)
      BY <1>5, <2>2 DEF ReaperPurges
    <2>3. CASE Complete(k)
      <3> DEFINE new == [art[k] EXCEPT !.state = "PURGED", !.key = None]
                 A == IF k \in Refs THEN art ELSE [art EXCEPT ![k] = new]
      <3>1. k \notin Refs => /\ k \in Artifacts
                            /\ new \in Art /\ new.state = "PURGED" /\ new.ocr = art[k].ocr
        BY <1>1, PurgedType DEF Keys, Art
      <3>2. UNCHANGED art \/ \E R : Commit(R, A, claimed, {})
        BY <2>3 DEF Complete
      <3> HIDE DEF new
      <3>3. /\ A \in [Artifacts -> Art]
            /\ \A b \in Artifacts : A[b] = IF b = k /\ k \notin Refs THEN new ELSE art[b]
        BY <1>1, <3>1
      <3> HIDE DEF A
      <3>4. CASE \E R : Commit(R, A, claimed, {})
        <4>1. \A b \in Artifacts : /\ art'[b].state = "RAW_READY" => art'[b] = A[b]
                                   /\ art'[b].ocr => A[b].ocr
          BY <3>3, <3>4, CommitMarks
        <4> QED BY <3>1, <3>3, <4>1 DEF ReadyOrMarked
      <3> QED BY <1>2, <3>2, <3>4
    <2>4. CASE Fence(k) \/ Drained(k) \/ DrainTimeout(k) \/ Match(k) \/ Rename(k) \/ RemoveTrash(k)
      BY <1>2, <2>4 DEF Fence, Drained, DrainTimeout, Match, Rename, RemoveTrash, db
    <2> QED BY <2>1, <2>2, <2>3, <2>4
  <1> QED BY <1>3, <1>4, <1>6, <1>7, <1>8 DEF Next

\* An attachment keeps an artifact with storage, whatever happens to its mark.
LEMMA AttachedHoused ==
  ASSUME IInv, IInv', FInv, Housed, Next
  PROVE  \A r \in Refs : ref'[r].state = "ATTACHED" => art'[ref'[r].art].key # None
  <1>1. \A r \in Refs : /\ ref[r].state = "ATTACHED" => ref[r].art \in Artifacts
                        /\ ref'[r].state = "ATTACHED" => ref'[r].art \in Artifacts
    BY DEF IInv, Attachments, AttachedHasArtifact
  <1>2. RowsQuiet => \A r \in Refs : ref'[r].state = "ATTACHED" => art'[ref'[r].art].key # None
    BY <1>1 DEF RowsQuiet, RefsQuiet, ArtsQuiet, Housed
  <1>3. UNCHANGED <<ref, art>> => RowsQuiet
    BY SameParts DEF RowsQuiet
  <1>4. CASE SessionNext \/ ReadNext
    BY <1>2, <1>4, SessionQuiet, ReadQuiet
  <1>5. CASE UploadNext
    <2>1. PICK r \in Refs :
            \/ Reserve(r) \/ LeaseExpires(r) \/ Claim(r) \/ EnterUpload(r) \/ RecheckUpload(r)
            \/ OpenBlob(r) \/ StreamDone(r) \/ UploadStops(r) \/ SelfFence(r)
            \/ \E a \in Artifacts : FinalizeAdopt(r, a) \/ FinalizeShare(r, a) \/ FinalizeBlocked(r, a)
            \/ UploadPurges(r) \/ JoinPurge(r) \/ PurgeNotEligible(r)
            \/ OcrAttempt(r)
      BY <1>5 DEF UploadNext
    <2>2. CASE Reserve(r)
      <3>1. UNCHANGED art /\ \A q \in Refs : ref'[q].state = "ATTACHED" => ref'[q] = ref[q]
        BY <2>2 DEF Reserve, AbsentRef, IInv, TypeOK
      <3> QED BY <3>1 DEF Housed
    <2>3. CASE OpenBlob(r) \/ StreamDone(r)
      BY <1>2, <1>3, <2>3 DEF OpenBlob, StreamDone, UpStep, db
    <2>4. ASSUME NEW a \in Artifacts, FinalizeAdopt(r, a) \/ FinalizeShare(r, a)
          PROVE  \A q \in Refs : ref'[q].state = "ATTACHED" => art'[ref'[q].art].key # None
      <3>1. art'[a].key # None
        <4>1. r # None
          BY VaultAssumption DEF VaultAssumption, Keys
        <4>2. CASE FinalizeAdopt(r, a)
          BY <4>1, <4>2, AdoptRows
        <4>3. CASE FinalizeShare(r, a)
          BY <4>3, ShareRows DEF ArtsQuiet, Housed
        <4> QED BY <2>4, <4>2, <4>3
      <3>2. \A b \in Artifacts : b # a => art'[b].key = art[b].key
        BY <2>4, AdoptRows, ShareRows DEF ArtsQuiet
      <3>3. \A q \in Refs : ref'[q].state = "ATTACHED" => ref'[q].art = a \/ ref'[q] = ref[q]
        BY <2>4, FinalizeRows
      <3> QED BY <1>1, <3>1, <3>2, <3>3 DEF Housed
    <2>5. CASE \/ LeaseExpires(r) \/ Claim(r) \/ EnterUpload(r) \/ RecheckUpload(r)
               \/ UploadStops(r) \/ SelfFence(r)
               \/ \E a \in Artifacts : FinalizeBlocked(r, a)
               \/ UploadPurges(r) \/ JoinPurge(r) \/ PurgeNotEligible(r) \/ OcrAttempt(r)
      BY <1>2, <2>5, UploadQuiet
    <2> QED BY <2>1, <2>2, <2>3, <2>4, <2>5
  <1>6. CASE PurgeNext
    <2>1. PICK k \in Keys : \/ ReaperPurges(k) \/ Fence(k) \/ Drained(k) \/ DrainTimeout(k)
                            \/ Match(k) \/ Rename(k) \/ RemoveTrash(k) \/ Complete(k)
      BY <1>6 DEF PurgeNext
    <2>2. CASE Rename(k) \/ RemoveTrash(k)
      BY <1>2, <1>3, <2>2 DEF Rename, RemoveTrash, db
    <2>3. CASE Complete(k) /\ ~UNCHANGED <<ref, art>>
      <3>1. purge[k].pc = "ERASED" /\ Matches(k)
        BY <2>3 DEF Complete, FInv, Purges
      <3>2. \A q \in Refs : ref'[q].state = "ATTACHED" => ref[q].state = "ATTACHED" /\ ref'[q].art = ref[q].art
        <4>1. \A q \in Refs : q # k /\ ref'[q].state = "ATTACHED" => ref'[q] = ref[q]
          BY <2>3, CompleteRows
        <4>2. k \in Refs /\ ref'[k].state = "ATTACHED" => ref[k].state = "ATTACHED" /\ ref'[k].art \in {ref[k].art, None}
          BY <2>3, CompleteRows
        <4>3. None \notin Artifacts
          BY VaultAssumption DEF VaultAssumption, Keys
        <4> QED BY <1>1, <4>1, <4>2, <4>3
      <3>3. \A q \in Refs : ref[q].state = "ATTACHED" => ref[q].art # k
        <4>1. k \in Refs => k \notin Artifacts
          BY VaultAssumption DEF VaultAssumption
        <4>2. k \notin Refs => Attached(ref, k) = {}
          BY <3>1 DEF Matches
        <4> QED BY <1>1, <4>1, <4>2 DEF Attached
      <3>4. \A b \in Artifacts : b # k => art'[b].key = art[b].key
        BY <2>3, CompleteRows
      <3> QED BY <1>1, <3>2, <3>3, <3>4 DEF Housed
    <2>4. CASE ReaperPurges(k) \/ Fence(k) \/ Drained(k) \/ DrainTimeout(k) \/ Match(k)
      BY <1>2, <2>4, PurgeQuiet
    <2> QED BY <1>2, <1>3, <2>1, <2>2, <2>3, <2>4
  <1>7. CASE MishapNext
    <2>1. UNCHANGED <<ref, art>>
      BY <1>7 DEF MishapNext, Crash, PurgeFails, UncertainUploadClose, UncertainReadClose, SelfFenceFails, db
    <2> QED BY <1>2, <1>3, <2>1
  <1> QED BY <1>4, <1>5, <1>6, <1>7 DEF Next

LEMMA StepHoused == IInv /\ IInv' /\ FInv /\ NoStaleMark /\ Housed /\ [Next]_vars => Housed'
  <1> SUFFICES ASSUME IInv, IInv', FInv, NoStaleMark, Housed, [Next]_vars PROVE Housed'
    OBVIOUS
  <1>1. CASE Next
    <2>1. \A a \in Artifacts : art'[a].state = "RAW_READY" => art'[a].key # None
      BY <1>1, NextReady DEF ReadyOrMarked, NoStaleMark, Housed
    <2> QED BY <1>1, <2>1, AttachedHoused DEF Housed
  <1>2. CASE UNCHANGED vars
    BY <1>2 DEF vars, db, Housed
  <1> QED BY <1>1, <1>2

\* Without OCR no artifact is ever marked.
NoMarks == \A a \in Artifacts : ~art[a].ocr

LEMMA StepNoMarks ==
  ASSUME Scanned = {}
  PROVE  IInv /\ IInv' /\ FInv /\ NoMarks /\ [Next]_vars => NoMarks'
  <1> SUFFICES ASSUME IInv, IInv', FInv, NoMarks, [Next]_vars PROVE NoMarks'
    OBVIOUS
  <1>1. CASE Next
    BY <1>1, NextReady DEF ReadyOrMarked, NoMarks
  <1>2. CASE UNCHANGED vars
    BY <1>2 DEF vars, db, NoMarks
  <1> QED BY <1>1, <1>2

LEMMA InitHoused == Init => Housed /\ NoMarks
  BY DEF Init, Housed, NoMarks, AbsentRef, NoRow

LEMMA HousedHasBytes == IInv /\ FInv /\ Housed => AttachedHasBytes
  <1> SUFFICES ASSUME IInv, FInv, Housed, NEW r \in Refs, ref[r].state = "ATTACHED"
               PROVE  art[ref[r].art].key # None /\ disk[art[ref[r].art].key] = "WHOLE"
    BY DEF AttachedHasBytes
  <1>1. ref[r].art \in Artifacts /\ r \in Attached(ref, ref[r].art)
    BY DEF IInv, Attachments, AttachedHasArtifact, Attached
  <1> QED BY <1>1 DEF Housed, FInv, StoredIsWhole

\* AttachedHasBytes, as long as no purge that completed leaves the mark of OCR content
\* in the row: the one thing that vault-purger.ts does not see to and that the retention
\* of pdf-ocr-retention.ts, which resets marked rows to RAW_READY, would need.
THEOREM UnmarkedDocumentsHaveBytes == Spec /\ []NoStaleMark => []AttachedHasBytes
  <1>1. Init => Housed
    BY InitHoused
  <1>2. IInv /\ IInv' /\ FInv /\ NoStaleMark /\ Housed /\ [Next]_vars => Housed'
    BY StepHoused
  <1>3. IInv /\ FInv /\ Housed => AttachedHasBytes
    BY HousedHasBytes
  <1> QED BY <1>1, <1>2, <1>3, Inductive, BytesStayOwned, PTL DEF Spec

\* AttachedHasBytes: where no document needs OCR, whatever is attached is on disk,
\* whole, through every purge, retirement, repeated upload and crash.
THEOREM AttachedDocumentsHaveBytes ==
  ASSUME Scanned = {}
  PROVE  Spec => []AttachedHasBytes
  <1>1. Init => NoMarks
    BY InitHoused
  <1>2. IInv /\ IInv' /\ FInv /\ NoMarks /\ [Next]_vars => NoMarks'
    BY StepNoMarks
  <1>3. NoMarks => NoStaleMark
    BY DEF NoMarks, NoStaleMark
  <1> QED BY <1>1, <1>2, <1>3, Inductive, BytesStayOwned, UnmarkedDocumentsHaveBytes, PTL DEF Spec

----------------------------------------------------------------------------
(* Links: what attachments refer to, and what nobody refers to *)

\* A row that refers to an artifact is attached or was released by the end of its
\* session; what is attached is a row with the document, or retired, which no
\* confirmed session is attached to.
LinkedIn(R, A, S) ==
  \A r \in Refs :
    /\ R[r].art # None => R[r].state \in {"ATTACHED", "RELEASED"}
    /\ R[r].state = "RELEASED" /\ R[r].art # None => S[R[r].sess] \in {"APPLIED", "CLOSED"}
    /\ R[r].state = "ATTACHED" =>
         /\ R[r].art \in Artifacts /\ IsArtRow(A, R[r].art)
         /\ A[R[r].art].doc \in {DocOf[r], None}
         /\ S[R[r].sess] = "CONFIRMED" => A[R[r].art].doc # None
Linked == LinkedIn(ref, art, sess)

\* Nothing is half retired, and a retired row has no OCR content that could revive it.
Retired == RetirementIsSettled /\ \A a \in Unlinked(ref, art, claimed) : ~art[a].ocr

LEMMA CommitRetires ==
  ASSUME NEW R \in [Refs -> Ref], NEW A \in [Artifacts -> Art], NEW C, NEW F \in SUBSET Artifacts,
         Commit(R, A, C, F)
  PROVE  Retired'
<1> DEFINE U == F \cup Unlinked(R, A, C)
<1>1. /\ \A r \in Refs : ref'[r] = IF r \in Swept(R, U) THEN GoneRef(r) ELSE R[r]
      /\ \A a \in Artifacts : art'[a] = IF a \in U THEN Finalized(R, A, U, a) ELSE A[a]
      /\ claimed' = C
  BY DEF Commit
<1>2. \A r \in Refs : GoneRef(r).art = None /\ GoneRef(r).state = "DELETED"
  BY DEF GoneRef, AbsentRef
<1>3. None \notin Artifacts
  BY VaultAssumption DEF VaultAssumption, Keys
<1>4. Unlinked(ref, art, claimed)' \subseteq U
  <2> SUFFICES ASSUME NEW a \in Unlinked(ref, art, claimed)', a \notin U PROVE FALSE
    OBVIOUS
  <2>1. a \in Artifacts /\ art'[a] = A[a] /\ IsArtRow(art, a)' /\ a \notin C
    BY <1>1 DEF Unlinked
  <2>2. \A r \in Refs : R[r].art = a => ref'[r] = R[r]
    BY <1>1 DEF Swept
  <2>3. a \in Unlinked(R, A, C)
    BY <2>1, <2>2 DEF Unlinked, IsArtRow
  <2> QED BY <2>3
<1>5. ASSUME NEW a \in Unlinked(ref, art, claimed)'
      PROVE  /\ a \in U /\ art'[a] = Retire(A[a])
             /\ A[a].key = None => \E r \in Refs : R[r].art = a /\ r \notin Swept(R, U)
  <2>1. a \in U /\ a \in Artifacts /\ IsArtRow(art, a)'
    BY <1>4 DEF Unlinked
  <2>2. art'[a] # GoneArt
    BY <2>1, GoneRow DEF IsArtRow
  <2> QED BY <1>1, <2>1, <2>2 DEF Finalized
<1>6. \A row \in Art : /\ Retire(row).doc = None /\ Retire(row).ocr = FALSE /\ Retire(row).key = row.key
                       /\ Retire(row).state = IF row.key = None THEN "PURGED" ELSE "PURGING"
  BY DEF Retire, Art
<1>7. ASSUME NEW a \in Unlinked(ref, art, claimed)'
      PROVE  /\ art'[a].doc = None /\ ~art'[a].ocr
             /\ art'[a].state = IF art'[a].key = None THEN "PURGED" ELSE "PURGING"
             /\ art'[a].key = None => \E r \in Refs : ref'[r].art = a
  <2>1. A[a] \in Art /\ art'[a] = Retire(A[a])
    BY <1>5, <1>7 DEF Unlinked
  <2>2. /\ art'[a].doc = None /\ ~art'[a].ocr /\ art'[a].key = A[a].key
        /\ art'[a].state = IF A[a].key = None THEN "PURGED" ELSE "PURGING"
    BY <1>6, <2>1
  <2>3. A[a].key = None => \E r \in Refs : ref'[r].art = a
    BY <1>1, <1>5, <1>7
  <2> QED BY <2>2, <2>3
<1>8. Swept(ref, Unlinked(ref, art, claimed))' = {}
  <2> SUFFICES ASSUME NEW r \in Refs, ref'[r].art \in Unlinked(ref, art, claimed)', ref'[r].state = "RELEASED",
                      ~ref'[r].temp, ~ref'[r].pending
               PROVE  FALSE
    BY DEF Swept
  <2>1. ref'[r].art \in U
    BY <1>4
  <2>2. ref'[r] = R[r] /\ r \notin Swept(R, U)
    BY <1>1, <1>2
  <2> QED BY <2>1, <2>2 DEF Swept
<1> QED BY <1>7, <1>8 DEF Retired, RetirementIsSettled

\* The triggers leave what is referred to alone, but for what a deletion retires.
LEMMA CommitLeaves ==
  ASSUME NEW R \in [Refs -> Ref], NEW A \in [Artifacts -> Art], NEW C, NEW F, Commit(R, A, C, F)
  PROVE  /\ \A r \in Refs : \/ ref'[r] = R[r]
                            \/ ref'[r].art = None /\ ref'[r].state = "DELETED"
         /\ \A r \in Refs : R[r].art \in Artifacts /\ R[r].state # "RELEASED" =>
              /\ R[r].art \notin F => art'[R[r].art] = A[R[r].art]
              /\ R[r].art \in F => /\ art'[R[r].art].doc = None
                                   /\ IsArtRow(A, R[r].art) => IsArtRow(art', R[r].art)
<1> DEFINE U == F \cup Unlinked(R, A, C)
<1>1. /\ \A r \in Refs : ref'[r] = IF r \in Swept(R, U) THEN GoneRef(r) ELSE R[r]
      /\ \A a \in Artifacts : art'[a] = IF a \in U THEN Finalized(R, A, U, a) ELSE A[a]
  BY DEF Commit
<1>2. \A r \in Refs : GoneRef(r).art = None /\ GoneRef(r).state = "DELETED"
  BY DEF GoneRef, AbsentRef
<1>3. ASSUME NEW r \in Refs, R[r].art \in Artifacts, R[r].state # "RELEASED"
      PROVE  /\ R[r].art \notin F => art'[R[r].art] = A[R[r].art]
             /\ R[r].art \in F => /\ art'[R[r].art].doc = None
                                  /\ IsArtRow(A, R[r].art) => IsArtRow(art', R[r].art)
  <2> DEFINE a == R[r].art
  <2>1. a \notin Unlinked(R, A, C)
    BY <1>3 DEF Unlinked
  <2>2. r \notin Swept(R, U)
    BY <1>3 DEF Swept
  <2>3. a \in F => art'[a] = Retire(A[a])
    BY <1>1, <1>3, <2>2 DEF Finalized
  <2>4. A[a] \in Art
    BY <1>3
  <2>5. Retire(A[a]).doc = None /\ Retire(A[a]).state \in {"PURGED", "PURGING"}
    BY <2>4 DEF Retire, Art
  <2> QED BY <1>1, <1>3, <2>1, <2>3, <2>5 DEF IsArtRow
<1> QED BY <1>1, <1>2, <1>3

LEMMA CommitLinks ==
  ASSUME NEW R \in [Refs -> Ref], NEW A \in [Artifacts -> Art], NEW C, Commit(R, A, C, {}),
         LinkedIn(R, A, sess')
  PROVE  Linked'
<1>1. /\ \A r \in Refs : \/ ref'[r] = R[r]
                         \/ ref'[r].art = None /\ ref'[r].state = "DELETED"
      /\ \A r \in Refs : R[r].art \in Artifacts /\ R[r].state # "RELEASED" => art'[R[r].art] = A[R[r].art]
  BY CommitLeaves
<1> QED BY <1>1 DEF Linked, LinkedIn, IsArtRow

\* A step that leaves what refers and what is referred to as they were; a session is
\* confirmed only while its documents are there, and one that has ended stays so.
LinksQuiet ==
  /\ \A r \in Refs : \/ ref'[r] = ref[r]
                     \/ /\ ref[r].art = None /\ ref'[r].art = None
                        /\ ref[r].state \notin {"ATTACHED", "RELEASED"}
                        /\ ref'[r].state \notin {"ATTACHED", "RELEASED"}
  /\ \A a \in Artifacts : /\ art'[a].doc = art[a].doc
                          /\ IsArtRow(art, a)' = IsArtRow(art, a)
                          /\ a \in Unlinked(ref, art, claimed) => art'[a] = art[a]
  /\ claimed' = claimed

SessionsQuiet ==
  \A s \in Sessions :
    /\ sess[s] \in {"APPLIED", "CLOSED"} => sess'[s] = sess[s]
    /\ sess'[s] = "CONFIRMED" =>
         \/ sess[s] = "CONFIRMED"
         \/ \A r \in Refs : ref[r].sess = s /\ ref[r].state = "ATTACHED" => art[ref[r].art].doc # None

LEMMA QuietLinks ==
  ASSUME IInv, Linked, LinksQuiet, SessionsQuiet
  PROVE  Linked'
<1>1. \A r \in Refs : ref[r].sess \in Sessions
  BY DEF IInv, TypeOK, Ref
<1> SUFFICES ASSUME NEW r \in Refs
             PROVE  /\ ref'[r].art # None => ref'[r].state \in {"ATTACHED", "RELEASED"}
                    /\ ref'[r].state = "RELEASED" /\ ref'[r].art # None => sess'[ref'[r].sess] \in {"APPLIED", "CLOSED"}
                    /\ ref'[r].state = "ATTACHED" =>
                         /\ ref'[r].art \in Artifacts /\ IsArtRow(art', ref'[r].art)
                         /\ art'[ref'[r].art].doc \in {DocOf[r], None}
                         /\ sess'[ref'[r].sess] = "CONFIRMED" => art'[ref'[r].art].doc # None
  BY DEF Linked, LinkedIn
<1>2. CASE ref'[r] # ref[r]
  BY <1>2 DEF LinksQuiet
<1>3. CASE ref'[r] = ref[r]
  <2>1. ref[r].art # None => ref[r].state \in {"ATTACHED", "RELEASED"}
    BY DEF Linked, LinkedIn
  <2>2. ref[r].state = "RELEASED" /\ ref[r].art # None => sess'[ref[r].sess] \in {"APPLIED", "CLOSED"}
    BY <1>1 DEF Linked, LinkedIn, SessionsQuiet
  <2>3. ASSUME ref[r].state = "ATTACHED"
        PROVE  /\ ref[r].art \in Artifacts /\ IsArtRow(art', ref[r].art)
               /\ art'[ref[r].art].doc \in {DocOf[r], None}
               /\ sess'[ref[r].sess] = "CONFIRMED" => art'[ref[r].art].doc # None
    <3>1. /\ ref[r].art \in Artifacts /\ IsArtRow(art, ref[r].art)
          /\ art[ref[r].art].doc \in {DocOf[r], None}
          /\ sess[ref[r].sess] = "CONFIRMED" => art[ref[r].art].doc # None
      BY <2>3 DEF Linked, LinkedIn
    <3>2. IsArtRow(art, ref[r].art)' = IsArtRow(art, ref[r].art) /\ art'[ref[r].art].doc = art[ref[r].art].doc
      BY <1>3, <3>1 DEF LinksQuiet, IsArtRow
    <3>3. IsArtRow(art', ref[r].art)
      BY <1>3, <3>1, <3>2 DEF IsArtRow
    <3>4. sess'[ref[r].sess] = "CONFIRMED" => art[ref[r].art].doc # None
      BY <1>1, <2>3, <3>1 DEF SessionsQuiet
    <3> QED BY <3>1, <3>2, <3>3, <3>4
  <2> QED BY <1>3, <2>1, <2>2, <2>3
<1> QED BY <1>2, <1>3

LEMMA QuietRetired ==
  ASSUME IInv, Retired, LinksQuiet
  PROVE  Retired'
<1>1. None \notin Artifacts
  BY VaultAssumption DEF VaultAssumption, Keys
<1>2. \A r \in Refs : \A a \in Artifacts : ref'[r].art = a \/ ref[r].art = a => ref'[r] = ref[r]
  BY <1>1 DEF LinksQuiet
<1>3. Unlinked(ref, art, claimed)' = Unlinked(ref, art, claimed)
  <2>1. ASSUME NEW a \in Artifacts
        PROVE  (\A r \in Refs : ref'[r].art = a => ref'[r].state = "RELEASED")
                 <=> (\A r \in Refs : ref[r].art = a => ref[r].state = "RELEASED")
    BY <1>2
  <2> QED BY <2>1 DEF LinksQuiet, Unlinked
<1> DEFINE U == Unlinked(ref, art, claimed)
<1>4. \A a \in U : art'[a] = art[a] /\ a \in Artifacts
  BY DEF LinksQuiet, Unlinked
<1>5. ASSUME NEW a \in U
      PROVE  /\ art'[a].doc = None /\ ~art'[a].ocr
             /\ art'[a].state = IF art'[a].key = None THEN "PURGED" ELSE "PURGING"
             /\ art'[a].key = None => \E r \in Refs : ref'[r].art = a
  BY <1>2, <1>4 DEF Retired, RetirementIsSettled
<1>6. Swept(ref, U) = {}
  BY DEF Retired, RetirementIsSettled
<1>7. Swept(ref', U) = {}
  BY <1>2, <1>4, <1>6 DEF Swept
<1> QED BY <1>3, <1>5, <1>7 DEF Retired, RetirementIsSettled, Swept

\* The steps of sessions that run no trigger.
LEMMA SessionLinks ==
  ASSUME IInv, Retired, NEW s \in Sessions, OpenSession(s) \/ Confirm(s) \/ Edit(s) \/ RetentionEnds(s)
  PROVE  LinksQuiet /\ SessionsQuiet
<1>1. sess \in [Sessions -> SessStates] /\ art \in [Artifacts -> Art] /\ UNCHANGED <<ref, claimed>>
  BY DEF IInv, TypeOK, OpenSession, Confirm, Edit, RetentionEnds
<1>2. SessionsQuiet
  <2>1. CASE OpenSession(s) \/ Edit(s)
    BY <1>1, <2>1 DEF OpenSession, Edit, SessionsQuiet, Active
  <2>2. CASE Confirm(s)
    BY <1>1, <2>2 DEF Confirm, SessionsQuiet
  <2>3. CASE RetentionEnds(s)
    BY <1>1, <2>3 DEF RetentionEnds, SessionsQuiet, Active
  <2> QED BY <2>1, <2>2, <2>3
<1>3. CASE OpenSession(s) \/ Confirm(s) \/ Edit(s)
  <2>1. UNCHANGED art
    BY <1>3 DEF OpenSession, Confirm, Edit
  <2> QED BY <1>1, <1>2, <2>1 DEF LinksQuiet, IsArtRow
<1>4. CASE RetentionEnds(s)
  <2>1. PICK arts \in SUBSET {a \in Artifacts : art[a].ocr} :
          art' = [a \in Artifacts |-> IF a \in arts
                       THEN [art[a] EXCEPT !.state = "RAW_READY", !.ocr = FALSE] ELSE art[a]]
    BY <1>4 DEF RetentionEnds
  <2>2. \A a \in arts : a \in Artifacts /\ IsArtRow(art, a) /\ a \notin Unlinked(ref, art, claimed)
    BY DEF IInv, RowsBacked, Retired
  <2>3. \A a \in Artifacts : /\ art'[a].doc = art[a].doc
                             /\ a \in arts => art'[a].state = "RAW_READY"
                             /\ a \notin arts => art'[a] = art[a]
    BY <1>1, <2>1 DEF Art
  <2>4. \A a \in Artifacts : IsArtRow(art, a)' = IsArtRow(art, a)
    BY <2>2, <2>3 DEF IsArtRow
  <2> QED BY <1>1, <1>2, <2>2, <2>3, <2>4 DEF LinksQuiet
<1> QED BY <1>3, <1>4

LEMMA CaptureLinks ==
  ASSUME IInv, Linked, Retired, NEW k \in Keys, Capture(k)
  PROVE  LinksQuiet /\ UNCHANGED sess
<1>1. /\ ref \in [Refs -> Ref] /\ art \in [Artifacts -> Art]
      /\ \A r \in Refs : ref[r] \in Ref
      /\ UNCHANGED <<claimed, sess>>
  BY DEF IInv, TypeOK, Capture
<1>2. ASSUME NEW r \in Refs
      PROVE  \/ ref'[r] = ref[r]
             \/ /\ ref[r].art = None /\ ref'[r].art = None
                /\ ref[r].state \notin {"ATTACHED", "RELEASED"}
                /\ ref'[r].state \notin {"ATTACHED", "RELEASED"}
  <2>1. ref'[r] = ref[r] \/ (ref[r].state = "RESERVED" /\ ref'[r] = Failed(ref[r]))
    BY <1>1 DEF Capture
  <2>2. Failed(ref[r]).state = "FAILED" /\ Failed(ref[r]).art = ref[r].art
    BY <1>1 DEF Failed, Ref
  <2> QED BY <2>1, <2>2 DEF Linked, LinkedIn
<1>3. ASSUME NEW a \in Artifacts
      PROVE  /\ art'[a].doc = art[a].doc
             /\ IsArtRow(art, a)' = IsArtRow(art, a)
             /\ a \in Unlinked(ref, art, claimed) => art'[a] = art[a]
  <2>1. CASE a # k
    <3>1. art'[a] = art[a]
      BY <1>1, <2>1 DEF Capture
    <3> QED BY <3>1 DEF IsArtRow
  <2>2. CASE a = k
    <3>1. k \in Artifacts /\ k \notin Refs
      BY <2>2, VaultAssumption DEF VaultAssumption
    <3>2. IsArtRow(art, k) /\ art[k].key # None
      BY <3>1 DEF Capture, Due, ArtDue
    <3>3. art' = [art EXCEPT ![k].state = "PURGING"]
      BY <3>1 DEF Capture
    <3>4. art'[k].doc = art[k].doc /\ art'[k].state = "PURGING"
      BY <1>1, <3>1, <3>3 DEF Art
    <3>5. art[k].state = "PURGING" => art'[k] = art[k]
      BY <1>1, <3>1, <3>3 DEF Art
    <3>6. k \in Unlinked(ref, art, claimed) => art[k].state = "PURGING"
      BY <3>2 DEF Retired, RetirementIsSettled
    <3>7. IsArtRow(art, k)' = IsArtRow(art, k)
      BY <3>2, <3>4 DEF IsArtRow
    <3> QED BY <2>2, <3>4, <3>5, <3>6, <3>7
  <2> QED BY <2>1, <2>2
<1> QED BY <1>1, <1>2, <1>3 DEF LinksQuiet

LEMMA UploadLinks ==
  ASSUME IInv, Linked, Retired, NEW r \in Refs,
         \/ Reserve(r) \/ LeaseExpires(r) \/ Claim(r) \/ SelfFence(r) \/ OcrAttempt(r)
  PROVE  LinksQuiet /\ UNCHANGED sess
<1>1. /\ ref \in [Refs -> Ref] /\ art \in [Artifacts -> Art] /\ ref[r] \in Ref
      /\ UNCHANGED <<claimed, sess>>
  BY DEF IInv, TypeOK, Reserve, LeaseExpires, Claim, SelfFence, OcrAttempt
<1>2. ASSUME NEW row, row.art = None, row.state \notin {"ATTACHED", "RELEASED"},
             ref' = [ref EXCEPT ![r] = row], UNCHANGED art, ref[r].state \in {"ABSENT", "RESERVED"}
      PROVE  LinksQuiet
  <2>1. ref[r].art = None
    BY <1>2 DEF Linked, LinkedIn
  <2> QED BY <1>1, <1>2, <2>1 DEF LinksQuiet, IsArtRow
<1>3. CASE Reserve(r)
  <2> DEFINE row == [AbsentRef(r) EXCEPT !.state = "RESERVED", !.gen = 1, !.temp = TRUE, !.lease = TRUE]
  <2>1. row.art = None /\ row.state = "RESERVED"
    BY DEF AbsentRef
  <2>2. ref' = [ref EXCEPT ![r] = row] /\ UNCHANGED art /\ ref[r].state = "ABSENT"
    BY <1>3 DEF Reserve
  <2> HIDE DEF row
  <2> QED BY <1>1, <1>2, <2>1, <2>2
<1>4. CASE LeaseExpires(r) \/ Claim(r)
  <2>1. ref[r].state = "RESERVED" /\ UNCHANGED art /\ ref[r].art = None
    BY <1>4 DEF LeaseExpires, Claim, Linked, LinkedIn
  <2>2. PICK row : row.art = None /\ row.state = "RESERVED" /\ ref' = [ref EXCEPT ![r] = row]
    <3>1. [ref[r] EXCEPT !.lease = FALSE].art = None /\ [ref[r] EXCEPT !.lease = FALSE].state = "RESERVED"
      BY <1>1, <2>1 DEF Ref
    <3>2. [ref[r] EXCEPT !.gen = 2].art = None /\ [ref[r] EXCEPT !.gen = 2].state = "RESERVED"
      BY <1>1, <2>1 DEF Ref
    <3> QED BY <1>4, <3>1, <3>2 DEF LeaseExpires, Claim
  <2> QED BY <1>1, <1>2, <2>1, <2>2
<1>5. CASE SelfFence(r)
  <2>1. CASE ref' = ref
    BY <1>1, <1>5, <2>1 DEF LinksQuiet, IsArtRow, SelfFence
  <2>2. CASE ref' # ref
    <3>1. ref[r].state = "RESERVED" /\ ref' = [ref EXCEPT ![r] = Failed(ref[r])] /\ UNCHANGED art
      BY <1>5, <2>2 DEF SelfFence
    <3>2. Failed(ref[r]).state = "FAILED" /\ Failed(ref[r]).art = None
      BY <1>1, <3>1 DEF Failed, Ref, Linked, LinkedIn
    <3> QED BY <1>1, <1>2, <3>1, <3>2
  <2> QED BY <2>1, <2>2
<1>6. CASE OcrAttempt(r)
  <2>1. /\ UNCHANGED ref /\ ref[r].state = "ATTACHED"
        /\ \E o : art' = [art EXCEPT ![ref[r].art].ocr = o]
    BY <1>6 DEF OcrAttempt
  <2>2. \A a \in Artifacts : /\ art'[a].doc = art[a].doc /\ art'[a].state = art[a].state
                             /\ a # ref[r].art => art'[a] = art[a]
    BY <1>1, <2>1 DEF Art
  <2>3. ref[r].art \notin Unlinked(ref, art, claimed)
    BY <2>1 DEF Unlinked
  <2>4. \A a \in Artifacts : IsArtRow(art, a)' = IsArtRow(art, a)
    BY <2>2 DEF IsArtRow
  <2> QED BY <1>1, <2>1, <2>2, <2>3, <2>4 DEF LinksQuiet
<1> QED BY <1>3, <1>4, <1>5, <1>6

\* The transactions of sessions that end.
LEMMA ReleaseLinks ==
  ASSUME NEW R \in [Refs -> Ref], NEW A, NEW S, NEW s, S[s] \in {"APPLIED", "CLOSED"},
         LinkedIn(R, A, [x \in Sessions |-> IF x = s THEN "DRAFT" ELSE S[x]]),
         \A r \in Refs : R[r].sess \in Sessions
  PROVE  LinkedIn(Released(R, s), A, S)
<1> DEFINE D == [x \in Sessions |-> IF x = s THEN "DRAFT" ELSE S[x]]
           Q == Released(R, s)
<1> SUFFICES ASSUME NEW r \in Refs
             PROVE  /\ Q[r].art # None => Q[r].state \in {"ATTACHED", "RELEASED"}
                    /\ Q[r].state = "RELEASED" /\ Q[r].art # None => S[Q[r].sess] \in {"APPLIED", "CLOSED"}
                    /\ Q[r].state = "ATTACHED" =>
                         /\ Q[r].art \in Artifacts /\ IsArtRow(A, Q[r].art)
                         /\ A[Q[r].art].doc \in {DocOf[r], None}
                         /\ S[Q[r].sess] = "CONFIRMED" => A[Q[r].art].doc # None
  BY DEF LinkedIn
<1>1. /\ R[r].art # None => R[r].state \in {"ATTACHED", "RELEASED"}
      /\ R[r].state = "RELEASED" /\ R[r].art # None => D[R[r].sess] \in {"APPLIED", "CLOSED"}
      /\ R[r].state = "ATTACHED" =>
           /\ R[r].art \in Artifacts /\ IsArtRow(A, R[r].art)
           /\ A[R[r].art].doc \in {DocOf[r], None}
           /\ D[R[r].sess] = "CONFIRMED" => A[R[r].art].doc # None
  BY DEF LinkedIn
<1>2. D[R[r].sess] = IF R[r].sess = s THEN "DRAFT" ELSE S[R[r].sess]
  OBVIOUS
<1>3. CASE R[r].sess = s /\ R[r].state \in {"RESERVED", "ATTACHED", "FAILED"}
  <2>1. Q[r] = Release(R[r])
    BY <1>3 DEF Released
  <2>2. Release(R[r]).state = "RELEASED" /\ Release(R[r]).sess = s
    BY <1>3, ReleaseRow
  <2> QED BY <2>1, <2>2
<1>4. CASE ~(R[r].sess = s /\ R[r].state \in {"RESERVED", "ATTACHED", "FAILED"})
  <2>1. Q[r] = R[r]
    BY <1>4 DEF Released
  <2> HIDE DEF Q, D
  <2>2. R[r].state = "ATTACHED" => D[R[r].sess] = S[R[r].sess]
    BY <1>2, <1>4
  <2> QED BY <1>1, <1>2, <2>1, <2>2
<1> QED BY <1>3, <1>4

LEMMA ClosingLinks ==
  ASSUME IInv, Linked, NEW s \in Sessions, Cancel(s) \/ Expire(s)
  PROVE  Linked' /\ Retired'
<1>1. /\ ref \in [Refs -> Ref] /\ art \in [Artifacts -> Art] /\ sess \in [Sessions -> SessStates]
      /\ \A r \in Refs : ref[r].sess \in Sessions
  BY DEF IInv, TypeOK, Ref
<1>2. /\ Commit(Released(ref, s), art, claimed, {})
      /\ sess[s] \in Active /\ sess' = [sess EXCEPT ![s] = "CLOSED"]
  BY DEF Cancel, Expire
<1>3. LinkedIn(ref, art, [x \in Sessions |-> IF x = s THEN "DRAFT" ELSE sess'[x]])
  BY <1>1, <1>2 DEF Linked, LinkedIn, Active
<1>4. LinkedIn(Released(ref, s), art, sess')
  <2>1. sess'[s] = "CLOSED"
    BY <1>1, <1>2
  <2> QED BY <1>1, <1>3, <2>1, ReleaseLinks
<1>5. Released(ref, s) \in [Refs -> Ref]
  BY <1>1, ReleasedType
<1>6. Retired'
  BY <1>1, <1>2, <1>5, CommitRetires
<1> QED BY <1>1, <1>2, <1>4, <1>5, <1>6, CommitLinks

LEMMA ApplyLinks ==
  ASSUME IInv, Linked, NEW s \in Sessions, Apply(s)
  PROVE  Linked' /\ Retired'
<1>1. /\ ref \in [Refs -> Ref] /\ art \in [Artifacts -> Art] /\ sess \in [Sessions -> SessStates]
      /\ \A r \in Refs : ref[r].sess \in Sessions
  BY DEF IInv, TypeOK, Ref
<1>2. PICK Cl \in SUBSET Claimable(s),
           T \in SUBSET {r \in Refs : ref[r].sess = s /\ ref[r].state \in {"ATTACHED", "FAILED"}},
           c \in {s} \cup {x \in Late : sess[x] = "NEW" /\ Owner[x] = Owner[s]} :
        /\ c = s => T = {}
        /\ Commit(Released(Moved(T, c), s), art, claimed \cup Cl, {})
        /\ sess' = [x \in Sessions |-> IF x = s THEN "APPLIED" ELSE IF x = c THEN "DRAFT" ELSE sess[x]]
  BY DEF Apply
<1>3. c \in Sessions /\ (c # s => sess[c] = "NEW") /\ sess[s] = "CONFIRMED"
  BY <1>2, VaultAssumption DEF VaultAssumption, Apply
<1> DEFINE M == Moved(T, c)
           D == [x \in Sessions |-> IF x = s THEN "DRAFT" ELSE sess'[x]]
<1>4. \A r \in Refs : /\ M[r].state = ref[r].state /\ M[r].art = ref[r].art
                      /\ M[r].sess = IF r \in T THEN c ELSE ref[r].sess
  BY <1>1, <1>3, MovedRows
<1>5. M \in [Refs -> Ref] /\ \A r \in Refs : M[r].sess \in Sessions
  <2>1. M \in [Refs -> Ref]
    BY <1>1, <1>3, MovedType
  <2> QED BY <2>1 DEF Ref
<1>6. D[s] = "DRAFT" /\ D[c] = "DRAFT" /\ \A x \in Sessions : x # s /\ x # c => D[x] = sess[x]
  BY <1>2, <1>3
<1> HIDE DEF M, D
<1>7. LinkedIn(M, art, D)
  <2> SUFFICES ASSUME NEW r \in Refs
               PROVE  /\ M[r].art # None => M[r].state \in {"ATTACHED", "RELEASED"}
                      /\ M[r].state = "RELEASED" /\ M[r].art # None => D[M[r].sess] \in {"APPLIED", "CLOSED"}
                      /\ M[r].state = "ATTACHED" =>
                           /\ M[r].art \in Artifacts /\ IsArtRow(art, M[r].art)
                           /\ art[M[r].art].doc \in {DocOf[r], None}
                           /\ D[M[r].sess] = "CONFIRMED" => art[M[r].art].doc # None
    BY DEF LinkedIn
  <2>1. /\ ref[r].art # None => ref[r].state \in {"ATTACHED", "RELEASED"}
        /\ ref[r].state = "RELEASED" /\ ref[r].art # None => sess[ref[r].sess] \in {"APPLIED", "CLOSED"}
        /\ ref[r].state = "ATTACHED" =>
             /\ ref[r].art \in Artifacts /\ IsArtRow(art, ref[r].art)
             /\ art[ref[r].art].doc \in {DocOf[r], None}
             /\ sess[ref[r].sess] = "CONFIRMED" => art[ref[r].art].doc # None
    BY DEF Linked, LinkedIn
  <2>2. ref[r].state = "RELEASED" => r \notin T
    OBVIOUS
  <2>3. D[M[r].sess] \in {"DRAFT", sess[ref[r].sess]}
    BY <1>1, <1>4, <1>6
  <2>4. ref[r].state = "RELEASED" /\ ref[r].art # None => ref[r].sess # s /\ ref[r].sess # c /\ D[ref[r].sess] = sess[ref[r].sess]
    BY <1>1, <1>3, <1>6, <2>1
  <2>5. M[r].state = "RELEASED" /\ M[r].art # None => D[M[r].sess] \in {"APPLIED", "CLOSED"}
    BY <1>4, <2>1, <2>2, <2>4
  <2> QED BY <1>4, <2>1, <2>3, <2>5
<1>8. LinkedIn(Released(M, s), art, sess')
  BY <1>1, <1>2, <1>5, <1>7, ReleaseLinks DEF D
<1>9. Released(M, s) \in [Refs -> Ref] /\ Commit(Released(M, s), art, claimed \cup Cl, {})
  BY <1>2, <1>5, ReleasedType DEF M
<1>10. Retired'
  BY <1>1, <1>9, CommitRetires
<1> QED BY <1>1, <1>8, <1>9, <1>10, CommitLinks

\* A deletion retires a document under its attachments, and sends their sessions to review.
LEMMA DeletionLinks ==
  ASSUME IInv, Linked, NEW a \in Artifacts, DeleteLastClaim(a)
  PROVE  Linked' /\ Retired'
<1>1. /\ ref \in [Refs -> Ref] /\ art \in [Artifacts -> Art] /\ sess \in [Sessions -> SessStates]
      /\ \A r \in Refs : ref[r].sess \in Sessions
  BY DEF IInv, TypeOK, Ref
<1>2. /\ Commit(ref, art, claimed \ {a}, {a})
      /\ \A s \in Sessions : sess'[s] = IF s \in Invalidated(a) THEN "REVIEW_REQUIRED" ELSE sess[s]
  BY DEF DeleteLastClaim
<1>3. Retired'
  BY <1>1, <1>2, CommitRetires
<1>4. /\ \A r \in Refs : \/ ref'[r] = ref[r]
                         \/ ref'[r].art = None /\ ref'[r].state = "DELETED"
      /\ \A r \in Refs : ref[r].art \in Artifacts /\ ref[r].state # "RELEASED" =>
           /\ ref[r].art \notin {a} => art'[ref[r].art] = art[ref[r].art]
           /\ ref[r].art \in {a} => /\ art'[ref[r].art].doc = None
                                    /\ IsArtRow(art, ref[r].art) => IsArtRow(art', ref[r].art)
  BY <1>1, <1>2, CommitLeaves
<1>5. ASSUME NEW r \in Refs
      PROVE  /\ ref'[r].art # None => ref'[r].state \in {"ATTACHED", "RELEASED"}
             /\ ref'[r].state = "RELEASED" /\ ref'[r].art # None => sess'[ref'[r].sess] \in {"APPLIED", "CLOSED"}
             /\ ref'[r].state = "ATTACHED" =>
                  /\ ref'[r].art \in Artifacts /\ IsArtRow(art', ref'[r].art)
                  /\ art'[ref'[r].art].doc \in {DocOf[r], None}
                  /\ sess'[ref'[r].sess] = "CONFIRMED" => art'[ref'[r].art].doc # None
  <2>1. CASE ref'[r] # ref[r]
    BY <1>4, <2>1
  <2>2. CASE ref'[r] = ref[r]
    <3>1. /\ ref[r].art # None => ref[r].state \in {"ATTACHED", "RELEASED"}
          /\ ref[r].state = "RELEASED" /\ ref[r].art # None => sess[ref[r].sess] \in {"APPLIED", "CLOSED"}
          /\ ref[r].state = "ATTACHED" =>
               /\ ref[r].art \in Artifacts /\ IsArtRow(art, ref[r].art)
               /\ art[ref[r].art].doc \in {DocOf[r], None}
               /\ sess[ref[r].sess] = "CONFIRMED" => art[ref[r].art].doc # None
      BY DEF Linked, LinkedIn
    <3>2. sess[ref[r].sess] \in {"APPLIED", "CLOSED"} => sess'[ref[r].sess] = sess[ref[r].sess]
      BY <1>1, <1>2 DEF Invalidated, Active
    <3>3. ASSUME ref[r].state = "ATTACHED"
          PROVE  /\ IsArtRow(art', ref[r].art)
                 /\ art'[ref[r].art].doc \in {DocOf[r], None}
                 /\ sess'[ref[r].sess] = "CONFIRMED" => art'[ref[r].art].doc # None
      <4>1. CASE ref[r].art = a
        <5>1. art'[a].doc = None /\ IsArtRow(art', a)
          BY <1>4, <3>1, <3>3, <4>1 DEF IsArtRow
        <5>2. sess'[ref[r].sess] # "CONFIRMED"
          BY <1>1, <1>2, <3>3, <4>1 DEF Invalidated, Attached, Active
        <5> QED BY <4>1, <5>1, <5>2
      <4>2. CASE ref[r].art # a
        <5>1. art'[ref[r].art] = art[ref[r].art]
          BY <1>4, <3>1, <3>3, <4>2
        <5>2. sess'[ref[r].sess] \in {"REVIEW_REQUIRED", sess[ref[r].sess]}
          BY <1>1, <1>2
        <5> QED BY <3>1, <3>3, <5>1, <5>2 DEF IsArtRow
      <4> QED BY <4>1, <4>2
    <3> QED BY <2>2, <3>1, <3>2, <3>3
  <2> QED BY <2>1, <2>2
<1> QED BY <1>3, <1>5 DEF Linked, LinkedIn

\* What finalize attaches is there, and stays there whatever the triggers retire.
LEMMA FinalizeLinks ==
  ASSUME IInv, Linked, NEW r \in Refs, NEW a \in Artifacts, FinalizeAdopt(r, a) \/ FinalizeShare(r, a)
  PROVE  Linked' /\ Retired' /\ art'[a].state = "RAW_READY"
<1>1. /\ ref \in [Refs -> Ref] /\ art \in [Artifacts -> Art] /\ sess \in [Sessions -> SessStates]
      /\ \A q \in Refs : ref[q] \in Ref /\ ref[q].sess \in Sessions
  BY DEF IInv, TypeOK, Ref
<1>2. /\ ref[r].state = "RESERVED" /\ sess[ref[r].sess] = "DRAFT" /\ UNCHANGED sess
      /\ DocOf[r] # None /\ a # None
  BY VaultAssumption DEF FinalizeAdopt, FinalizeShare, ValidClaim, VaultAssumption, Docs, Keys
<1>3. PICK row \in Ref, A \in [Artifacts -> Art] :
        /\ Commit([ref EXCEPT ![r] = row], A, claimed, {})
        /\ row.sess = ref[r].sess
        /\ \/ row.state = "ATTACHED" /\ row.art = a
           \/ row.state = "RELEASED" /\ row.art = None /\ Duplicate(r, a)
        /\ A[a].state = "RAW_READY" /\ A[a].doc = DocOf[r]
        /\ \A b \in Artifacts : b # a => A[b] = art[b]
        /\ IsArtRow(art, a) => art[a].doc = DocOf[r]
  <2>1. /\ Settled(r, a) \in Ref /\ Settled(r, a).sess = ref[r].sess
        /\ \/ Settled(r, a).state = "ATTACHED" /\ Settled(r, a).art = a
           \/ Settled(r, a).state = "RELEASED" /\ Settled(r, a).art = None /\ Duplicate(r, a)
    <3>1. Settled(r, a) \in Ref
      BY <1>1, SettledType
    <3> QED BY <1>1, <3>1 DEF Settled, Ref
  <2>2. CASE FinalizeAdopt(r, a)
    <3> DEFINE row == [Settled(r, a) EXCEPT !.temp = FALSE]
               new == [state |-> "RAW_READY", doc |-> DocOf[r], key |-> r, ocr |-> FALSE]
    <3>1. row \in Ref /\ new \in Art
      BY <2>1, KeptType, StoredType
    <3>2. row.state = Settled(r, a).state /\ row.art = Settled(r, a).art /\ row.sess = Settled(r, a).sess
      BY <2>1 DEF Ref
    <3>3. Commit([ref EXCEPT ![r] = row], [art EXCEPT ![a] = new], claimed, {})
      BY <2>2 DEF FinalizeAdopt
    <3>4. new.state = "RAW_READY" /\ new.doc = DocOf[r]
      OBVIOUS
    <3>5. IsArtRow(art, a) => art[a].doc = DocOf[r]
      BY <2>2 DEF FinalizeAdopt, Vacant, IsArtRow
    <3> HIDE DEF row, new
    <3>6. [art EXCEPT ![a] = new] \in [Artifacts -> Art]
      BY <1>1, <3>1
    <3>7. [art EXCEPT ![a] = new][a] = new /\ \A b \in Artifacts : b # a => [art EXCEPT ![a] = new][b] = art[b]
      BY <1>1
    <3> QED BY <2>1, <3>1, <3>2, <3>3, <3>4, <3>5, <3>6, <3>7
  <2>3. CASE FinalizeShare(r, a)
    <3> DEFINE row == [Settled(r, a) EXCEPT !.pending = TRUE]
    <3>1. row \in Ref
      BY <2>1, PendingType
    <3>2. row.state = Settled(r, a).state /\ row.art = Settled(r, a).art /\ row.sess = Settled(r, a).sess
      BY <2>1 DEF Ref
    <3>3. Commit([ref EXCEPT ![r] = row], art, claimed, {}) /\ art[a].doc = DocOf[r] /\ art[a].state = "RAW_READY"
      BY <2>3 DEF FinalizeShare, Shares
    <3> HIDE DEF row
    <3> QED BY <1>1, <2>1, <3>1, <3>2, <3>3
  <2> QED BY <2>2, <2>3
<1> DEFINE R == [ref EXCEPT ![r] = row]
<1>4. R \in [Refs -> Ref] /\ R[r] = row /\ \A q \in Refs : q # r => R[q] = ref[q]
  BY <1>1
<1>5. Commit(R, A, claimed, {})
  BY <1>3
<1> HIDE DEF R
<1>6. \E q \in Refs : R[q].art = a /\ R[q].state = "ATTACHED"
  <2>1. CASE row.state = "ATTACHED"
    BY <1>3, <1>4, <2>1
  <2>2. CASE row.state # "ATTACHED"
    <3>1. PICK q \in Refs \ {r} : ref[q].sess = ref[r].sess /\ ref[q].art = a
      BY <1>3, <2>2 DEF Duplicate
    <3>2. ref[q].state = "ATTACHED"
      BY <1>2, <3>1 DEF Linked, LinkedIn
    <3> QED BY <1>4, <3>1, <3>2
  <2> QED BY <2>1, <2>2
<1>7. LinkedIn(R, A, sess')
  <2> SUFFICES ASSUME NEW q \in Refs
               PROVE  /\ R[q].art # None => R[q].state \in {"ATTACHED", "RELEASED"}
                      /\ R[q].state = "RELEASED" /\ R[q].art # None => sess[R[q].sess] \in {"APPLIED", "CLOSED"}
                      /\ R[q].state = "ATTACHED" =>
                           /\ R[q].art \in Artifacts /\ IsArtRow(A, R[q].art)
                           /\ A[R[q].art].doc \in {DocOf[q], None}
                           /\ sess[R[q].sess] = "CONFIRMED" => A[R[q].art].doc # None
    BY <1>2 DEF LinkedIn
  <2>1. CASE q = r
    BY <1>2, <1>3, <1>4, <2>1 DEF IsArtRow
  <2>2. CASE q # r
    <3>1. /\ ref[q].art # None => ref[q].state \in {"ATTACHED", "RELEASED"}
          /\ ref[q].state = "RELEASED" /\ ref[q].art # None => sess[ref[q].sess] \in {"APPLIED", "CLOSED"}
          /\ ref[q].state = "ATTACHED" =>
               /\ ref[q].art \in Artifacts /\ IsArtRow(art, ref[q].art)
               /\ art[ref[q].art].doc \in {DocOf[q], None}
               /\ sess[ref[q].sess] = "CONFIRMED" => art[ref[q].art].doc # None
      BY DEF Linked, LinkedIn
    <3>2. CASE ref[q].art = a /\ ref[q].state = "ATTACHED"
      <4>1. DocOf[r] = DocOf[q]
        BY <1>2, <1>3, <3>1, <3>2
      <4> QED BY <1>2, <1>3, <1>4, <2>2, <3>1, <3>2, <4>1 DEF IsArtRow
    <3>3. CASE ~(ref[q].art = a /\ ref[q].state = "ATTACHED")
      <4>1. ref[q].state = "ATTACHED" => A[ref[q].art] = art[ref[q].art]
        BY <1>3, <3>1, <3>3
      <4> QED BY <1>4, <2>2, <3>1, <4>1 DEF IsArtRow
    <3> QED BY <3>2, <3>3
  <2> QED BY <2>1, <2>2
<1>8. Linked'
  BY <1>3, <1>4, <1>5, <1>7, CommitLinks
<1>9. Retired'
  BY <1>3, <1>4, <1>5, CommitRetires
<1>10. art'[a] = A[a]
  <2>1. \A q \in Refs : R[q].art \in Artifacts /\ R[q].state # "RELEASED" => art'[R[q].art] = A[R[q].art]
    BY <1>3, <1>4, <1>5, CommitLeaves
  <2> QED BY <1>6, <2>1
<1> QED BY <1>3, <1>8, <1>9, <1>10

\* A purge that completes gives back the bytes of a row nobody is attached to.
LEMMA CompleteLinks ==
  ASSUME IInv, FInv, Linked, Retired, NEW k \in Keys, Complete(k)
  PROVE  Linked' /\ Retired'
<1>1. /\ ref \in [Refs -> Ref] /\ art \in [Artifacts -> Art] /\ UNCHANGED sess
      /\ \A q \in Refs : ref[q] \in Ref
      /\ \A a \in Artifacts : art[a] \in Art
  BY DEF IInv, TypeOK, Complete
<1>2. CASE UNCHANGED <<ref, art, claimed>>
  <2>1. LinksQuiet /\ SessionsQuiet
    BY <1>1, <1>2 DEF LinksQuiet, SessionsQuiet, IsArtRow
  <2> QED BY <2>1, QuietLinks, QuietRetired
<1>3. CASE ~UNCHANGED <<ref, art, claimed>>
  <2> DEFINE row == [ref[k] EXCEPT !.temp = FALSE, !.pending = FALSE]
             R == IF k \in Refs THEN [ref EXCEPT ![k] = row] ELSE ref
             new == [art[k] EXCEPT !.state = "PURGED", !.key = None]
             A == IF k \in Refs THEN art ELSE [art EXCEPT ![k] = new]
  <2>1. Commit(R, A, claimed, {})
    BY <1>3 DEF Complete
  <2>2. k \in Refs => row \in Ref /\ row.state = ref[k].state /\ row.art = ref[k].art /\ row.sess = ref[k].sess
    BY <1>1, ErasedType DEF Ref
  <2>3. k \in Artifacts => new \in Art /\ new.state = "PURGED"
    BY <1>1, PurgedType DEF Art
  <2>4. Refs \cap Artifacts = {} /\ (k \notin Refs => k \in Artifacts)
    BY VaultAssumption DEF VaultAssumption, Keys
  <2>5. k \in Artifacts => Attached(ref, k) = {}
    BY <2>4 DEF Complete, FInv, Purges, Matches
  <2> HIDE DEF row, new
  <2>6. R \in [Refs -> Ref] /\ A \in [Artifacts -> Art]
    BY <1>1, <2>2, <2>3, <2>4
  <2>7. /\ \A q \in Refs : R[q].state = ref[q].state /\ R[q].art = ref[q].art /\ R[q].sess = ref[q].sess
        /\ \A b \in Artifacts : b # k => A[b] = art[b]
    BY <1>1, <2>2, <2>4
  <2> HIDE DEF R, A
  <2>8. LinkedIn(R, A, sess')
    <3>1. \A q \in Refs : ref[q].state = "ATTACHED" => A[ref[q].art] = art[ref[q].art]
      BY <2>5, <2>7 DEF Linked, LinkedIn, Attached
    <3> QED BY <1>1, <2>7, <3>1 DEF Linked, LinkedIn, IsArtRow
  <2> QED BY <2>1, <2>6, <2>8, CommitLinks, CommitRetires
<1> QED BY <1>2, <1>3

LEMMA InitLinks == Init => Linked /\ Retired
<1> SUFFICES ASSUME Init PROVE Linked /\ Retired
  OBVIOUS
<1>1. \A r \in Refs : ref[r].state = "ABSENT" /\ ref[r].art = None
  BY DEF Init, AbsentRef
<1>2. Unlinked(ref, art, claimed) = {}
  BY DEF Init, Unlinked, IsArtRow, NoRow
<1> QED BY <1>1, <1>2 DEF Linked, LinkedIn, Retired, RetirementIsSettled, Swept

LEMMA StepLinks == IInv /\ FInv /\ Linked /\ Retired /\ [Next]_vars => Linked' /\ Retired'
<1> SUFFICES ASSUME IInv, FInv, Linked, Retired, [Next]_vars PROVE Linked' /\ Retired'
  OBVIOUS
<1>1. CASE SessionNext
  <2>1. CASE \E s \in Sessions : OpenSession(s) \/ Confirm(s) \/ Edit(s) \/ RetentionEnds(s)
    BY <2>1, SessionLinks, QuietLinks, QuietRetired
  <2>2. CASE \E s \in Sessions : Cancel(s) \/ Expire(s) \/ Apply(s)
    BY <2>2, ClosingLinks, ApplyLinks
  <2>3. CASE \E a \in Artifacts : DeleteLastClaim(a)
    BY <2>3, DeletionLinks
  <2> QED BY <1>1, <2>1, <2>2, <2>3 DEF SessionNext
<1>2. UNCHANGED sess => SessionsQuiet
  BY DEF SessionsQuiet
<1>3. CASE UNCHANGED <<ref, art, claimed, sess>>
  <2>1. LinksQuiet
    BY <1>3 DEF LinksQuiet, IsArtRow
  <2> QED BY <1>2, <1>3, <2>1, QuietLinks, QuietRetired
<1>4. ASSUME NEW k \in Keys, Capture(k) PROVE Linked' /\ Retired'
  BY <1>2, <1>4, CaptureLinks, QuietLinks, QuietRetired
<1>5. CASE UploadNext
  <2>1. PICK r \in Refs :
          \/ Reserve(r) \/ LeaseExpires(r) \/ Claim(r) \/ EnterUpload(r) \/ RecheckUpload(r)
          \/ OpenBlob(r) \/ StreamDone(r) \/ UploadStops(r) \/ SelfFence(r)
          \/ \E a \in Artifacts : FinalizeAdopt(r, a) \/ FinalizeShare(r, a) \/ FinalizeBlocked(r, a)
          \/ UploadPurges(r) \/ JoinPurge(r) \/ PurgeNotEligible(r)
          \/ OcrAttempt(r)
    BY <1>5 DEF UploadNext
  <2>2. CASE Reserve(r) \/ LeaseExpires(r) \/ Claim(r) \/ SelfFence(r) \/ OcrAttempt(r)
    BY <1>2, <2>2, UploadLinks, QuietLinks, QuietRetired
  <2>3. CASE \/ EnterUpload(r) \/ RecheckUpload(r) \/ OpenBlob(r) \/ StreamDone(r) \/ UploadStops(r)
             \/ JoinPurge(r) \/ PurgeNotEligible(r) \/ \E a \in Artifacts : FinalizeBlocked(r, a)
    BY <1>3, <2>3 DEF EnterUpload, RecheckUpload, OpenBlob, StreamDone, UploadStops, JoinPurge, PurgeNotEligible,
                      FinalizeBlocked, UpStep, db
  <2>4. CASE \E a \in Artifacts : FinalizeAdopt(r, a) \/ FinalizeShare(r, a)
    BY <2>4, FinalizeLinks
  <2>5. CASE UploadPurges(r)
    <3>1. CASE up[r].on \in Keys
      BY <1>4, <2>5, <3>1 DEF UploadPurges
    <3>2. CASE up[r].on \notin Keys
      BY <1>3, <2>5, <3>2 DEF UploadPurges, Capture, Keys
    <3> QED BY <3>1, <3>2
  <2> QED BY <2>1, <2>2, <2>3, <2>4, <2>5
<1>6. CASE ReadNext
  BY <1>3, <1>6 DEF ReadNext, AdmitRead, EnterRead, RecheckRead, OpenRead, EndRead, RdStep, db
<1>7. CASE PurgeNext
  <2>1. PICK k \in Keys : \/ ReaperPurges(k) \/ Fence(k) \/ Drained(k) \/ DrainTimeout(k)
                          \/ Match(k) \/ Rename(k) \/ RemoveTrash(k) \/ Complete(k)
    BY <1>7 DEF PurgeNext
  <2>2. CASE Complete(k)
    BY <2>2, CompleteLinks
  <2>3. CASE ReaperPurges(k)
    BY <1>4, <2>3 DEF ReaperPurges
  <2> QED BY <1>3, <2>1, <2>2, <2>3 DEF Fence, Drained, DrainTimeout, Match, Rename, RemoveTrash, db
<1>8. CASE MishapNext
  BY <1>3, <1>8 DEF MishapNext, Crash, PurgeFails, UncertainUploadClose, UncertainReadClose, SelfFenceFails, db
<1>9. CASE UNCHANGED vars
  BY <1>3, <1>9 DEF vars, db
<1> QED BY <1>1, <1>5, <1>6, <1>7, <1>8, <1>9 DEF Next

\* Between two transactions nothing is half retired: what nobody refers to has lost its
\* identity and waits for its bytes to go, or is gone; and a document that a confirmed
\* session is about to apply is the one it was attached to (the retirement triggers,
\* retirement_invalidates_attached_sessions).
THEOREM RetirementStaysClean == Spec => []RetirementIsClean
<1>1. Linked /\ Retired => RetirementIsClean
  BY DEF Linked, LinkedIn, Retired, RetirementIsClean, ConfirmedDocumentsAreLive
<1>2. Spec => [](Linked /\ Retired)
  BY InitLinks, StepLinks, Inductive, BytesStayOwned, PTL DEF Spec
<1> QED BY <1>1, <1>2, PTL

----------------------------------------------------------------------------
(* Custody: the steps of the vault are steps of DocumentCustody *)

\* What a step may do to blob b, said of the vault.
BlobStep(b) ==
  \/ Life(b) = "NONE" /\ Life(b)' = "KEPT"
  \/ Life(b) = "NONE" /\ Life(b)' = "GONE" /\ Holders(b)' = {}
  \/ Life(b) = "KEPT" /\ Life(b)' = "KEPT" /\ Holders(b) \subseteq Holders(b)'
  \/ Life(b)' = Life(b) /\ Holders(b)' \subseteq Holders(b)
  \/ Life(b) = "KEPT" /\ Life(b)' = "CONDEMNED" /\ Holders(b)' \subseteq Holders(b)
  \/ /\ Life(b) = "CONDEMNED" /\ Holders(b) = {} /\ Reading(b) = {}
     /\ Life(b)' = "GONE" /\ Holders(b)' = {}

\* An upload that becomes the original, or finds one, is stored or joins; whatever
\* else changes rows condemns, discards or leaves.
LEMMA BlobTypes ==
  \A b \in Refs : /\ Life(b) \in Custody!Lives /\ Life(b)' \in Custody!Lives
                  /\ Holders(b) \subseteq Refs /\ Holders(b)' \subseteq Refs
                  /\ Reading(b) \subseteq Refs /\ Reading(b)' \subseteq Refs
BY DEF Life, Holders, Reading, Custody!Lives

LEMMA BlobsMove ==
  ASSUME \A b \in Refs : BlobStep(b), UNCHANGED rd
  PROVE  Custody!Next
<1>1. [b \in Refs |-> Reading(b)]' = [b \in Refs |-> Reading(b)]
  BY DEF Reading
<1>2. /\ [b \in Refs |-> Life(b)]' \in [Refs -> Custody!Lives]
      /\ [b \in Refs |-> Holders(b)]' \in [Refs -> SUBSET Refs]
  BY BlobTypes
<1>3. ASSUME NEW b \in Refs
      PROVE  \/ Custody!Store(b) \/ Custody!Discard(b) \/ Custody!Join(b) \/ Custody!Leave(b)
             \/ Custody!Condemn(b) \/ Custody!Erase(b)
  <2>1. BlobStep(b)  OBVIOUS
  <2> QED BY <2>1 DEF BlobStep, Custody!Store, Custody!Discard, Custody!Join, Custody!Leave,
                      Custody!Condemn, Custody!Erase
<1> QED BY <1>1, <1>2, <1>3 DEF Custody!Next, Custody!Transaction

\* Rows and whole files as they were: only descriptors come and go.
Unmoved == /\ UNCHANGED <<ref, art>>
           /\ \A x \in Refs : disk'[x] = "WHOLE" <=> disk[x] = "WHOLE"

LEMMA UnmovedBlobs ==
  ASSUME Unmoved
  PROVE  \A b \in Refs : Life(b)' = Life(b) /\ Holders(b)' = Holders(b) /\ OwnerRow(b)' = OwnerRow(b)
BY DEF Unmoved, Life, Holders, OwnerRow

LEMMA ReadersClose ==
  ASSUME Unmoved, \A b \in Refs : Reading(b)' \subseteq Reading(b)
  PROVE  Custody!Next
<1>1. /\ [b \in Refs |-> Life(b)]' = [b \in Refs |-> Life(b)]
      /\ [b \in Refs |-> Holders(b)]' = [b \in Refs |-> Holders(b)]
  BY UnmovedBlobs
<1>2. [b \in Refs |-> Reading(b)]' \in [Refs -> SUBSET Refs]
  BY BlobTypes
<1> QED BY <1>1, <1>2 DEF Custody!Next, Custody!Close

LEMMA ReaderOpens ==
  ASSUME Unmoved, NEW r \in Refs, NEW h \in Refs, Life(h) \in {"KEPT", "CONDEMNED"},
         \A b \in Refs : Reading(b)' = IF b = h THEN Reading(b) \cup {r} ELSE Reading(b)
  PROVE  Custody!Next
<1>1. /\ [b \in Refs |-> Life(b)]' = [b \in Refs |-> Life(b)]
      /\ [b \in Refs |-> Holders(b)]' = [b \in Refs |-> Holders(b)]
  BY UnmovedBlobs
<1>2. [b \in Refs |-> Reading(b)]' = [[b \in Refs |-> Reading(b)] EXCEPT ![h] = @ \cup {r}]
  OBVIOUS
<1>3. [b \in Refs |-> Life(b)][h] \in {"KEPT", "CONDEMNED"}
  OBVIOUS
<1> QED BY <1>1, <1>2, <1>3 DEF Custody!Next, Custody!Open

\* The steps that neither store nor erase: documents lose holders and are condemned, an
\* upload that fails is discarded.
LEMMA QuietBlob ==
  ASSUME IInv, FInv, RowsQuiet, UNCHANGED fs, NEW b \in Refs
  PROVE  BlobStep(b)
<1>1. OwnerRow(b)' = OwnerRow(b)
  BY DEF RowsQuiet, ArtsQuiet, OwnerRow
<1>2. Holders(b)' \subseteq Holders(b)
  BY <1>1 DEF Holders, RowsQuiet, RefsQuiet
<1>3. b # None
  BY VaultAssumption DEF VaultAssumption, Keys
<1>4. CASE OwnerRow(b) = {}
  <2>1. Holders(b)' = {}
    BY <1>1, <1>4 DEF Holders
  <2>2. ref'[b].state \in {"ABSENT", "RESERVED"} => ref[b].state \in {"ABSENT", "RESERVED"}
    BY DEF RowsQuiet, RefsQuiet
  <2> QED BY <1>1, <1>2, <1>4, <2>1, <2>2 DEF BlobStep, Life
<1>5. CASE OwnerRow(b) # {}
  <2>1. (\E a \in OwnerRow(b) : art'[a].state = "RAW_READY") => \E a \in OwnerRow(b) : art[a].state = "RAW_READY"
    BY <1>3 DEF RowsQuiet, ArtsQuiet, OwnerRow
  <2>2. disk' = disk
    BY DEF fs
  <2> QED BY <1>1, <1>2, <1>5, <2>1, <2>2 DEF BlobStep, Life
<1> QED BY <1>4, <1>5

LEMMA QuietBlobs ==
  ASSUME IInv, FInv, RowsQuiet, UNCHANGED <<fs, rd>>
  PROVE  Custody!Next
<1>1. UNCHANGED fs /\ UNCHANGED rd  OBVIOUS
<1> QED BY <1>1, QuietBlob, BlobsMove

LEMMA ReserveBlobs ==
  ASSUME IInv, FInv, NEW r \in Refs, Reserve(r)
  PROVE  Custody!Next
<1>1. UNCHANGED <<art, disk, rd>> /\ \A q \in Refs : q # r => ref'[q] = ref[q]
  BY DEF Reserve, fs, proc, IInv, TypeOK
<1>2. ref[r].state = "ABSENT" /\ ref'[r].state = "RESERVED"
  BY DEF Reserve, AbsentRef, IInv, TypeOK
<1>3. ASSUME NEW b \in Refs PROVE BlobStep(b)
  <2>1. OwnerRow(b)' = OwnerRow(b)
    BY <1>1 DEF OwnerRow
  <2>2. Life(b)' = Life(b) /\ Holders(b)' \subseteq Holders(b)
    BY <1>1, <1>2, <2>1 DEF Life, Holders
  <2> QED BY <2>2 DEF BlobStep
<1> QED BY <1>1, <1>3, BlobsMove

\* The bytes of an upload are nobody's document yet.
LEMMA StreamBlobs ==
  ASSUME IInv, FInv, NEW r \in Refs, OpenBlob(r) \/ StreamDone(r)
  PROVE  Custody!Next
<1>1. UNCHANGED <<ref, art, rd>> /\ \A q \in Refs : q # r => disk'[q] = disk[q]
  BY DEF OpenBlob, StreamDone, UpStep, db, IInv, TypeOK
<1>2. OwnerRow(r) = {}
  BY DEF OpenBlob, StreamDone, FInv, Streams, SoleOwners, OwnerRow
<1>3. ASSUME NEW b \in Refs PROVE BlobStep(b)
  <2>1. OwnerRow(b)' = OwnerRow(b)
    BY <1>1 DEF OwnerRow
  <2>2. Life(b)' = Life(b) /\ Holders(b)' \subseteq Holders(b)
    BY <1>1, <1>2, <2>1 DEF Life, Holders
  <2> QED BY <2>2 DEF BlobStep
<1> QED BY <1>1, <1>3, BlobsMove

\* The upload that brings the original stores it; its bytes are whole.
LEMMA AdoptBlobs ==
  ASSUME IInv, IInv', FInv, Linked, NEW r \in Refs, NEW a \in Artifacts, FinalizeAdopt(r, a)
  PROVE  Custody!Next
<1>1. /\ UNCHANGED <<disk, rd>>
      /\ ref[r].state = "RESERVED" /\ ref[r].temp /\ disk[r] = "WHOLE"
      /\ \A q \in Refs : q # r =>
           \/ ref'[q] = ref[q]
           \/ ref[q].state = "RELEASED" /\ ref'[q].state = "DELETED"
      /\ ref'[r].state \in {"ATTACHED", "RELEASED", "DELETED"}
      /\ ref'[r].state = "ATTACHED" => ref'[r].art = a
  BY FinalizeRows DEF fs
<1>2. /\ art[a].key = None /\ art'[a].key = r
      /\ \A x \in Artifacts : x # a =>
           /\ art'[x].key = art[x].key
           /\ art[x].key # None =>
                /\ art'[x].state \in {"RAW_READY", "PURGING"}
                /\ art'[x].state = "RAW_READY" => art[x].state = "RAW_READY"
  BY AdoptRows
<1>3. r # None /\ OwnerRow(r) = {} /\ OwnerRow(r)' = {a}
  BY <1>1, <1>2, VaultAssumption DEF VaultAssumption, Keys, FInv, SoleOwners, OwnerRow
<1>4. Life(r) = "NONE" /\ Holders(r) = {}
  BY <1>1, <1>3 DEF Life, Holders
<1>5. BlobStep(r)
  <2>1. Life(r)' = IF art'[a].state = "RAW_READY" THEN "KEPT" ELSE "CONDEMNED"
    BY <1>1, <1>3 DEF Life
  <2>2. art'[a].state = "RAW_READY"
    BY FinalizeLinks
  <2> QED BY <1>4, <2>1, <2>2 DEF BlobStep
<1>6. ASSUME NEW b \in Refs, b # r PROVE BlobStep(b)
  <2>1. b # None
    BY VaultAssumption DEF VaultAssumption, Keys
  <2>2. OwnerRow(b)' = OwnerRow(b) /\ a \notin OwnerRow(b)
    BY <1>2, <1>6, <2>1 DEF OwnerRow
  <2>3. Holders(b)' \subseteq Holders(b)
    BY <1>1, <2>2 DEF Holders
  <2>4. CASE OwnerRow(b) = {}
    BY <1>1, <1>6, <2>2, <2>3, <2>4 DEF Life, BlobStep
  <2>5. CASE OwnerRow(b) # {}
    <3>1. (\E x \in OwnerRow(b) : art'[x].state = "RAW_READY") => \E x \in OwnerRow(b) : art[x].state = "RAW_READY"
      BY <1>2, <2>1, <2>2 DEF OwnerRow
    <3> QED BY <1>1, <2>2, <2>3, <2>5, <3>1 DEF Life, BlobStep
  <2> QED BY <2>4, <2>5
<1> QED BY <1>1, <1>5, <1>6, BlobsMove

\* The upload that finds the original joins its holders; its own bytes are discarded.
LEMMA ShareBlobs ==
  ASSUME IInv, IInv', FInv, Linked, NEW r \in Refs, NEW a \in Artifacts, FinalizeShare(r, a)
  PROVE  Custody!Next
<1>1. /\ UNCHANGED <<disk, rd>>
      /\ ref[r].state = "RESERVED" /\ ref[r].temp
      /\ \A q \in Refs : q # r =>
           \/ ref'[q] = ref[q]
           \/ ref[q].state = "RELEASED" /\ ref'[q].state = "DELETED"
      /\ ref'[r].state \in {"ATTACHED", "RELEASED", "DELETED"}
      /\ ref'[r].state = "ATTACHED" => ref'[r].art = a
  BY FinalizeRows DEF fs
<1>2. art[a].state = "RAW_READY" /\ ArtsQuiet
  BY ShareRows
<1>3. r # None /\ OwnerRow(r) = {}
  BY <1>1, VaultAssumption DEF VaultAssumption, Keys, FInv, SoleOwners, OwnerRow
<1>4. ASSUME NEW b \in Refs PROVE BlobStep(b)
  <2>1. b # None
    BY VaultAssumption DEF VaultAssumption, Keys
  <2>2. OwnerRow(b)' = OwnerRow(b)
    BY <1>2 DEF ArtsQuiet, OwnerRow
  <2>3. CASE OwnerRow(b) = {}
    <3>1. Holders(b)' = {}
      BY <2>2, <2>3 DEF Holders
    <3> QED BY <1>1, <2>2, <2>3, <3>1 DEF Life, BlobStep
  <2>4. CASE OwnerRow(b) # {} /\ a \notin OwnerRow(b)
    <3>1. Holders(b)' \subseteq Holders(b)
      BY <1>1, <2>2, <2>4 DEF Holders
    <3>2. (\E x \in OwnerRow(b) : art'[x].state = "RAW_READY") => \E x \in OwnerRow(b) : art[x].state = "RAW_READY"
      BY <1>2, <2>1 DEF OwnerRow, ArtsQuiet
    <3> QED BY <1>1, <2>2, <2>4, <3>1, <3>2 DEF Life, BlobStep
  <2>5. CASE a \in OwnerRow(b)
    <3>1. disk[b] = "WHOLE" /\ Life(b) = "KEPT"
      BY <1>2, <2>1, <2>5 DEF FInv, StoredIsWhole, OwnerRow, Life
    <3>2. art'[a].state = "RAW_READY"
      BY FinalizeLinks
    <3>3. Life(b)' = "KEPT"
      BY <1>1, <2>2, <2>5, <3>1, <3>2 DEF Life
    <3>4. Holders(b) \subseteq Holders(b)'
      BY <1>1, <2>2 DEF Holders
    <3> QED BY <3>1, <3>3, <3>4 DEF BlobStep
  <2> QED BY <2>3, <2>4, <2>5
<1> QED BY <1>1, <1>4, BlobsMove

\* The rename is the erasure: the document was condemned, nobody holds or reads it.
LEMMA RenameBlobs ==
  ASSUME IInv, FInv, NEW k \in Keys, Rename(k)
  PROVE  Custody!Next
<1>0. purge[k].pc = "MATCHED"
  BY DEF Rename
<1> PICK h \in Refs : h = purge[k].home
  BY <1>0 DEF IInv, ProcsBacked, PurgeHasHome
<1>1. /\ UNCHANGED <<ref, art, rd>>
      /\ disk' = [disk EXCEPT ![h] = "NONE"]
  BY DEF Rename, db
<1>2. /\ \A x \in Refs : x # h => disk'[x] = disk[x]
      /\ disk'[h] = "NONE"
  BY <1>1 DEF IInv, TypeOK
<1>3. Matches(k) /\ (k \in Refs => h = k) /\ \A r \in Refs : ~(rd[r].pc \in RdEntered /\ rd[r].art = k)
  BY <1>0 DEF FInv, Purges, PastDrain
<1>4. Refs \cap Artifacts = {} /\ (k \notin Refs => k \in Artifacts) /\ None \notin Refs
  BY VaultAssumption DEF VaultAssumption, Keys
<1>5. \A b \in Refs : OwnerRow(b)' = OwnerRow(b) /\ Holders(b)' = Holders(b)
  BY <1>1 DEF OwnerRow, Holders
<1>6. ASSUME NEW b \in Refs, b # h PROVE BlobStep(b)
  <2>1. Life(b)' = Life(b)
    BY <1>1, <1>2, <1>5, <1>6 DEF Life
  <2> QED BY <1>5, <2>1 DEF BlobStep
<1>7. BlobStep(h)
  <2>1. CASE k \in Refs
    <3>1. OwnerRow(h) = {}
      BY <1>2, <1>3, <2>1 DEF Matches, FInv, SoleOwners, OwnerRow
    <3>2. Life(h)' = Life(h)
      BY <1>1, <1>2, <1>5, <3>1 DEF Life
    <3> QED BY <1>2, <1>5, <3>2 DEF BlobStep
  <2>2. CASE k \in Artifacts
    <3>1. art[k].state = "PURGING" /\ art[k].key = h /\ Attached(ref, k) = {}
      BY <1>3, <1>4, <2>2 DEF Matches
    <3>2. OwnerRow(h) = {k}
      BY <1>2, <1>4, <2>2, <3>1 DEF FInv, SoleOwners, OwnerRow
    <3>3. Holders(h) = {}
      BY <3>1, <3>2 DEF Holders, Attached
    <3>4. Reading(h) = {}
      <4> SUFFICES ASSUME NEW r \in Refs, rd[r].pc = "READING", rd[r].key = h PROVE FALSE
        BY DEF Reading
      <4>1. art[rd[r].art].key = h /\ rd[r].art \in Artifacts
        BY DEF FInv, Reads, IInv, ProcsBacked, ReadHasArtifact
      <4>2. rd[r].art = k
        BY <3>2, <4>1 DEF OwnerRow
      <4> QED BY <1>3, <4>2 DEF RdEntered
    <3>5. Life(h) \in {"CONDEMNED", "GONE"} /\ Life(h)' = "GONE"
      BY <1>2, <1>5, <3>1, <3>2 DEF Life
    <3> QED BY <1>2, <1>5, <3>3, <3>4, <3>5 DEF BlobStep
  <2> QED BY <1>4, <2>1, <2>2
<1> QED BY <1>1, <1>6, <1>7, BlobsMove

\* A purge completes when the directory is gone: the row that owned it lets go.
LEMMA CompleteBlobs ==
  ASSUME IInv, IInv', FInv, NEW k \in Keys, Complete(k)
  PROVE  Custody!Next
<1>0. purge[k].pc = "ERASED"
  BY DEF Complete
<1> PICK h \in Refs : h = purge[k].home
  BY <1>0 DEF IInv, ProcsBacked, PurgeHasHome
<1>1. UNCHANGED <<disk, rd>> /\ disk[h] = "NONE"
  BY DEF Complete, fs
<1>2. Matches(k) /\ (k \in Refs => h = k)
  BY <1>0 DEF FInv, Purges
<1>3. Refs \cap Artifacts = {} /\ (k \notin Refs => k \in Artifacts) /\ None \notin Refs
  BY VaultAssumption DEF VaultAssumption, Keys
<1>4. CASE UNCHANGED <<ref, art>>
  <2>1. \A b \in Refs : Life(b)' = Life(b) /\ Holders(b)' = Holders(b)
    BY <1>1, <1>4, UnmovedBlobs DEF Unmoved
  <2> QED BY <1>1, <2>1, BlobsMove DEF BlobStep
<1>5. CASE ~UNCHANGED <<ref, art>>
  <2>1. /\ \A q \in Refs : q # k =>
             \/ ref'[q] = ref[q]
             \/ ref[q].state = "RELEASED" /\ ref'[q].state = "DELETED"
        /\ k \in Refs => ref'[k].state \in {ref[k].state, "DELETED"} /\ ref'[k].art \in {ref[k].art, None}
        /\ \A b \in Artifacts : b # k =>
             /\ art'[b].key = art[b].key
             /\ art[b].key # None =>
                  /\ art'[b].state \in {"RAW_READY", "PURGING"}
                  /\ art'[b].state = "RAW_READY" => art[b].state = "RAW_READY"
        /\ k \in Artifacts => art'[k].key = None
    BY <1>5, CompleteRows
  <2>2. \A q \in Refs : /\ ref'[q].state = ref[q].state \/ ref'[q].state = "DELETED"
                        /\ ref'[q].state = "ATTACHED" => ref[q].state = "ATTACHED" /\ ref'[q].art \in {ref[q].art, None}
    BY <1>3, <2>1
  <2>3. None \notin Artifacts
    BY VaultAssumption DEF VaultAssumption, Keys
  <2>4. k \in Artifacts => art[k].key = h
    BY <1>2, <1>3 DEF Matches
  <2>5. ASSUME NEW b \in Refs, k \notin OwnerRow(b) PROVE BlobStep(b)
    <3>1. OwnerRow(b)' = OwnerRow(b)
      BY <1>3, <2>1, <2>5 DEF OwnerRow
    <3>2. Holders(b)' \subseteq Holders(b)
      BY <2>2, <2>3, <3>1 DEF Holders, OwnerRow
    <3>3. CASE OwnerRow(b) = {}
      <4>1. Holders(b)' = {}
        BY <3>1, <3>3 DEF Holders
      <4> QED BY <2>2, <3>1, <3>2, <3>3, <4>1 DEF BlobStep, Life
    <3>4. CASE OwnerRow(b) # {}
      <4>1. (\E x \in OwnerRow(b) : art'[x].state = "RAW_READY") => \E x \in OwnerRow(b) : art[x].state = "RAW_READY"
        BY <1>3, <2>1, <2>5 DEF OwnerRow
      <4> QED BY <1>1, <3>1, <3>2, <3>4, <4>1 DEF BlobStep, Life
    <3> QED BY <3>3, <3>4
  <2>6. ASSUME NEW b \in Refs, k \in OwnerRow(b) PROVE BlobStep(b)
    <3>1. k \in Artifacts /\ b = h
      BY <2>4, <2>6 DEF OwnerRow
    <3>2. OwnerRow(h) = {k}
      BY <1>2, <1>3, <2>4, <3>1 DEF FInv, SoleOwners, OwnerRow
    <3>3. OwnerRow(h)' = {}
      BY <1>2, <1>3, <2>1, <2>4, <3>1, <3>2 DEF OwnerRow
    <3>4. ref[h].state \notin {"ABSENT", "RESERVED"} /\ ref'[h].state \notin {"ABSENT", "RESERVED"}
      <4>1. ref[h].state \notin {"ABSENT", "RESERVED"}
        BY <1>2, <2>4, <3>1 DEF FInv, SoleOwners, Reservations
      <4> QED BY <1>2, <2>2, <4>1
    <3>5. Life(h) = "GONE" /\ Life(h)' = "GONE" /\ Holders(h)' = {}
      BY <1>1, <3>2, <3>3, <3>4 DEF Life, Holders
    <3> QED BY <3>1, <3>5 DEF BlobStep
  <2> QED BY <1>1, <2>5, <2>6, BlobsMove
<1> QED BY <1>4, <1>5

\* Descriptors come and go; what is opened is a stored original.
LEMMA ReadBlobs ==
  ASSUME IInv, FInv, ReadNext
  PROVE  Custody!Next
<1>1. PICK r \in Refs : AdmitRead(r) \/ EnterRead(r) \/ RecheckRead(r) \/ OpenRead(r) \/ EndRead(r)
  BY DEF ReadNext
<1>2. rd \in [Refs -> Download] /\ Unmoved /\ \A q \in Refs : q # r => rd'[q] = rd[q]
  BY <1>1 DEF IInv, TypeOK, AdmitRead, EnterRead, RecheckRead, OpenRead, EndRead, RdStep, db, fs, Unmoved
<1>3. CASE rd'[r].pc # "READING"
  <2>1. \A b \in Refs : Reading(b)' \subseteq Reading(b)
    BY <1>2, <1>3 DEF Reading
  <2> QED BY <1>2, <2>1, ReadersClose
<1>4. CASE rd'[r].pc = "READING"
  <2>1. OpenRead(r)
    <3>1. AdmitRead(r) => rd'[r].pc = "CAPTURED"
      BY <1>2 DEF AdmitRead, IdleRd
    <3>2. EnterRead(r) => rd'[r].pc \in {"IDLE", "ENTERED"}
      BY <1>2 DEF EnterRead, IdleRd, Download
    <3>3. RecheckRead(r) => rd'[r].pc = "CHECKED"
      BY <1>2 DEF RecheckRead, Download
    <3>4. EndRead(r) => rd'[r].pc = "IDLE"
      BY <1>2 DEF EndRead, IdleRd
    <3> QED BY <1>1, <1>4, <3>1, <3>2, <3>3, <3>4
  <2> PICK h : h = rd[r].key
    OBVIOUS
  <2>2. rd'[r].key = h /\ rd[r].pc = "CHECKED"
    BY <1>2, <2>1 DEF OpenRead, Download
  <2>3. /\ h # None /\ art[rd[r].art].key = h /\ disk[h] = "WHOLE"
        /\ rd[r].art \in Artifacts /\ h \in Refs
    BY <1>2, <2>2 DEF FInv, Reads, IInv, ProcsBacked, ReadHasArtifact, Download
  <2>4. Life(h) \in {"KEPT", "CONDEMNED"}
    BY <2>3 DEF Life, OwnerRow
  <2>5. \A b \in Refs : Reading(b)' = IF b = h THEN Reading(b) \cup {r} ELSE Reading(b)
    BY <1>2, <1>4, <2>2 DEF Reading
  <2> QED BY <1>2, <2>3, <2>4, <2>5, ReaderOpens
<1> QED BY <1>3, <1>4

LEMMA PurgeBlobs ==
  ASSUME IInv, IInv', FInv, PurgeNext
  PROVE  Custody!Next
<1>1. PICK k \in Keys : \/ ReaperPurges(k) \/ Fence(k) \/ Drained(k) \/ DrainTimeout(k)
                        \/ Match(k) \/ Rename(k) \/ RemoveTrash(k) \/ Complete(k)
  BY DEF PurgeNext
<1>2. CASE ReaperPurges(k)
  <2>1. RowsQuiet /\ UNCHANGED <<fs, rd>>
    BY <1>2, CaptureQuiet DEF ReaperPurges, Capture
  <2> QED BY <2>1, QuietBlobs
<1>3. CASE Fence(k)
  <2>1. Unmoved
    BY <1>3 DEF Fence, db, fs, Unmoved
  <2>2. \A q \in Refs : rd'[q].pc = rd[q].pc /\ rd'[q].key = rd[q].key
    BY <1>3 DEF Fence, IInv, TypeOK, Download
  <2>3. \A b \in Refs : Reading(b)' \subseteq Reading(b)
    BY <2>2 DEF Reading
  <2> QED BY <2>1, <2>3, ReadersClose
<1>4. CASE Drained(k) \/ DrainTimeout(k) \/ Match(k) \/ RemoveTrash(k)
  <2>1. Unmoved /\ UNCHANGED rd
    BY <1>4 DEF Drained, DrainTimeout, Match, RemoveTrash, db, fs, Unmoved
  <2>2. \A b \in Refs : Reading(b)' \subseteq Reading(b)
    BY <2>1 DEF Reading
  <2> QED BY <2>1, <2>2, ReadersClose
<1> QED BY <1>1, <1>2, <1>3, <1>4, RenameBlobs, CompleteBlobs

LEMMA MishapBlobs ==
  ASSUME IInv, FInv, MishapNext
  PROVE  Custody!Next
<1>1. Unmoved
  <2>1. CASE Crash
    <3>1. PICK lost \in SUBSET {r \in Refs : disk[r] = "PARTIAL"} :
            disk' = [r \in Refs |-> IF r \in lost THEN "NONE" ELSE disk[r]]
      BY <2>1 DEF Crash
    <3>2. \A x \in Refs : disk'[x] = "WHOLE" <=> disk[x] = "WHOLE"
      BY <3>1
    <3> QED BY <2>1, <3>2 DEF Crash, db, Unmoved
  <2>2. CASE ~Crash
    BY <2>2 DEF MishapNext, PurgeFails, UncertainUploadClose, UncertainReadClose, SelfFenceFails, db, fs, Unmoved
  <2> QED BY <2>1, <2>2
<1>2. \A q \in Refs : rd'[q] = rd[q] \/ rd'[q] = IdleRd
  BY DEF MishapNext, Crash, PurgeFails, UncertainUploadClose, UncertainReadClose, SelfFenceFails, IInv, TypeOK
<1>3. \A b \in Refs : Reading(b)' \subseteq Reading(b)
  BY <1>2 DEF Reading, IdleRd
<1> QED BY <1>1, <1>3, ReadersClose

LEMMA UploadBlobs ==
  ASSUME IInv, IInv', FInv, Linked, UploadNext
  PROVE  Custody!Next
<1>1. PICK r \in Refs :
        \/ Reserve(r) \/ LeaseExpires(r) \/ Claim(r) \/ EnterUpload(r) \/ RecheckUpload(r)
        \/ OpenBlob(r) \/ StreamDone(r) \/ UploadStops(r) \/ SelfFence(r)
        \/ \E a \in Artifacts : FinalizeAdopt(r, a) \/ FinalizeShare(r, a) \/ FinalizeBlocked(r, a)
        \/ UploadPurges(r) \/ JoinPurge(r) \/ PurgeNotEligible(r)
        \/ OcrAttempt(r)
  BY DEF UploadNext
<1>2. CASE Reserve(r) \/ OpenBlob(r) \/ StreamDone(r)
  BY <1>2, ReserveBlobs, StreamBlobs
<1>3. CASE \E a \in Artifacts : FinalizeAdopt(r, a) \/ FinalizeShare(r, a)
  BY <1>3, AdoptBlobs, ShareBlobs
<1>4. CASE \/ LeaseExpires(r) \/ Claim(r) \/ EnterUpload(r) \/ RecheckUpload(r) \/ UploadStops(r) \/ SelfFence(r)
           \/ (\E a \in Artifacts : FinalizeBlocked(r, a))
           \/ UploadPurges(r) \/ JoinPurge(r) \/ PurgeNotEligible(r) \/ OcrAttempt(r)
  <2>1. RowsQuiet
    BY <1>4, UploadQuiet
  <2>2. UNCHANGED fs /\ UNCHANGED rd
    BY <1>4 DEF LeaseExpires, Claim, EnterUpload, RecheckUpload, UploadStops, SelfFence, FinalizeBlocked,
                UploadPurges, Capture, JoinPurge, PurgeNotEligible, OcrAttempt, UpStep, proc
  <2> QED BY <2>1, <2>2, QuietBlobs
<1> QED BY <1>1, <1>2, <1>3, <1>4

LEMMA InitBlobs == Init => Custody!Init
<1> SUFFICES ASSUME Init PROVE Custody!Init
  OBVIOUS
<1>1. \A b \in Refs : OwnerRow(b) = {}
  BY VaultAssumption DEF VaultAssumption, Keys, Init, NoRow, OwnerRow
<1>2. \A b \in Refs : Life(b) = "NONE" /\ Holders(b) = {} /\ Reading(b) = {}
  BY <1>1 DEF Init, AbsentRef, IdleRd, Life, Holders, Reading
<1> QED BY <1>2 DEF Custody!Init

LEMMA StepBlobs == IInv /\ IInv' /\ FInv /\ Linked /\ [Next]_vars => [Custody!Next]_Custody!vars
<1> SUFFICES ASSUME IInv, IInv', FInv, Linked, [Next]_vars PROVE [Custody!Next]_Custody!vars
  OBVIOUS
<1>1. CASE SessionNext
  <2>1. RowsQuiet /\ UNCHANGED fs /\ UNCHANGED proc
    BY <1>1, SessionQuiet, SessionRows, DeleteLastClaimRows DEF SessionNext, IInv
  <2> QED BY <2>1, QuietBlobs DEF proc
<1>2. CASE UNCHANGED vars
  <2>1. Unmoved /\ UNCHANGED rd
    BY <1>2 DEF vars, db, fs, proc, Unmoved
  <2>2. \A b \in Refs : Reading(b)' \subseteq Reading(b)
    BY <2>1 DEF Reading
  <2> QED BY <2>1, <2>2, ReadersClose
<1> QED BY <1>1, <1>2, UploadBlobs, ReadBlobs, PurgeBlobs, MishapBlobs DEF Next

\* The vault is an abstract custody of documents: a document outlives whoever holds or
\* reads it, is condemned for good, is erased once, after the last holder has left and
\* the last descriptor is closed, and its directory is never filled again.
THEOREM VaultImplementsCustody == Spec => ImplementsCustody
<1>1. Spec => []Linked
  <2>1. Spec => [](Linked /\ Retired)
    BY InitLinks, StepLinks, Inductive, BytesStayOwned, PTL DEF Spec
  <2> QED BY <2>1, PTL
<1> QED BY <1>1, InitBlobs, StepBlobs, Inductive, BytesStayOwned, PTL DEF Spec, ImplementsCustody, Custody!Spec

----------------------------------------------------------------------------
(* Limits: how many uploads write *)

Claimed(r) == ref[r].state = "RESERVED" /\ ref[r].gen = 2
Taken == {r \in Refs : Claimed(r) \/ up[r].pc \in {"CHECKED", "WRITING"}}

\* Slots may exceed the limit, by a failed claim that enters the registry late, but
\* not the claims that may write.  A handover leaves an attachment with its owner.
Throttled ==
  /\ \A r \in Refs : Owner[ref[r].sess] = Owner[HomeOf[r]]
  /\ IsFiniteSet(Slots)
  /\ Cardinality(Taken) <= MaxUploads
  /\ \A q, r \in Taken : Owner[HomeOf[q]] = Owner[HomeOf[r]] => q = r

\* No claim, and no upload behind a claim that does not stand.
KeptRow(row, r) == /\ row.state = "RESERVED" /\ row.gen = 2 => Claimed(r)
                   /\ Owner[row.sess] = Owner[HomeOf[r]]
RowsKept == \A r \in Refs : KeptRow(ref'[r], r)
UpsKept ==
  \A r \in Refs : up'[r].pc \in {"CHECKED", "WRITING"} =>
    up[r].pc \in {"CHECKED", "WRITING"} \/ Claimed(r)

\* At most x enters the registry.
Enters(x) ==
  \A r \in Refs : r \in leaked' \/ up'[r].pc \in UpEntered =>
    r \in leaked \/ up[r].pc \in UpEntered \/ r = x

LEMMA SameKept ==
  ASSUME Throttled
  PROVE  /\ UNCHANGED ref => RowsKept
         /\ UNCHANGED up => UpsKept
         /\ \A x : UNCHANGED <<up, leaked>> => Enters(x)
BY DEF Throttled, RowsKept, KeptRow, Claimed, UpsKept, Enters

\* A claim is counted; what was counted before had room.
LEMMA ThrottleKept ==
  ASSUME Throttled, RowsKept, UpsKept, NEW x, Enters(x)
  PROVE  Throttled'
<1>1. Taken' \subseteq Taken
  BY DEF Taken, RowsKept, KeptRow, UpsKept, Claimed
<1>2. Taken \subseteq Slots /\ Slots' \subseteq Slots \cup {x}
  BY DEF Taken, Slots, Claimed, UpEntered, Enters, RowsKept, KeptRow
<1>3. IsFiniteSet(Slots) /\ IsFiniteSet(Slots \cup {x})
  BY FS_AddElement DEF Throttled
<1>4. IsFiniteSet(Slots') /\ IsFiniteSet(Taken)
  BY <1>2, <1>3, FS_Subset
<1>5. Cardinality(Taken') <= Cardinality(Taken) /\ Cardinality(Taken) \in Nat /\ Cardinality(Taken') \in Nat
  BY <1>1, <1>4, FS_Subset, FS_CardinalityType
<1>6. Cardinality(Taken') <= MaxUploads
  BY <1>5, VaultAssumption DEF Throttled, VaultAssumption
<1>7. \A r \in Refs : Owner[ref'[r].sess] = Owner[HomeOf[r]]
  BY DEF RowsKept, KeptRow
<1> QED BY <1>1, <1>4, <1>6, <1>7 DEF Throttled

LEMMA ClaimThrottled ==
  ASSUME IInv, Throttled, NEW r \in Refs, Claim(r)
  PROVE  Throttled'
<1>1. /\ ref[r] \in Ref /\ ref \in [Refs -> Ref] /\ up \in [Refs -> Upload]
      /\ UNCHANGED leaked
      /\ ref' = [ref EXCEPT ![r].gen = 2]
      /\ Cardinality(Slots) < MaxUploads /\ SlotsOf(Owner[ref[r].sess]) = {}
  BY DEF Claim, IInv, TypeOK
<1>2. \A q \in Refs : /\ ref'[q].sess = ref[q].sess
                      /\ q # r => ref'[q] = ref[q] /\ up'[q] = up[q]
  BY <1>1 DEF Claim, Ref
<1>3. up'[r].pc = "CLAIMED"
  BY <1>1 DEF Claim, IdleUp
<1>4. Taken' \subseteq Taken \cup {r} /\ Slots' \subseteq Slots \cup {r} /\ Taken \subseteq Slots
  BY <1>1, <1>2, <1>3 DEF Taken, Slots, Claimed, UpEntered
<1>5. IsFiniteSet(Slots) /\ IsFiniteSet(Slots \cup {r})
  BY FS_AddElement DEF Throttled
<1>6. IsFiniteSet(Slots') /\ IsFiniteSet(Taken) /\ IsFiniteSet(Taken \cup {r})
  BY <1>4, <1>5, FS_Subset, FS_AddElement
<1>7. /\ Cardinality(Taken) <= Cardinality(Slots)
      /\ Cardinality(Taken \cup {r}) <= Cardinality(Taken) + 1
      /\ Cardinality(Taken') <= Cardinality(Taken \cup {r})
      /\ Cardinality(Taken) \in Nat /\ Cardinality(Slots) \in Nat
      /\ Cardinality(Taken') \in Nat /\ Cardinality(Taken \cup {r}) \in Nat
  <2>1. IsFiniteSet(Taken')
    BY <1>4, <1>6, FS_Subset
  <2>2. Cardinality(Taken) \in Nat
    BY <1>6, FS_CardinalityType
  <2>3. Cardinality(Taken \cup {r}) \in {Cardinality(Taken), Cardinality(Taken) + 1}
    BY <1>6, FS_AddElement
  <2>4. Cardinality(Taken \cup {r}) <= Cardinality(Taken) + 1
    BY <2>2, <2>3
  <2> QED BY <1>4, <1>5, <1>6, <2>1, <2>4, FS_Subset, FS_CardinalityType
<1>8. Cardinality(Taken') <= MaxUploads
  BY <1>1, <1>7, VaultAssumption DEF VaultAssumption
<1>9. \A q \in Refs : Owner[ref'[q].sess] = Owner[HomeOf[q]]
  BY <1>2 DEF Throttled
<1>10. \A q \in Taken : Owner[HomeOf[q]] # Owner[HomeOf[r]]
  BY <1>1, <1>4 DEF SlotsOf, Throttled, Taken
<1>11. \A p, q \in Taken' : Owner[HomeOf[p]] = Owner[HomeOf[q]] => p = q
  BY <1>4, <1>10 DEF Throttled
<1> QED BY <1>6, <1>8, <1>9, <1>11 DEF Throttled

LEMMA CommitKept ==
  ASSUME IInv, NEW R \in [Refs -> Ref], NEW A, NEW C, NEW F, Commit(R, A, C, F),
         \A r \in Refs : KeptRow(R[r], r)
  PROVE  RowsKept
<1>1. \A r \in Refs : ref'[r] \in {R[r], GoneRef(r)}
  BY DEF Commit
<1>2. \A r \in Refs : GoneRef(r).state = "DELETED" /\ GoneRef(r).sess = HomeOf[r]
  BY DEF GoneRef, AbsentRef
<1>3. \A r \in Refs : KeptRow(GoneRef(r), r)
  BY <1>2 DEF KeptRow
<1> QED BY <1>1, <1>3 DEF RowsKept

LEMMA ReleasedKept ==
  ASSUME NEW R \in [Refs -> Ref], NEW s, \A r \in Refs : KeptRow(R[r], r)
  PROVE  \A r \in Refs : KeptRow(Released(R, s)[r], r)
<1>1. \A r \in Refs : Released(R, s)[r] = R[r] \/ Released(R, s)[r] = Release(R[r])
  BY DEF Released
<1>2. \A r \in Refs : Release(R[r]).state = "RELEASED" /\ Release(R[r]).sess = R[r].sess
  BY ReleaseRow
<1> QED BY <1>1, <1>2 DEF KeptRow

LEMMA SessionKept ==
  ASSUME IInv, Throttled, SessionNext
  PROVE  RowsKept /\ UpsKept /\ \E x : Enters(x)
<1>1. UNCHANGED <<up, leaked>>
  BY SessionRows, DeleteLastClaimRows DEF SessionNext, IInv, proc
<1>2. /\ ref \in [Refs -> Ref] /\ \A r \in Refs : KeptRow(ref[r], r)
      /\ \A r \in Refs : ref[r] \in Ref
  BY DEF IInv, TypeOK, Throttled, KeptRow, Claimed
<1>3. ASSUME NEW s \in Sessions, OpenSession(s) \/ Confirm(s) \/ Edit(s) \/ RetentionEnds(s)
      PROVE  RowsKept
  BY <1>3, SameKept DEF OpenSession, Confirm, Edit, RetentionEnds
<1>4. ASSUME NEW s \in Sessions, Cancel(s) \/ Expire(s)
      PROVE  RowsKept
  <2>1. Commit(Released(ref, s), art, claimed, {})
    BY <1>4 DEF Cancel, Expire
  <2> QED BY <1>2, <2>1, ReleasedKept, ReleasedType, CommitKept
<1>5. ASSUME NEW s \in Sessions, Apply(s)
      PROVE  RowsKept
  <2>1. PICK Cl \in SUBSET Claimable(s),
             T \in SUBSET {r \in Refs : ref[r].sess = s /\ ref[r].state \in {"ATTACHED", "FAILED"}},
             c \in {s} \cup {x \in Late : sess[x] = "NEW" /\ Owner[x] = Owner[s]} :
          Commit(Released(Moved(T, c), s), art, claimed \cup Cl, {})
    BY <1>5 DEF Apply
  <2>2. c \in Sessions /\ Owner[c] = Owner[s]
    BY VaultAssumption DEF VaultAssumption
  <2>3. Moved(T, c) \in [Refs -> Ref] /\ Released(Moved(T, c), s) \in [Refs -> Ref]
    BY <1>2, <2>2, MovedType, ReleasedType
  <2>4. \A r \in Refs : KeptRow(Moved(T, c)[r], r)
    <3> SUFFICES ASSUME NEW r \in Refs PROVE KeptRow(Moved(T, c)[r], r)
      OBVIOUS
    <3>1. CASE r \in T
      <4>1. /\ Moved(T, c)[r].state = ref[r].state /\ Moved(T, c)[r].sess = c
        BY <1>2, <2>2, <3>1, MovedRows
      <4>2. Owner[c] = Owner[HomeOf[r]] /\ ref[r].state # "RESERVED"
        BY <1>2, <2>2, <3>1 DEF KeptRow
      <4> QED BY <4>1, <4>2 DEF KeptRow
    <3>2. CASE r \notin T
      BY <1>2, <3>2 DEF Moved
    <3> QED BY <3>1, <3>2
  <2> QED BY <2>1, <2>3, <2>4, ReleasedKept, CommitKept
<1>6. ASSUME NEW a \in Artifacts, DeleteLastClaim(a)
      PROVE  RowsKept
  BY <1>2, <1>6, CommitKept DEF DeleteLastClaim
<1> QED BY <1>1, <1>3, <1>4, <1>5, <1>6, SameKept DEF SessionNext

LEMMA CaptureKept ==
  ASSUME IInv, Throttled, NEW k, Capture(k)
  PROVE  RowsKept
<1>1. \A r \in Refs : ref[r] \in Ref /\ (ref'[r] = ref[r] \/ ref'[r] = Failed(ref[r]))
  BY DEF Capture, IInv, TypeOK
<1>2. \A r \in Refs : Failed(ref[r]).state = "FAILED" /\ Failed(ref[r]).sess = ref[r].sess
  BY <1>1, FailedRow
<1> QED BY <1>1, <1>2 DEF RowsKept, KeptRow, Claimed, Throttled

LEMMA EndingKept ==
  ASSUME IInv, NEW k, NEW ok, PurgeEnds(k, ok), UNCHANGED leaked
  PROVE  UpsKept /\ \A x : Enters(x)
<1>1. \A u \in Upload : Resume(u, ok).pc \in {"STORED", "FAILING"}
  BY DEF Resume, Upload
<1>2. \A r \in Refs : up[r] \in Upload
  BY DEF IInv, TypeOK
<1>3. \A r \in Refs : up'[r] = up[r] \/ up'[r].pc \in {"STORED", "FAILING"}
  BY <1>1, <1>2 DEF PurgeEnds
<1> QED BY <1>3 DEF UpsKept, Enters, UpEntered

LEMMA UploadKept ==
  ASSUME IInv, Throttled, NEW r \in Refs,
         \/ Reserve(r) \/ LeaseExpires(r) \/ EnterUpload(r) \/ RecheckUpload(r)
         \/ OpenBlob(r) \/ StreamDone(r) \/ UploadStops(r) \/ SelfFence(r)
         \/ (\E a \in Artifacts : FinalizeAdopt(r, a) \/ FinalizeShare(r, a) \/ FinalizeBlocked(r, a))
         \/ UploadPurges(r) \/ JoinPurge(r) \/ PurgeNotEligible(r)
         \/ OcrAttempt(r)
  PROVE  RowsKept /\ UpsKept /\ Enters(r)
<1>1. /\ ref \in [Refs -> Ref] /\ up \in [Refs -> Upload]
      /\ ref[r] \in Ref /\ up[r] \in Upload /\ HomeOf[r] \in Sessions
      /\ \A q \in Refs : KeptRow(ref[q], q)
      /\ \A q \in Refs : ref[q] \in Ref
  BY VaultAssumption DEF VaultAssumption, IInv, TypeOK, Throttled, KeptRow, Claimed
<1>2. UNCHANGED leaked
  BY DEF Reserve, LeaseExpires, EnterUpload, RecheckUpload, OpenBlob, StreamDone, UploadStops, SelfFence,
         FinalizeAdopt, FinalizeShare, FinalizeBlocked, UploadPurges, Capture, JoinPurge, PurgeNotEligible,
         OcrAttempt, UpStep, proc
<1>3. ASSUME NEW row, ref' = [ref EXCEPT ![r] = row], KeptRow(row, r) PROVE RowsKept
  BY <1>1, <1>3 DEF RowsKept
<1>4. ASSUME NEW u, up' = [up EXCEPT ![r] = u],
             u.pc \in {"CHECKED", "WRITING"} => up[r].pc \in {"CHECKED", "WRITING"} \/ Claimed(r)
      PROVE  UpsKept /\ Enters(r)
  BY <1>1, <1>2, <1>4 DEF UpsKept, Enters
<1>5. CASE Reserve(r) \/ LeaseExpires(r)
  <2>1. UNCHANGED up
    BY <1>5 DEF Reserve, LeaseExpires, proc
  <2>2. CASE Reserve(r)
    <3> DEFINE row == [AbsentRef(r) EXCEPT !.state = "RESERVED", !.gen = 1, !.temp = TRUE, !.lease = TRUE]
    <3>1. row.gen = 1 /\ row.sess = HomeOf[r]
      BY DEF AbsentRef
    <3>2. ref' = [ref EXCEPT ![r] = row]
      BY <2>2 DEF Reserve
    <3> HIDE DEF row
    <3>3. KeptRow(row, r)
      BY <3>1 DEF KeptRow
    <3> QED BY <1>2, <1>3, <2>1, <3>2, <3>3, SameKept
  <2>3. CASE LeaseExpires(r)
    <3>1. ref' = [ref EXCEPT ![r] = [ref[r] EXCEPT !.lease = FALSE]]
      BY <2>3 DEF LeaseExpires
    <3>2. KeptRow([ref[r] EXCEPT !.lease = FALSE], r)
      BY <1>1 DEF KeptRow, Ref
    <3> QED BY <1>2, <1>3, <2>1, <3>1, <3>2, SameKept
  <2> QED BY <1>5, <2>2, <2>3
<1>6. CASE EnterUpload(r) \/ RecheckUpload(r) \/ OpenBlob(r) \/ StreamDone(r) \/ UploadStops(r)
  <2>1. UNCHANGED ref
    BY <1>6 DEF EnterUpload, RecheckUpload, OpenBlob, StreamDone, UploadStops, UpStep, db
  <2>2. PICK pc : /\ UpGoto(r, pc)
                  /\ pc \in {"CHECKED", "WRITING"} => up[r].pc \in {"CHECKED", "WRITING"} \/ Claimed(r)
    BY <1>6 DEF EnterUpload, RecheckUpload, OpenBlob, StreamDone, UploadStops, ValidClaim, Claimed
  <2>3. up' = [up EXCEPT ![r] = [up[r] EXCEPT !.pc = pc]] /\ [up[r] EXCEPT !.pc = pc].pc = pc
    BY <1>1, <2>2 DEF UpGoto, Upload
  <2> QED BY <1>4, <2>1, <2>2, <2>3, SameKept
<1>7. CASE SelfFence(r)
  <2>1. up' = [up EXCEPT ![r] = IdleUp] /\ IdleUp.pc = "IDLE"
    BY <1>7 DEF SelfFence, IdleUp
  <2>2. RowsKept
    <3>1. CASE ref' = ref
      BY <3>1, SameKept
    <3>2. CASE ref' = [ref EXCEPT ![r] = Failed(ref[r])]
      <4>1. KeptRow(Failed(ref[r]), r)
        BY <1>1, FailedRow DEF KeptRow
      <4> QED BY <1>3, <3>2, <4>1
    <3> QED BY <1>7, <3>1, <3>2 DEF SelfFence
  <2> QED BY <1>4, <2>1, <2>2
<1>8. CASE \E a \in Artifacts : FinalizeAdopt(r, a) \/ FinalizeShare(r, a)
  <2>1. PICK a \in Artifacts : FinalizeAdopt(r, a) \/ FinalizeShare(r, a)
    BY <1>8
  <2>2. up' = [up EXCEPT ![r] = IdleUp] /\ IdleUp.pc = "IDLE"
    BY <2>1 DEF FinalizeAdopt, FinalizeShare, IdleUp
  <2>3. Settled(r, a) \in Ref /\ Settled(r, a).state \in {"ATTACHED", "RELEASED"} /\ Settled(r, a).sess = ref[r].sess
    <3>1. Settled(r, a) \in Ref
      BY <1>1, SettledType
    <3> QED BY <1>1, <3>1 DEF Settled, Ref
  <2>4. PICK row, A : /\ row \in Ref
                      /\ Commit([ref EXCEPT ![r] = row], A, claimed, {})
                      /\ row.state \in {"ATTACHED", "RELEASED"} /\ row.sess = ref[r].sess
    <3>1. /\ [Settled(r, a) EXCEPT !.temp = FALSE] \in Ref /\ [Settled(r, a) EXCEPT !.pending = TRUE] \in Ref
          /\ [Settled(r, a) EXCEPT !.temp = FALSE].state = Settled(r, a).state
          /\ [Settled(r, a) EXCEPT !.temp = FALSE].sess = Settled(r, a).sess
          /\ [Settled(r, a) EXCEPT !.pending = TRUE].state = Settled(r, a).state
          /\ [Settled(r, a) EXCEPT !.pending = TRUE].sess = Settled(r, a).sess
      BY <2>3, KeptType, PendingType DEF Ref
    <3>2. CASE FinalizeAdopt(r, a)
      BY <2>3, <3>1, <3>2 DEF FinalizeAdopt
    <3>3. CASE FinalizeShare(r, a)
      BY <2>3, <3>1, <3>3 DEF FinalizeShare
    <3> QED BY <2>1, <3>2, <3>3
  <2>5. KeptRow(row, r)
    BY <1>1, <2>4 DEF KeptRow
  <2>6. \A q \in Refs : KeptRow([ref EXCEPT ![r] = row][q], q)
    BY <1>1, <2>5
  <2>7. [ref EXCEPT ![r] = row] \in [Refs -> Ref]
    BY <1>1, <2>4
  <2> QED BY <1>4, <2>2, <2>4, <2>6, <2>7, CommitKept
<1>9. CASE \/ (\E a \in Artifacts : FinalizeBlocked(r, a)) \/ JoinPurge(r) \/ PurgeNotEligible(r) \/ UploadPurges(r)
  <2>1. RowsKept
    <3>1. CASE UploadPurges(r)
      BY <3>1, CaptureKept DEF UploadPurges
    <3>2. CASE ~UploadPurges(r)
      BY <1>9, <3>2, SameKept DEF FinalizeBlocked, JoinPurge, PurgeNotEligible, UpStep, db
    <3> QED BY <3>1, <3>2
  <2>2. \E u : up' = [up EXCEPT ![r] = u] /\ u.pc \in {"BLOCKED", "WAITING", "STORED", "FAILING"}
    <3>1. CASE \E a \in Artifacts : FinalizeBlocked(r, a)
      <4>1. PICK a \in Artifacts : up' = [up EXCEPT ![r].pc = "BLOCKED", ![r].on = a]
        BY <3>1 DEF FinalizeBlocked
      <4>2. up' = [up EXCEPT ![r] = [up[r] EXCEPT !.pc = "BLOCKED", !.on = a]]
        BY <1>1, <4>1
      <4>3. [up[r] EXCEPT !.pc = "BLOCKED", !.on = a].pc = "BLOCKED"
        BY <1>1 DEF Upload
      <4> QED BY <4>2, <4>3
    <3>2. CASE JoinPurge(r) \/ UploadPurges(r)
      <4>1. up' = [up EXCEPT ![r] = [up[r] EXCEPT !.pc = "WAITING"]]
        BY <3>2 DEF JoinPurge, UploadPurges, UpGoto
      <4>2. [up[r] EXCEPT !.pc = "WAITING"].pc = "WAITING"
        BY <1>1 DEF Upload
      <4> QED BY <4>1, <4>2
    <3>3. CASE PurgeNotEligible(r)
      <4>1. Resume(up[r], TRUE).pc \in {"STORED", "FAILING"}
        BY <1>1 DEF Resume, Upload
      <4> QED BY <3>3, <4>1 DEF PurgeNotEligible
    <3> QED BY <1>9, <3>1, <3>2, <3>3
  <2> QED BY <1>4, <2>1, <2>2
<1>10. CASE OcrAttempt(r)
  BY <1>10, SameKept DEF OcrAttempt, proc
<1> QED BY <1>5, <1>6, <1>7, <1>8, <1>9, <1>10

LEMMA PurgeKept ==
  ASSUME IInv, Throttled, PurgeNext
  PROVE  RowsKept /\ UpsKept /\ \E x : Enters(x)
<1>1. PICK k \in Keys : \/ ReaperPurges(k) \/ Fence(k) \/ Drained(k) \/ DrainTimeout(k)
                        \/ Match(k) \/ Rename(k) \/ RemoveTrash(k) \/ Complete(k)
  BY DEF PurgeNext
<1>2. UNCHANGED leaked
  BY <1>1 DEF ReaperPurges, Capture, Fence, Drained, DrainTimeout, Match, Rename, RemoveTrash, Complete
<1>3. RowsKept
  <2>1. CASE ReaperPurges(k)
    BY <2>1, CaptureKept DEF ReaperPurges
  <2>2. CASE Complete(k)
    <3> DEFINE row == [ref[k] EXCEPT !.temp = FALSE, !.pending = FALSE]
               R == IF k \in Refs THEN [ref EXCEPT ![k] = row] ELSE ref
    <3>1. CASE UNCHANGED ref
      BY <3>1, SameKept
    <3>2. CASE ~UNCHANGED ref
      <4>1. PICK A : Commit(R, A, claimed, {})
        BY <2>2, <3>2 DEF Complete
      <4>2. /\ ref \in [Refs -> Ref] /\ \A q \in Refs : KeptRow(ref[q], q)
            /\ \A q \in Refs : ref[q] \in Ref
        BY DEF IInv, TypeOK, Throttled, KeptRow, Claimed
      <4>3. k \in Refs => row \in Ref /\ row.state = ref[k].state /\ row.gen = ref[k].gen /\ row.sess = ref[k].sess
        BY <4>2, ErasedType DEF Ref
      <4> HIDE DEF row
      <4>4. k \in Refs => KeptRow(row, k)
        BY <4>2, <4>3 DEF KeptRow
      <4>5. R \in [Refs -> Ref] /\ \A q \in Refs : KeptRow(R[q], q)
        BY <4>2, <4>3, <4>4
      <4> HIDE DEF R
      <4> QED BY <4>1, <4>5, CommitKept
    <3> QED BY <3>1, <3>2
  <2> QED BY <1>1, <2>1, <2>2, SameKept DEF Fence, Drained, DrainTimeout, Match, Rename, RemoveTrash, db
<1>4. UpsKept /\ \E x : Enters(x)
  <2>1. CASE \E ok : PurgeEnds(k, ok)
    BY <1>2, <2>1, EndingKept
  <2>2. CASE Fence(k)
    <3>1. \A r \in Refs : up'[r].pc = up[r].pc
      BY <2>2 DEF Fence, IInv, TypeOK, Upload
    <3> QED BY <1>2, <3>1 DEF UpsKept, Enters
  <2>3. CASE UNCHANGED up
    BY <1>2, <2>3, SameKept
  <2> QED BY <1>1, <2>1, <2>2, <2>3 DEF ReaperPurges, Drained, DrainTimeout, Match, Rename, RemoveTrash, Complete,
                                        PurgeGoto
<1> QED BY <1>3, <1>4

LEMMA MishapKept ==
  ASSUME IInv, Throttled, MishapNext
  PROVE  RowsKept /\ UpsKept /\ \E x : Enters(x)
<1>1. RowsKept
  BY SameKept DEF MishapNext, Crash, PurgeFails, UncertainUploadClose, UncertainReadClose, SelfFenceFails, db
<1>2. CASE Crash
  BY <1>1, <1>2 DEF Crash, IdleUp, UpsKept, Enters, UpEntered
<1>3. CASE \E k \in Keys : PurgeFails(k)
  BY <1>1, <1>3, EndingKept DEF PurgeFails
<1>4. CASE \E r \in Refs : UncertainUploadClose(r) \/ SelfFenceFails(r)
  <2>1. PICK r \in Refs : UncertainUploadClose(r) \/ SelfFenceFails(r)
    BY <1>4
  <2>2. /\ up'[r].pc \in {"FAILING", "IDLE"} /\ \A q \in Refs : q # r => up'[q] = up[q]
        /\ leaked' \in {leaked, leaked \cup {r}}
    BY <2>1 DEF UncertainUploadClose, SelfFenceFails, UpGoto, IdleUp, IInv, TypeOK, Upload
  <2>3. UpsKept /\ Enters(r)
    BY <2>2 DEF UpsKept, Enters, UpEntered
  <2> QED BY <1>1, <2>3
<1>5. CASE \E r \in Refs : UncertainReadClose(r)
  <2>1. UNCHANGED up /\ \E r \in Refs : rd[r].pc = "READING" /\ leaked' = leaked \cup {rd[r].art}
    BY <1>5 DEF UncertainReadClose
  <2>2. UpsKept /\ \E x : Enters(x)
    BY <2>1 DEF UpsKept, Enters
  <2> QED BY <1>1, <2>2
<1> QED BY <1>1, <1>2, <1>3, <1>4, <1>5 DEF MishapNext

LEMMA InitThrottled == Init => Throttled
<1> SUFFICES ASSUME Init PROVE Throttled
  OBVIOUS
<1>1. Slots = {} /\ Taken = {}
  BY DEF Init, Slots, Taken, Claimed, AbsentRef, IdleUp, UpEntered
<1>2. \A r \in Refs : ref[r].sess = HomeOf[r]
  BY DEF Init, AbsentRef
<1> QED BY <1>1, <1>2, FS_EmptySet, VaultAssumption DEF Throttled, VaultAssumption

LEMMA StepThrottled == IInv /\ Throttled /\ [Next]_vars => Throttled'
<1> SUFFICES ASSUME IInv, Throttled, [Next]_vars PROVE Throttled'
  OBVIOUS
<1>1. CASE SessionNext
  BY <1>1, SessionKept, ThrottleKept
<1>2. CASE UploadNext
  <2>1. PICK r \in Refs :
          \/ Reserve(r) \/ LeaseExpires(r) \/ Claim(r) \/ EnterUpload(r) \/ RecheckUpload(r)
          \/ OpenBlob(r) \/ StreamDone(r) \/ UploadStops(r) \/ SelfFence(r)
          \/ \E a \in Artifacts : FinalizeAdopt(r, a) \/ FinalizeShare(r, a) \/ FinalizeBlocked(r, a)
          \/ UploadPurges(r) \/ JoinPurge(r) \/ PurgeNotEligible(r)
          \/ OcrAttempt(r)
    BY <1>2 DEF UploadNext
  <2>2. CASE Claim(r)
    BY <2>2, ClaimThrottled
  <2>3. CASE ~Claim(r)
    <3>1. RowsKept /\ UpsKept /\ Enters(r)
      BY <2>1, <2>3, UploadKept
    <3> QED BY <3>1, ThrottleKept
  <2> QED BY <2>2, <2>3
<1>3. CASE ReadNext
  <2>1. UNCHANGED <<ref, up, leaked>>
    BY <1>3 DEF ReadNext, AdmitRead, EnterRead, RecheckRead, OpenRead, EndRead, RdStep, db
  <2>2. RowsKept /\ UpsKept /\ Enters(None)
    BY <2>1, SameKept
  <2> QED BY <2>2, ThrottleKept
<1>4. CASE PurgeNext
  BY <1>4, PurgeKept, ThrottleKept
<1>5. CASE MishapNext
  BY <1>5, MishapKept, ThrottleKept
<1>6. CASE UNCHANGED vars
  <2>1. RowsKept /\ UpsKept /\ Enters(None)
    BY <1>6, SameKept DEF vars, db, proc
  <2> QED BY <2>1, ThrottleKept
<1> QED BY <1>1, <1>2, <1>3, <1>4, <1>5, <1>6 DEF Next

\* No more uploads write than the tenant may have, and no user's two, although a row
\* that fails leaves its stream running for a while and a late claim may still enter
\* the registry (claim's count of rows and live descriptors; recheck under the entry).
THEOREM UploadsStayWithinLimits == Spec => []UploadsWithinLimits
<1>1. IInv /\ Throttled => UploadsWithinLimits
  <2> SUFFICES ASSUME IInv, Throttled PROVE UploadsWithinLimits
    OBVIOUS
  <2> DEFINE W == {r \in Refs : up[r].pc = "WRITING"}
  <2>1. W \subseteq Taken /\ Taken \subseteq Slots
    BY DEF Taken, Slots, Claimed, UpEntered
  <2>2. IsFiniteSet(Taken) /\ IsFiniteSet(W)
    BY <2>1, FS_Subset DEF Throttled
  <2>3. Cardinality(W) <= Cardinality(Taken) /\ Cardinality(W) \in Nat /\ Cardinality(Taken) \in Nat
    BY <2>1, <2>2, FS_Subset, FS_CardinalityType
  <2>4. Cardinality(W) <= MaxUploads
    BY <2>3, VaultAssumption DEF VaultAssumption, Throttled
  <2>5. \A q, r \in W : Owner[ref[q].sess] = Owner[ref[r].sess] => q = r
    BY <2>1 DEF Throttled
  <2> QED BY <2>4, <2>5 DEF UploadsWithinLimits
<1>2. Spec => []Throttled
  BY InitThrottled, StepThrottled, Inductive, PTL DEF Spec
<1> QED BY <1>1, <1>2, Inductive, PTL
=============================================================================
