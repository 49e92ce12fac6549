---------------------------- MODULE ImportVault ----------------------------
(***************************************************************************)
(* The vault of the guided import: the custody of an uploaded document     *)
(* from the reservation of its attachment to the erasure of its bytes.     *)
(*                                                                         *)
(* Three stores change in separate steps and must agree: the SQLite rows   *)
(* (attachments, artifacts, sessions, OCR usages, kept in step by the      *)
(* triggers of migration 20261010100000), the directories of the vault,    *)
(* and the in-memory registry of open descriptors with its fences.  Four   *)
(* kinds of process interleave: uploads, downloads, purges and the reaper; *)
(* the process may crash between any two steps.                            *)
(*                                                                         *)
(* A database transaction is one action: import-session.writer.ts takes    *)
(* the tenant row lock first, so the writers of a tenant are serial.       *)
(* One tenant, one owner project.  An attachment ("ref") is identified     *)
(* with its directory t/<ref>, an artifact or a ref with its registry key  *)
(* A:<id> or R:<id>.                                                       *)
(***************************************************************************)
EXTENDS Naturals, FiniteSets

CONSTANTS
  Refs,         \* attachment ids (import_session_artifacts rows)
  Artifacts,    \* artifact ids (import_artifacts rows), never reused
  Sessions,     \* import session ids
  Scanned,      \* documents without text, which only OCR can read
  Readers,      \* attachments whose document is downloaded
  DocOf,        \* DocOf[r]: the document (its SHA-256) whose bytes r uploads
  Owner,        \* Owner[s]: the user who owns session s
  HomeOf,       \* HomeOf[r]: the session in which r is reserved
  Late,         \* sessions that only a continuation creates
  None,         \* SQL NULL, or "nobody"
  MaxUploads,   \* IMPORT_SESSION_LIMITS.concurrentUploadsPerTenant
  WriteAttempts,\* IMPORT_SESSION_LIMITS.writeAttempts
  MaxMishaps    \* bound on crashes, I/O errors and uncertain closes

Docs == {DocOf[r] : r \in Refs}
Keys == Refs \cup Artifacts

ASSUME VaultAssumption ==
  /\ Refs \cap Artifacts = {}
  /\ None \notin Keys \cup Docs
  /\ Scanned \subseteq Docs
  /\ Readers \subseteq Refs
  /\ HomeOf \in [Refs -> Sessions]
  /\ Late \subseteq Sessions
  /\ DOMAIN DocOf = Refs
  /\ DOMAIN Owner = Sessions
  /\ MaxUploads \in Nat \ {0}
  /\ WriteAttempts \in Nat \ {0}
  /\ MaxMishaps \in Nat

VARIABLES
  ref,      \* the attachment rows
  art,      \* the artifact rows; ocr: parserVersion is one of the OCR parsers
  claimed,  \* artifacts with an observation claimed by a live expense or receipt
  sess,     \* the state of each session
  usage,    \* the OCR usage row of each attachment
  disk,     \* disk[r]: what the directory t/<r> holds
  trash,    \* <<k, r>>: directory of r moved to the trash name of purge k
  up,       \* the upload request of each attachment
  rd,       \* one download of each attachment
  purge,    \* the purge in flight for each key
  leaked,   \* keys with a registry entry whose close was uncertain
  reaper,   \* the key whose purge the reaper awaits, or None
  mishaps   \* how many mishaps have happened

db   == <<ref, art, claimed, sess, usage>>
fs   == <<disk, trash>>
proc == <<up, rd, purge, leaked, reaper>>
vars == <<db, fs, proc, mishaps>>

----------------------------------------------------------------------------
(* Rows *)

\* uploadGeneration is 1 when reserved, 2 when claimed; every later value only
\* means "superseded", so it is capped.
GenCap == 3
NextGen(g) == IF g < GenCap THEN g + 1 ELSE GenCap

RefStates == {"ABSENT", "RESERVED", "ATTACHED", "FAILED", "RELEASED", "DELETED"}
Ref == [state: RefStates, gen: 0..GenCap, sess: Sessions,
        art: Artifacts \cup {None}, temp: BOOLEAN, pending: BOOLEAN,
        lease: BOOLEAN]

\* ANALYZING, EXTRACTED and FAILED behave as RAW_READY for the vault: they hold
\* the original, can be attached, downloaded and captured by a purge.
ArtStates == {"ABSENT", "RAW_READY", "PURGING", "PURGED", "DELETED"}
Art == [state: ArtStates, doc: Docs \cup {None}, key: Refs \cup {None},
        ocr: BOOLEAN]

\* DRAFT is DRAFT or NEEDS_INPUT (the upload-editable states), CONFIRMED is
\* READY or CONFIRMED, CLOSED is CANCELLED or EXPIRED.
Active == {"DRAFT", "CONFIRMED", "REVIEW_REQUIRED"}
SessStates == Active \cup {"NEW", "APPLIED", "CLOSED"}

\* An OCR usage row: SPENT without content, KEPT with content, REVIEWED once the
\* session was edited after it, PURGED when its content is marked as purged.
Usages == {"NONE", "SPENT", "KEPT", "REVIEWED", "PURGED"}
Kept == {"KEPT", "REVIEWED"}

NoRow == [state |-> "ABSENT", doc |-> None, key |-> None, ocr |-> FALSE]
GoneArt == [NoRow EXCEPT !.state = "DELETED"]
AbsentRef(r) == [state |-> "ABSENT", gen |-> 0, sess |-> HomeOf[r], art |-> None,
                 temp |-> FALSE, pending |-> FALSE, lease |-> FALSE]
GoneRef(r) == [AbsentRef(r) EXCEPT !.state = "DELETED"]

IsArtRow(A, a) == A[a].state \in {"RAW_READY", "PURGING", "PURGED"}
Attached(R, a) == {r \in Refs : R[r].state = "ATTACHED" /\ R[r].art = a}

\* No canonical claim and no attachment other than released ones.
Unlinked(R, A, C) ==
  {a \in Artifacts : /\ IsArtRow(A, a)
                     /\ a \notin C
                     /\ \A r \in Refs : R[r].art = a => R[r].state = "RELEASED"}

\* Attachment rows the finalizing triggers delete.
Swept(R, U) ==
  {r \in Refs : /\ R[r].art \in U
                /\ R[r].state = "RELEASED"
                /\ ~R[r].temp
                /\ ~R[r].pending}

Retire(row) == [row EXCEPT !.doc = None, !.ocr = FALSE,
                           !.state = IF row.key = None THEN "PURGED" ELSE "PURGING"]

\* The row of a retired artifact goes once nothing is stored and nothing refers to it.
Finalized(R, A, U, a) ==
  IF A[a].key = None /\ \A r \in Refs : R[r].art = a => r \in Swept(R, U)
  THEN GoneArt
  ELSE Retire(A[a])

\* A swept attachment that an OCR usage row still references is a foreign-key
\* error: the whole transaction is rolled back.
Commits(R, A, C, F) ==
  \A r \in Swept(R, F \cup Unlinked(R, A, C)) : usage[r] = "NONE"

\* Mutant: only the deletion of an observation retires an artifact.
CommitUnwatched(R, A, C, F) ==
  /\ ref' = [r \in Refs |-> IF r \in Swept(R, F) THEN GoneRef(r) ELSE R[r]]
  /\ art' = [a \in Artifacts |-> IF a \in F THEN Finalized(R, A, F, a) ELSE A[a]]
  /\ claimed' = C

\* A transaction that leaves rows R and A with claims C, and whose observation
\* deletions removed the last claim of the artifacts F: the triggers retire F and
\* every unlinked artifact.
Commit(R, A, C, F) ==
  LET U == F \cup Unlinked(R, A, C)
  IN  /\ Commits(R, A, C, F)
      /\ ref' = [r \in Refs |-> IF r \in Swept(R, U) THEN GoneRef(r) ELSE R[r]]
      /\ art' = [a \in Artifacts |-> IF a \in U THEN Finalized(R, A, U, a) ELSE A[a]]
      /\ claimed' = C

----------------------------------------------------------------------------
(* Descriptors, fences *)

UpEntered == {"ENTERED", "CHECKED", "WRITING"}
UpStates  == UpEntered \cup {"IDLE", "CLAIMED", "STORED", "BLOCKED", "WAITING", "FAILING"}
RdEntered == {"ENTERED", "CHECKED", "READING"}
RdStates  == RdEntered \cup {"IDLE", "CAPTURED"}
Fencing   == {"FENCED", "DRAINED", "MATCHED", "RENAMED", "ERASED"}
PurgeStates == Fencing \cup {"IDLE", "CAPTURED"}

Upload   == [pc: UpStates, on: Artifacts \cup {None}, tries: 0..WriteAttempts,
             aborted: BOOLEAN]
Download == [pc: RdStates, art: Artifacts \cup {None}, key: Refs \cup {None},
             aborted: BOOLEAN]
Purge    == [pc: PurgeStates, home: Refs \cup {None}]

IdleUp == [pc |-> "IDLE", on |-> None, tries |-> 0, aborted |-> FALSE]
IdleRd == [pc |-> "IDLE", art |-> None, key |-> None, aborted |-> FALSE]
IdlePurge == [pc |-> "IDLE", home |-> None]

\* The purge holds its fence from abortAndDrain to the finally of purge().
Fenced(k) == purge[k].pc \in Fencing

\* Mutant: downloads are not registered.
EnteredUploads(k) == k \in leaked \/ (k \in Refs /\ up[k].pc \in UpEntered)

\* Registry entries under key k: a live upload, live downloads, a leaked lease.
Entered(k) ==
  \/ k \in leaked
  \/ k \in Refs /\ up[k].pc \in UpEntered
  \/ \E r \in Refs : rd[r].pc \in RdEntered /\ rd[r].art = k

Init ==
  /\ ref = [r \in Refs |-> AbsentRef(r)]
  /\ art = [a \in Artifacts |-> NoRow]
  /\ claimed = {}
  /\ sess = [s \in Sessions |-> "NEW"]
  /\ usage = [r \in Refs |-> "NONE"]
  /\ disk = [r \in Refs |-> "NONE"]
  /\ trash = {}
  /\ up = [r \in Refs |-> IdleUp]
  /\ rd = [r \in Refs |-> IdleRd]
  /\ purge = [k \in Keys |-> IdlePurge]
  /\ leaked = {}
  /\ reaper = None
  /\ mishaps = 0

----------------------------------------------------------------------------
(* Sessions *)

OpenSession(s) ==
  /\ sess[s] = "NEW"
  /\ s \notin Late
  /\ sess' = [sess EXCEPT ![s] = "DRAFT"]
  /\ UNCHANGED <<ref, art, claimed, usage, fs, proc, mishaps>>

InFlight(s) == {r \in Refs : ref[r].sess = s /\ ref[r].state = "RESERVED"}

\* prepare and confirm: no upload of the session is in flight, and no document it
\* is attached to was retired.
Confirm(s) ==
  /\ sess[s] \in {"DRAFT", "REVIEW_REQUIRED"}
  /\ InFlight(s) = {}
  /\ \A r \in Refs : ref[r].sess = s /\ ref[r].state = "ATTACHED" => art[ref[r].art].doc # None
  /\ sess' = [sess EXCEPT ![s] = "CONFIRMED"]
  /\ UNCHANGED <<ref, art, claimed, usage, fs, proc, mishaps>>

\* An edit sends a prepared or reviewed session back to the editor and moves its
\* expiry to seven days from now: past the seven-day deadline of every OCR usage
\* it already has.  Selecting OCR lines is such an edit.
Edit(s) ==
  /\ sess[s] \in Active
  /\ sess' = [sess EXCEPT ![s] = "DRAFT"]
  /\ usage' = [r \in Refs |-> IF ref[r].sess = s /\ usage[r] = "KEPT" THEN "REVIEWED" ELSE usage[r]]
  /\ UNCHANGED <<ref, art, claimed, fs, proc, mishaps>>

\* Mutant: the temporary bytes of a released attachment are forgotten.
ForgetfulRelease(row) ==
  [row EXCEPT !.state = "RELEASED", !.gen = NextGen(@), !.lease = FALSE, !.temp = FALSE,
              !.pending = FALSE]

\* An attachment is released: its temporary bytes are left to the purger.
Release(row) ==
  [row EXCEPT !.state = "RELEASED", !.gen = NextGen(@), !.lease = FALSE,
              !.pending = @ \/ row.temp]

\* releaseCompletedSessionAttachments: every attachment of s is released.
Released(R, s) ==
  [r \in Refs |->
     IF R[r].sess = s /\ R[r].state \in {"RESERVED", "ATTACHED", "FAILED"}
     THEN Release(R[r]) ELSE R[r]]

OcrContentPurged(s) ==
  [r \in Refs |-> IF ref[r].sess = s /\ usage[r] \in Kept THEN "PURGED" ELSE usage[r]]

\* cancel, or an execute that finds the confirmed session expired
Cancel(s) ==
  /\ sess[s] \in Active
  /\ Commit(Released(ref, s), art, claimed, {})
  /\ sess' = [sess EXCEPT ![s] = "CLOSED"]
  /\ usage' = OcrContentPurged(s)
  /\ UNCHANGED <<fs, proc, mishaps>>

\* The reaper's expiry leaves the OCR usages alone.  Its cycle purges aged OCR
\* content first, so no usage whose deadline precedes the expiry is left then.
Expire(s) ==
  /\ sess[s] \in Active
  /\ \A r \in Refs : ref[r].sess = s => usage[r] # "REVIEWED"
  /\ Commit(Released(ref, s), art, claimed, {})
  /\ sess' = [sess EXCEPT ![s] = "CLOSED"]
  /\ UNCHANGED <<usage, fs, proc, mishaps>>

\* Documents of s with observations to claim: those of a scanned document come from
\* the OCR content of an attachment and are selected by an edit.
Claimable(s) ==
  {a \in Artifacts : /\ art[a].doc # None
                     /\ \E r \in Attached(ref, a) :
                          ref[r].sess = s /\ (DocOf[r] \in Scanned => usage[r] = "REVIEWED")}

\* The attachments T are handed over to session c.
Moved(T, c) ==
  [r \in Refs |-> IF r \in T THEN [ref[r] EXCEPT !.sess = c, !.gen = NextGen(@), !.lease = FALSE]
                  ELSE ref[r]]

\* execute: claims observations of some documents, hands the attachments T over
\* to a continuation c, releases the others.
Apply(s) ==
  /\ sess[s] = "CONFIRMED"
  /\ InFlight(s) = {}
  /\ \E Cl \in SUBSET Claimable(s) :
     \E T \in SUBSET {r \in Refs : ref[r].sess = s /\ ref[r].state \in {"ATTACHED", "FAILED"}} :
     \E c \in {s} \cup {x \in Late : sess[x] = "NEW" /\ Owner[x] = Owner[s]} :
       /\ c = s => T = {}
       /\ Commit(Released(Moved(T, c), s), art, claimed \cup Cl, {})
       /\ sess' = [x \in Sessions |-> IF x = s THEN "APPLIED"
                                      ELSE IF x = c THEN "DRAFT" ELSE sess[x]]
       /\ usage' = [r \in Refs |-> IF r \in T THEN usage[r] ELSE OcrContentPurged(s)[r]]
  /\ UNCHANGED <<fs, proc, mishaps>>

\* Trigger retirement_invalidates_attached_sessions.
Invalidated(a) ==
  {s \in Sessions : sess[s] \in Active /\ \E r \in Attached(ref, a) : ref[r].sess = s}

\* The last expense or receipt that claims a document is deleted: the document's
\* identity is retired at once, and attached active sessions go to review.
DeleteLastClaim(a) ==
  /\ a \in claimed
  /\ Commit(ref, art, claimed \ {a}, {a})
  /\ sess' = [s \in Sessions |-> IF s \in Invalidated(a) THEN "REVIEW_REQUIRED" ELSE sess[s]]
  /\ UNCHANGED <<usage, fs, proc, mishaps>>

----------------------------------------------------------------------------
(* Uploads: reserve, claim, writeClaim, finalize *)

Reserve(r) ==
  /\ ref[r].state = "ABSENT"
  /\ sess[HomeOf[r]] = "DRAFT"
  /\ ref' = [ref EXCEPT ![r] = [AbsentRef(r) EXCEPT !.state = "RESERVED", !.gen = 1,
                                                    !.temp = TRUE, !.lease = TRUE]]
  /\ UNCHANGED <<art, claimed, sess, usage, fs, proc, mishaps>>

\* The clock passes uploadLeaseExpiresAt.
LeaseExpires(r) ==
  /\ ref[r].state = "RESERVED"
  /\ ref[r].lease
  /\ ref' = [ref EXCEPT ![r].lease = FALSE]
  /\ UNCHANGED <<art, claimed, sess, usage, fs, proc, mishaps>>

\* Mutant: only rows take a slot.
SlotsOfRows == {r \in Refs : ref[r].state = "RESERVED" /\ ref[r].gen = 2}

\* An upload slot is taken by a claimed row and by a live registry entry.
Slots == {r \in Refs : \/ ref[r].state = "RESERVED" /\ ref[r].gen = 2
                       \/ r \in leaked
                       \/ up[r].pc \in UpEntered}
SlotsOf(u) == {r \in Slots : Owner[ref[r].sess] = u}

Claim(r) ==
  /\ up[r].pc = "IDLE"
  /\ sess[ref[r].sess] = "DRAFT"
  /\ ref[r].state = "RESERVED" /\ ref[r].gen = 1 /\ ref[r].lease /\ ~ref[r].pending
  /\ Cardinality(Slots) < MaxUploads
  /\ SlotsOf(Owner[ref[r].sess]) = {}
  /\ ref' = [ref EXCEPT ![r].gen = 2]
  /\ up' = [up EXCEPT ![r] = [IdleUp EXCEPT !.pc = "CLAIMED"]]
  /\ UNCHANGED <<art, claimed, sess, usage, fs, rd, purge, leaked, reaper, mishaps>>

ValidClaim(r) ==
  /\ sess[ref[r].sess] = "DRAFT"
  /\ ref[r].state = "RESERVED" /\ ref[r].gen = 2 /\ ref[r].lease
  /\ ref[r].temp /\ ~ref[r].pending

UpGoto(r, pc) == up' = [up EXCEPT ![r].pc = pc]
UpStep(r) == UNCHANGED <<db, rd, purge, leaked, reaper, mishaps>>

EnterUpload(r) ==
  /\ up[r].pc = "CLAIMED"
  /\ UpGoto(r, IF Fenced(r) THEN "FAILING" ELSE "ENTERED")
  /\ UpStep(r) /\ UNCHANGED fs

\* The claim is read again under the registry entry.  CHECKED is past the last
\* look at the abort signal before the open: an abort from here on may find the
\* directory and the file already being created, and is seen after the open.
RecheckUpload(r) ==
  /\ up[r].pc = "ENTERED"
  /\ ~up[r].aborted
  /\ ValidClaim(r)
  /\ UpGoto(r, "CHECKED")
  /\ UpStep(r) /\ UNCHANGED fs

\* mkdir t/<r>, t/<r>/g2, open O_EXCL
OpenBlob(r) ==
  /\ up[r].pc = "CHECKED"
  /\ disk[r] = "NONE"
  /\ disk' = [disk EXCEPT ![r] = "PARTIAL"]
  /\ UpGoto(r, "WRITING")
  /\ UpStep(r) /\ UNCHANGED trash

\* The stream ends, the file and its directories are synced, the lease exits.
StreamDone(r) ==
  /\ up[r].pc = "WRITING"
  /\ ~up[r].aborted
  /\ disk' = [disk EXCEPT ![r] = "WHOLE"]
  /\ UpGoto(r, "STORED")
  /\ UpStep(r) /\ UNCHANGED trash

\* A fence, a deadline, a size mismatch, an I/O error or a client that goes away.
UploadStops(r) ==
  /\ up[r].pc \in UpEntered \cup {"STORED", "BLOCKED"}
  /\ UpGoto(r, "FAILING")
  /\ UpStep(r) /\ UNCHANGED fs

\* A reservation is given up: its bytes are left to the purger.
Failed(row) == [row EXCEPT !.state = "FAILED", !.gen = NextGen(@), !.lease = FALSE,
                           !.pending = TRUE]

\* The catch of uploadWithOutcome: a claim that is still ours becomes FAILED.
SelfFence(r) ==
  /\ up[r].pc = "FAILING"
  /\ ref' = IF ref[r].state = "RESERVED" /\ ref[r].gen = 2
            THEN [ref EXCEPT ![r] = Failed(@)]
            ELSE ref
  /\ up' = [up EXCEPT ![r] = IdleUp]
  /\ UNCHANGED <<art, claimed, sess, usage, fs, rd, purge, leaked, reaper, mishaps>>

Found(d) == {a \in Artifacts : art[a].doc = d}

\* Mutants of the three cases below.
VacantPurging(r, a) ==
  \/ art[a].state = "ABSENT" /\ Found(DocOf[r]) = {}
  \/ art[a].state \in {"PURGED", "PURGING"} /\ art[a].doc = DocOf[r]

SharesPurging(r, a) == art[a].doc = DocOf[r] /\ art[a].state \in {"RAW_READY", "PURGING"}

NoDuplicate(r, a) == FALSE

\* Artifact row a is free to take the bytes of r.
Vacant(r, a) ==
  \/ art[a].state = "ABSENT" /\ Found(DocOf[r]) = {}
  \/ art[a].state = "PURGED" /\ art[a].doc = DocOf[r] /\ art[a].key = None

\* Artifact a already stores the bytes of r.
Shares(r, a) == art[a].doc = DocOf[r] /\ art[a].state = "RAW_READY"

\* The session of r already refers to artifact a.
Duplicate(r, a) == \E q \in Refs \ {r} : ref[q].sess = ref[r].sess /\ ref[q].art = a

\* The attachment row after finalize: attached, or dropped as a duplicate.
Settled(r, a) ==
  [ref[r] EXCEPT !.state = IF Duplicate(r, a) THEN "RELEASED" ELSE "ATTACHED",
                 !.art = IF Duplicate(r, a) THEN None ELSE a,
                 !.lease = FALSE]

\* finalize, when the bytes become the stored original of artifact a: a new row,
\* or a purged one that gets its storage back.
FinalizeAdopt(r, a) ==
  /\ up[r].pc = "STORED"
  /\ ValidClaim(r)
  /\ Vacant(r, a)
  /\ LET R == [ref EXCEPT ![r] = [Settled(r, a) EXCEPT !.temp = FALSE]]
         A == [art EXCEPT ![a] = [state |-> "RAW_READY", doc |-> DocOf[r], key |-> r,
                                  ocr |-> FALSE]]
     IN  Commit(R, A, claimed, {})
  /\ up' = [up EXCEPT ![r] = IdleUp]
  /\ UNCHANGED <<sess, usage, fs, rd, purge, leaked, reaper, mishaps>>

\* finalize, when the document is already stored: the attachment shares the
\* artifact, or is dropped when its session already holds it; either way its own
\* bytes are left to the purger.
FinalizeShare(r, a) ==
  /\ up[r].pc = "STORED"
  /\ ValidClaim(r)
  /\ Shares(r, a)
  /\ LET R == [ref EXCEPT ![r] = [Settled(r, a) EXCEPT !.pending = TRUE]]
     IN  Commit(R, art, claimed, {})
  /\ up' = [up EXCEPT ![r] = IdleUp]
  /\ UNCHANGED <<sess, usage, fs, rd, purge, leaked, reaper, mishaps>>

\* finalize, when the document is being purged: nothing is written, the upload
\* asks for the purge and starts over.
FinalizeBlocked(r, a) ==
  /\ up[r].pc = "STORED"
  /\ ValidClaim(r)
  /\ art[a].doc = DocOf[r]
  /\ art[a].state = "PURGING"
  /\ up' = [up EXCEPT ![r].pc = "BLOCKED", ![r].on = a]
  /\ UpStep(r) /\ UNCHANGED fs

----------------------------------------------------------------------------
(* Downloads of a stored original *)

MayRead(r) ==
  LET a == ref[r].art
  IN  /\ ref[r].state = "ATTACHED"
      /\ sess[ref[r].sess] # "CLOSED"
      /\ \/ art[a].state = "RAW_READY"
         \/ art[a].state = "PURGING" /\ art[a].doc = None
      /\ art[a].key # None

RdStep(r) == UNCHANGED <<db, fs, up, purge, leaked, reaper, mishaps>>

AdmitRead(r) ==
  /\ r \in Readers
  /\ rd[r].pc = "IDLE"
  /\ MayRead(r)
  /\ rd' = [rd EXCEPT ![r] = [IdleRd EXCEPT !.pc = "CAPTURED", !.art = ref[r].art,
                                            !.key = art[ref[r].art].key]]
  /\ RdStep(r)

EnterRead(r) ==
  /\ rd[r].pc = "CAPTURED"
  /\ rd' = [rd EXCEPT ![r] = IF Fenced(rd[r].art) THEN IdleRd ELSE [@ EXCEPT !.pc = "ENTERED"]]
  /\ RdStep(r)

RecheckRead(r) ==
  /\ rd[r].pc = "ENTERED"
  /\ ~rd[r].aborted
  /\ MayRead(r)
  /\ ref[r].art = rd[r].art
  /\ art[rd[r].art].key = rd[r].key
  /\ rd' = [rd EXCEPT ![r].pc = "CHECKED"]
  /\ RdStep(r)

\* As with an upload, an abort that comes during the open is seen after it.
OpenRead(r) ==
  /\ rd[r].pc = "CHECKED"
  /\ disk[rd[r].key] # "NONE"
  /\ rd' = [rd EXCEPT ![r].pc = "READING"]
  /\ RdStep(r)

\* End of file, a refused recheck, a missing file, an abort, a client that leaves.
EndRead(r) ==
  /\ rd[r].pc \in RdEntered
  /\ rd' = [rd EXCEPT ![r] = IdleRd]
  /\ RdStep(r)

----------------------------------------------------------------------------
(* Purges: PurgeCoordinator.run *)

\* A ref with temporary bytes to purge, a stored artifact nothing is attached to.
RefDue(r) == ref[r].temp /\ (ref[r].pending \/ (ref[r].state = "RESERVED" /\ ~ref[r].lease))
ArtDue(a) == IsArtRow(art, a) /\ art[a].key # None /\ art[a].state # "PURGED" /\ Attached(ref, a) = {}
Due(k) == IF k \in Refs THEN RefDue(k) ELSE ArtDue(k)
Home(k) == IF k \in Refs THEN k ELSE art[k].key

\* capture: a reservation whose lease expired is failed, an artifact without
\* attachments becomes PURGING; a reserved or failed ref has no artifact and an
\* unattached artifact that is not yet PURGING is claimed, so no trigger fires.
Capture(k) ==
  /\ purge[k].pc = "IDLE"
  /\ Due(k)
  /\ purge' = [purge EXCEPT ![k] = [pc |-> "CAPTURED", home |-> Home(k)]]
  /\ ref' = IF k \in Refs /\ ref[k].state = "RESERVED"
            THEN [ref EXCEPT ![k] = Failed(@)]
            ELSE ref
  /\ art' = IF k \in Artifacts THEN [art EXCEPT ![k].state = "PURGING"] ELSE art
  /\ UNCHANGED <<claimed, sess, usage, fs, rd, leaked, mishaps>>

\* The reaper purges one key at a time.
ReaperPurges(k) ==
  /\ reaper = None
  /\ Capture(k)
  /\ reaper' = k
  /\ UNCHANGED up

\* What an upload does with the result of the purge it asked for: a drain timeout
\* or an exception ends it, any other result is one attempt of the finalize loop.
Resume(u, ok) ==
  IF ok /\ u.tries + 1 < WriteAttempts
  THEN [u EXCEPT !.pc = "STORED", !.on = None, !.tries = @ + 1]
  ELSE [u EXCEPT !.pc = "FAILING", !.on = None]

\* A blocked upload starts the purge, or joins the one in flight.
UploadPurges(r) ==
  /\ up[r].pc = "BLOCKED"
  /\ Capture(up[r].on)
  /\ UpGoto(r, "WAITING")
  /\ UNCHANGED reaper

JoinPurge(r) ==
  /\ up[r].pc = "BLOCKED"
  /\ purge[up[r].on].pc # "IDLE"
  /\ UpGoto(r, "WAITING")
  /\ UpStep(r) /\ UNCHANGED fs

PurgeNotEligible(r) ==
  /\ up[r].pc = "BLOCKED"
  /\ purge[up[r].on].pc = "IDLE"
  /\ ~Due(up[r].on)
  /\ up' = [up EXCEPT ![r] = Resume(@, TRUE)]
  /\ UpStep(r) /\ UNCHANGED fs

\* Mutant: the uploads that joined a purge of the reaper are not answered.
PurgeEndsUnjoined(k, ok) ==
  /\ purge' = [purge EXCEPT ![k] = IdlePurge]
  /\ reaper' = IF reaper = k THEN None ELSE reaper
  /\ up' = [r \in Refs |-> IF reaper # k /\ up[r].pc = "WAITING" /\ up[r].on = k
                           THEN Resume(up[r], ok) ELSE up[r]]

PurgeEnds(k, ok) ==
  /\ purge' = [purge EXCEPT ![k] = IdlePurge]
  /\ reaper' = IF reaper = k THEN None ELSE reaper
  /\ up' = [r \in Refs |-> IF up[r].pc = "WAITING" /\ up[r].on = k
                           THEN Resume(up[r], ok) ELSE up[r]]

PurgeGoto(k, pc) ==
  /\ purge' = [purge EXCEPT ![k].pc = pc]
  /\ UNCHANGED <<up, reaper>>

\* fence, then abort every registered owner of the key
Fence(k) ==
  /\ purge[k].pc = "CAPTURED"
  /\ purge' = [purge EXCEPT ![k].pc = "FENCED"]
  /\ up' = [r \in Refs |-> IF r = k /\ up[r].pc \in UpEntered
                           THEN [up[r] EXCEPT !.aborted = TRUE] ELSE up[r]]
  /\ rd' = [r \in Refs |-> IF rd[r].pc \in RdEntered /\ rd[r].art = k
                           THEN [rd[r] EXCEPT !.aborted = TRUE] ELSE rd[r]]
  /\ UNCHANGED <<db, fs, leaked, reaper, mishaps>>

Drained(k) ==
  /\ purge[k].pc = "FENCED"
  /\ ~Entered(k)
  /\ PurgeGoto(k, "DRAINED")
  /\ UNCHANGED <<db, fs, rd, leaked, mishaps>>

DrainTimeout(k) ==
  /\ purge[k].pc = "FENCED"
  /\ Entered(k)
  /\ PurgeEnds(k, FALSE)
  /\ UNCHANGED <<db, fs, rd, leaked, mishaps>>

Matches(k) ==
  IF k \in Refs THEN ref[k].temp /\ ref[k].pending
  ELSE art[k].state = "PURGING" /\ art[k].key = purge[k].home /\ Attached(ref, k) = {}

Match(k) ==
  /\ purge[k].pc = "DRAINED"
  /\ IF Matches(k) THEN PurgeGoto(k, "MATCHED") ELSE PurgeEnds(k, TRUE)
  /\ UNCHANGED <<db, fs, rd, leaked, mishaps>>

\* Mutant: a directory that an interrupted purge has already moved is an error.
ErasableOnce(k) == disk[purge[k].home] # "NONE"

\* Both the directory and its trash name would be an ANOMALY.
Erasable(k) == disk[purge[k].home] = "NONE" \/ <<k, purge[k].home>> \notin trash

\* eraseCaptured; a rename left over by an earlier attempt is taken up.
Rename(k) ==
  LET h == purge[k].home
  IN  /\ purge[k].pc = "MATCHED"
      /\ Erasable(k)
      /\ disk' = [disk EXCEPT ![h] = "NONE"]
      /\ trash' = IF disk[h] = "NONE" THEN trash ELSE trash \cup {<<k, h>>}
  /\ PurgeGoto(k, "RENAMED")
  /\ UNCHANGED <<db, rd, leaked, mishaps>>

RemoveTrash(k) ==
  /\ purge[k].pc = "RENAMED"
  /\ trash' = trash \ {<<k, purge[k].home>>}
  /\ PurgeGoto(k, "ERASED")
  /\ UNCHANGED <<db, disk, rd, leaked, mishaps>>

\* The absence proof, then the completing transaction.  When the triggers of that
\* transaction run into an OCR usage row it is rolled back and the purge rejects.
Complete(k) ==
  LET h == purge[k].home
      R == IF k \in Refs THEN [ref EXCEPT ![k] = [@ EXCEPT !.temp = FALSE, !.pending = FALSE]]
           ELSE ref
      A == IF k \in Refs THEN art
           ELSE [art EXCEPT ![k] = [@ EXCEPT !.state = "PURGED", !.key = None]]
  IN  /\ purge[k].pc = "ERASED"
      /\ disk[h] = "NONE" /\ <<k, h>> \notin trash
      /\ IF Matches(k) /\ Commits(R, A, claimed, {})
         THEN Commit(R, A, claimed, {}) /\ PurgeEnds(k, TRUE)
         ELSE UNCHANGED <<ref, art, claimed>> /\ PurgeEnds(k, ~Matches(k))
  /\ UNCHANGED <<sess, usage, fs, rd, leaked, mishaps>>

----------------------------------------------------------------------------
(* OCR of a document and the end of its retention *)

\* An OCR attempt reserves a usage row; a success also leaves its content in the
\* artifact (an EXTRACTED row with the OCR parser version).
OcrAttempt(r) ==
  LET a == ref[r].art
  IN  /\ DocOf[r] \in Scanned
      /\ usage[r] = "NONE"
      /\ ref[r].state = "ATTACHED"
      /\ sess[ref[r].sess] = "DRAFT"
      /\ art[a].state = "RAW_READY" /\ art[a].key # None /\ ~art[a].ocr
      /\ \E outcome \in {"SPENT", "KEPT"} :
           /\ usage' = [usage EXCEPT ![r] = outcome]
           /\ art' = [art EXCEPT ![a].ocr = (outcome = "KEPT")]
  /\ UNCHANGED <<ref, claimed, sess, fs, proc, mishaps>>

\* Trigger purging_requires_completion: a PURGING artifact only completes.  A purge
\* that completed left parserVersion in the row, so a PURGED artifact that had OCR
\* content is scrubbed too: it becomes RAW_READY without storage.
Scrubbable(a) == art[a].state # "PURGING"

\* enforcePdfOcrRetention for the usages of a session that are due; rolled back
\* when one of the documents cannot be scrubbed, and when the session is
\* confirmed (it clears the proposal's hash, which the check
\* import_sessions_confirmation_tuple_check requires then).
RetentionEnds(s) ==
  LET due == {r \in Refs : ref[r].sess = s /\ usage[r] \in Kept}
      arts == {ref[r].art : r \in due} \cap {a \in Artifacts : art[a].ocr}
  IN  /\ due # {}
      /\ sess[s] # "CONFIRMED"
      /\ \A a \in arts : Scrubbable(a)
      /\ art' = [a \in Artifacts |-> IF a \in arts
                   THEN [art[a] EXCEPT !.state = "RAW_READY", !.ocr = FALSE] ELSE art[a]]
      /\ usage' = [r \in Refs |-> IF r \in due THEN "PURGED" ELSE usage[r]]
      /\ sess' = [sess EXCEPT ![s] = IF @ \in Active THEN "REVIEW_REQUIRED" ELSE @]
  /\ UNCHANGED <<ref, claimed, fs, proc, mishaps>>

----------------------------------------------------------------------------
(* Mishaps *)

Mishap == mishaps < MaxMishaps /\ mishaps' = mishaps + 1

\* The process dies and restarts: every request, descriptor and fence is gone,
\* an unsynced file may be too.
Crash ==
  /\ Mishap
  /\ up' = [r \in Refs |-> IdleUp]
  /\ rd' = [r \in Refs |-> IdleRd]
  /\ purge' = [k \in Keys |-> IdlePurge]
  /\ leaked' = {}
  /\ reaper' = None
  /\ \E lost \in SUBSET {r \in Refs : disk[r] = "PARTIAL"} :
       disk' = [r \in Refs |-> IF r \in lost THEN "NONE" ELSE disk[r]]
  /\ UNCHANGED <<db, trash>>

\* A file-system or database error ends the purge; the fence is released.
PurgeFails(k) ==
  /\ Mishap
  /\ purge[k].pc # "IDLE"
  /\ PurgeEnds(k, FALSE)
  /\ UNCHANGED <<db, fs, rd, leaked>>

\* A close that fails leaves the registry entry in place until the restart.
UncertainUploadClose(r) ==
  /\ Mishap
  /\ up[r].pc = "WRITING"
  /\ UpGoto(r, "FAILING")
  /\ leaked' = leaked \cup {r}
  /\ UNCHANGED <<db, fs, rd, purge, reaper>>

UncertainReadClose(r) ==
  /\ Mishap
  /\ rd[r].pc = "READING"
  /\ leaked' = leaked \cup {rd[r].art}
  /\ rd' = [rd EXCEPT ![r] = IdleRd]
  /\ UNCHANGED <<db, fs, up, purge, reaper>>

\* The self-fence of a failed upload fails too.
SelfFenceFails(r) ==
  /\ Mishap
  /\ up[r].pc = "FAILING"
  /\ up' = [up EXCEPT ![r] = IdleUp]
  /\ UNCHANGED <<db, fs, rd, purge, leaked, reaper>>

----------------------------------------------------------------------------

SessionNext ==
  \/ \E s \in Sessions : \/ OpenSession(s) \/ Confirm(s) \/ Edit(s) \/ Cancel(s) \/ Expire(s) \/ Apply(s)
                         \/ RetentionEnds(s)
  \/ \E a \in Artifacts : DeleteLastClaim(a)

UploadNext ==
  \E r \in Refs :
    \/ Reserve(r) \/ LeaseExpires(r) \/ Claim(r) \/ EnterUpload(r) \/ RecheckUpload(r)
    \/ OpenBlob(r) \/ StreamDone(r) \/ UploadStops(r) \/ SelfFence(r)
    \/ \E a \in Artifacts : FinalizeAdopt(r, a) \/ FinalizeShare(r, a) \/ FinalizeBlocked(r, a)
    \/ UploadPurges(r) \/ JoinPurge(r) \/ PurgeNotEligible(r)
    \/ OcrAttempt(r)

ReadNext ==
  \E r \in Refs : AdmitRead(r) \/ EnterRead(r) \/ RecheckRead(r) \/ OpenRead(r) \/ EndRead(r)

PurgeNext ==
  \E k \in Keys : \/ ReaperPurges(k) \/ Fence(k) \/ Drained(k) \/ DrainTimeout(k)
                  \/ Match(k) \/ Rename(k) \/ RemoveTrash(k) \/ Complete(k)

MishapNext ==
  \/ Crash
  \/ \E k \in Keys : PurgeFails(k)
  \/ \E r \in Refs : UncertainUploadClose(r) \/ UncertainReadClose(r) \/ SelfFenceFails(r)

Next == SessionNext \/ UploadNext \/ ReadNext \/ PurgeNext \/ MishapNext

Spec == Init /\ [][Next]_vars

\* The server carries on with a request, a purge and an aborted download; lease
\* times pass.  The reaper takes due items in id order every cycle, so it comes to
\* each one that stays due (strong: it is busy with others in between).  Clients
\* are under no obligation, and an unaborted download may last for ever.
UploadRuns(r) ==
  \/ EnterUpload(r) \/ RecheckUpload(r) \/ OpenBlob(r) \/ StreamDone(r) \/ UploadStops(r)
  \/ SelfFence(r) \/ UploadPurges(r) \/ JoinPurge(r) \/ PurgeNotEligible(r)
  \/ \E a \in Artifacts : FinalizeAdopt(r, a) \/ FinalizeShare(r, a) \/ FinalizeBlocked(r, a)

PurgeRuns(k) ==
  Fence(k) \/ Drained(k) \/ DrainTimeout(k) \/ Match(k) \/ Rename(k) \/ RemoveTrash(k) \/ Complete(k)

Fairness ==
  /\ \A r \in Refs : /\ WF_vars(UploadRuns(r))
                    /\ WF_vars(LeaseExpires(r))
                    /\ WF_vars(rd[r].aborted /\ EndRead(r))
  /\ \A k \in Keys : /\ WF_vars(PurgeRuns(k))
                    /\ SF_vars(ReaperPurges(k))

FairSpec == Spec /\ Fairness

----------------------------------------------------------------------------
(* Properties *)

\* Every variable stays in its domain.
TypeOK ==
  /\ ref \in [Refs -> Ref]
  /\ art \in [Artifacts -> Art]
  /\ claimed \subseteq Artifacts
  /\ sess \in [Sessions -> SessStates]
  /\ usage \in [Refs -> Usages]
  /\ disk \in [Refs -> {"NONE", "PARTIAL", "WHOLE"}]
  /\ trash \subseteq Keys \X Refs
  /\ up \in [Refs -> Upload]
  /\ rd \in [Refs -> Download]
  /\ purge \in [Keys -> Purge]
  /\ leaked \subseteq Keys
  /\ reaper \in Keys \cup {None}
  /\ mishaps \in 0..MaxMishaps

\* A stored original is whole: while an artifact is ready to be attached, or is
\* attached, its directory holds the synced file, whatever purges, uploads of the
\* same bytes, retirements and crashes happened.
StoredIsWhole ==
  \A a \in Artifacts :
    art[a].key # None /\ (art[a].state = "RAW_READY" \/ Attached(ref, a) # {}) =>
      disk[art[a].key] = "WHOLE"

\* An attached document can be read: its artifact has storage, and the file is
\* whole.  (Of documents that never went through OCR: RetentionEnds may reset an
\* erased artifact to RAW_READY, and the next upload then shares it.)
AttachedHasBytes ==
  \A r \in Refs : ref[r].state = "ATTACHED" =>
    LET h == art[ref[r].art].key IN h # None /\ disk[h] = "WHOLE"

\* No directory is renamed or removed while a descriptor is open below it: the
\* fence, the abort and the drain of the purge order every erasure after the
\* last close (vault-purger.ts run, vault-fd-registry.ts abortAndDrain).
NoEraseUnderDescriptor ==
  \A r \in Refs :
    /\ up[r].pc = "WRITING" => disk[r] = "PARTIAL"
    /\ rd[r].pc = "READING" => disk[rd[r].key] = "WHOLE"

\* Bytes on disk are always charged to exactly one row, so a purge will find
\* them: no crash, retry or deleted row leaves an orphan directory or trash.
NoOrphanBytes ==
  \A x \in Refs :
    (disk[x] # "NONE" \/ \E k \in Keys : <<k, x>> \in trash) =>
      Cardinality({k \in Keys : \/ k = x /\ ref[x].temp
                                \/ k \in Artifacts /\ art[k].key = x}) = 1

\* The ANOMALY of eraseCaptured (directory and trash name both present) and the
\* failed absence proof cannot arise, whatever step a crash interrupted.
EraseNeverAnomalous ==
  \A k \in Keys :
    /\ purge[k].pc \in Fencing => ~(disk[purge[k].home] # "NONE" /\ <<k, purge[k].home>> \in trash)
    /\ purge[k].pc = "ERASED" => disk[purge[k].home] = "NONE" /\ <<k, purge[k].home>> \notin trash

\* A captured purge stays valid until it ends: no transaction that runs between
\* its steps attaches, rehouses or deletes what it is erasing (STALE_CAPTURE is
\* never the answer).
CapturesStayFresh ==
  \A k \in Keys : purge[k].pc # "IDLE" => Matches(k)

\* claim counts claimed rows and live registry entries together, so streams never
\* exceed the tenant's limit nor one per user, even when rows fail under them.
UploadsWithinLimits ==
  LET writing == {r \in Refs : up[r].pc = "WRITING"}
  IN  /\ Cardinality(writing) <= MaxUploads
      /\ \A q, r \in writing : Owner[ref[q].sess] = Owner[ref[r].sess] => q = r

\* A session holds a document once: of two uploads of the same bytes into one
\* session the second is dropped, even when the first raced it to finalize.
SessionHoldsDocumentOnce ==
  \A q, r \in Refs :
    /\ ref[q].state = "ATTACHED" /\ ref[r].state = "ATTACHED"
    /\ ref[q].sess = ref[r].sess /\ ref[q].art = ref[r].art
    => q = r

\* What a confirmed session is about to apply is still there: none of the documents
\* it is attached to was retired by a deletion elsewhere since it was prepared.
ConfirmedDocumentsAreLive ==
  \A r \in Refs : ref[r].state = "ATTACHED" /\ sess[ref[r].sess] = "CONFIRMED" =>
    art[ref[r].art].doc = DocOf[r]

\* Between transactions the triggers have left nothing half retired: an artifact
\* that no attachment and no claim links to is a storage-bearing tombstone or gone.
RetirementIsSettled ==
  /\ \A a \in Unlinked(ref, art, claimed) :
       /\ art[a].doc = None
       /\ art[a].state = IF art[a].key = None THEN "PURGED" ELSE "PURGING"
       /\ art[a].key = None => \E r \in Refs : ref[r].art = a
  /\ Swept(ref, Unlinked(ref, art, claimed)) = {}

\* A retired artifact never regains its hash or its storage, a purging one only
\* completes, and a deleted row stays deleted.
TombstonesAreFinal ==
  [][\A a \in Artifacts :
       /\ IsArtRow(art, a) /\ art[a].doc = None =>
            art'[a].doc = None /\ art'[a].key \in {art[a].key, None}
       /\ art[a].state = "PURGING" => art'[a].state \in {"PURGING", "PURGED", "DELETED"}
       /\ art[a].state = "DELETED" => art'[a].state = "DELETED"]_vars

\* Whatever is due for erasure is erased or rescued by a new attachment, however
\* often a drain times out, a purge fails or the process crashes; only a leaked
\* descriptor holds it back, until the restart.  (Attachments are finite, so all
\* of it is: the vault comes clean.)
StorageIsReclaimed ==
  (\E k \in Keys : Due(k)) ~> (\A k \in Keys : Due(k) => k \in leaked)

\* Every admitted upload is answered: an upload that waits for the purge of an
\* artifact and a purge that drains an upload never wait for each other.
UploadsAreAnswered ==
  (\E r \in Refs : up[r].pc # "IDLE") ~> (\A r \in Refs : up[r].pc = "IDLE")

\* Rows, files, descriptors and purges agree at every step: what is stored is whole,
\* what is on disk will be found, and no purge erases what is not its own.
FilesAreSafe ==
  /\ StoredIsWhole /\ NoOrphanBytes
  /\ NoEraseUnderDescriptor /\ EraseNeverAnomalous /\ CapturesStayFresh

\* Retirement is never half done, and never takes what a confirmed session applies.
RetirementIsClean == RetirementIsSettled /\ ConfirmedDocumentsAreLive
=============================================================================
