---------------------------- MODULE ImportQuota ----------------------------
(***************************************************************************)
(* The byte quotas of the vault: a reservation is admitted against what is *)
(* stored, reserved or still to be purged, globally, in the tenant, for    *)
(* the user and in the session (import-upload.service.ts, quota).          *)
(*                                                                         *)
(* What is admitted changes shape many times: a reservation becomes a      *)
(* file, a file becomes a document or turns out to be a copy of one, is    *)
(* shared, moves to a continuation, is released, and is erased from disk   *)
(* some time before its row says so.                                       *)
(*                                                                         *)
(* One file per request, one owner project per tenant.  How a file is      *)
(* written and erased step by step, and which documents OCR was asked to   *)
(* read, is ImportVault's: here the transactions that the usage row of an  *)
(* OCR attempt may forbid happen, or are rolled back and change nothing.   *)
(***************************************************************************)
EXTENDS Tenancy, Naturals, FiniteSets, FiniteSetsExt, Functions

CONSTANTS
  TenantOf,      \* TenantOf[u]: the tenant of user u
  Sessions,
  OwnerOf,       \* OwnerOf[s]: the user who owns session s
  Refs,          \* ids of import_session_artifacts
  Documents,     \* contents, told apart by their SHA-256
  Size,          \* Size[d]: bytes of document d
  Scanned,       \* documents without text, which only OCR can read
  SessionLimit, UserLimit, TenantLimit, GlobalLimit,
  None

ASSUME QuotaAssumption ==
  /\ TenantOf \in [Users -> Tenants]
  /\ OwnerOf \in [Sessions -> Users]
  /\ Size \in [Documents -> Nat \ {0}]
  /\ Scanned \subseteq Documents
  /\ {SessionLimit, UserLimit, TenantLimit, GlobalLimit} \subseteq Nat
  /\ IsFiniteSet(Refs) /\ IsFiniteSet(Tenants) /\ IsFiniteSet(Documents)
  /\ None \notin Sessions \cup Documents \cup Refs \cup (Tenants \X Documents)

VARIABLES
  ref,    \* the rows of import_session_artifacts
  art,    \* the rows of import_artifacts, one per tenant and document
  files,  \* refs whose directory holds a file
  open    \* sessions that are not closed

quotaVars == <<ref, art, files, open>>

----------------------------------------------------------------------------
(* Rows *)

\* temp is temporaryStorageKey, pending is temporaryPurgePending; left orders the
\* releases (releasedAt).
NoRef == [state |-> "NONE", sess |-> None, doc |-> None, art |-> None,
          temp |-> FALSE, pending |-> FALSE, left |-> 0]

\* home is the directory named by storageKey; bytes is verifiedBytes.
NoArt == [state |-> "NONE", home |-> None, bytes |-> 0]

Artifacts == Tenants \X Documents

SizeOf(r)     == Size[ref[r].doc]
UserOf(r)     == OwnerOf[ref[r].sess]
TenantAt(r)   == TenantOf[UserOf(r)]
Temporary     == {r \in Refs : ref[r].temp}
Retained      == {a \in Artifacts : art[a].home # None}
RefsOf(a)     == {r \in Refs : ref[r].art = a}
Attached(a)   == {r \in RefsOf(a) : ref[r].state = "ATTACHED"}
Target(r)     == <<TenantAt(r), ref[r].doc>>

Sum(S, Of(_)) == SumFunction([x \in S |-> Of(x)])
Reserved(r)   == SizeOf(r)
Verified(a)   == art[a].bytes

----------------------------------------------------------------------------
(* The quota *)

\* Reserved and stored bytes of some tenants.
Stored(ts) == Sum({r \in Temporary : TenantAt(r) \in ts}, Reserved)
                + Sum({a \in Retained : a[1] \in ts}, Verified)

\* A document nobody holds is charged to the user who let it go last.
LastToLeave(a) ==
  {r \in RefsOf(a) : /\ ref[r].state = "RELEASED"
                     /\ \A q \in RefsOf(a) : ref[q].state = "RELEASED" => ref[q].left <= ref[r].left}
Payers(a) == {UserOf(r) : r \in IF Attached(a) # {} THEN Attached(a) ELSE LastToLeave(a)}

Charged(u) == Sum({r \in Temporary : UserOf(r) = u}, Reserved)
                + Sum({a \in Retained : u \in Payers(a)}, Verified)

InSession(s) == Sum({r \in Refs : ref[r].sess = s /\ ref[r].state # "RELEASED"}, Reserved)

\* Mutant: the tenant is not checked by itself.
AdmitsGlobally(s, bytes) ==
  /\ Stored(Tenants) + bytes <= GlobalLimit
  /\ Charged(OwnerOf[s]) + bytes <= UserLimit
  /\ InSession(s) + bytes <= SessionLimit

Admits(s, bytes) ==
  /\ InSession(s) + bytes <= SessionLimit
  /\ Stored(Tenants) + bytes <= GlobalLimit
  /\ Stored({TenantOf[OwnerOf[s]]}) + bytes <= TenantLimit
  /\ Charged(OwnerOf[s]) + bytes <= UserLimit

----------------------------------------------------------------------------
(* Uploads *)

Reserve(r, s, d) ==
  /\ ref[r].state = "NONE"
  /\ s \in open
  /\ Admits(s, Size[d])
  /\ ref' = [ref EXCEPT ![r] = [NoRef EXCEPT !.state = "RESERVED", !.sess = s,
                                             !.doc = d, !.temp = TRUE]]
  /\ UNCHANGED <<art, files, open>>

\* The claimed upload writes the declared bytes, no more.
Write(r) ==
  /\ ref[r].state = "RESERVED"
  /\ r \notin files
  /\ files' = files \cup {r}
  /\ UNCHANGED <<ref, art, open>>

\* The upload fails, or its lease expires: the file waits for its purge.
Fail(r) ==
  /\ ref[r].state = "RESERVED"
  /\ ref' = [ref EXCEPT ![r].state = "FAILED", ![r].pending = TRUE]
  /\ UNCHANGED <<art, files, open>>

Later == 1 + Max({0} \cup {ref[r].left : r \in Refs})

\* The first copy becomes the document's file.
Adopt(r) ==
  /\ art[Target(r)].state \in {"NONE", "PURGED"}
  /\ art' = [art EXCEPT ![Target(r)] = [state |-> "STORED", home |-> r, bytes |-> SizeOf(r)]]
  /\ ref' = [ref EXCEPT ![r].state = "ATTACHED", ![r].art = Target(r), ![r].temp = FALSE]

\* Another copy waits for its purge; the session holds a document once.
Duplicate(r) ==
  /\ art[Target(r)].state = "STORED"
  /\ IF \E q \in RefsOf(Target(r)) : q # r /\ ref[q].sess = ref[r].sess
     THEN ref' = [ref EXCEPT ![r].state = "RELEASED", ![r].pending = TRUE, ![r].left = Later]
     ELSE ref' = [ref EXCEPT ![r].state = "ATTACHED", ![r].pending = TRUE, ![r].art = Target(r)]
  /\ UNCHANGED art

\* A document that is being purged makes the upload wait.
Finalize(r) ==
  /\ ref[r].state = "RESERVED"
  /\ r \in files
  /\ ref[r].sess \in open
  /\ Adopt(r) \/ Duplicate(r)
  /\ UNCHANGED <<files, open>>

----------------------------------------------------------------------------
(* The end of a session *)

\* Mutant: the bytes of the references are not marked for their purge.
EndedUnmarked(s, kept, c) ==
  [r \in Refs |->
     IF r \in kept THEN [ref[r] EXCEPT !.sess = c]
     ELSE IF ref[r].sess = s /\ ref[r].state # "RELEASED"
     THEN [ref[r] EXCEPT !.state = "RELEASED", !.left = Later]
     ELSE ref[r]]

\* The refs of session s that are not kept are released; the ones that are kept
\* move to a continuation.
Ended(s, kept, c) ==
  [r \in Refs |->
     IF r \in kept THEN [ref[r] EXCEPT !.sess = c]
     ELSE IF ref[r].sess = s /\ ref[r].state # "RELEASED"
     THEN [ref[r] EXCEPT !.state = "RELEASED", !.left = Later, !.pending = ref[r].temp]
     ELSE ref[r]]

\* Once the last reference to a document is released and no booking claims it, a
\* trigger deletes its attachments; the usage row of an OCR attempt forbids that.
Refusable(s) ==
  \E a \in Artifacts :
    a[2] \in Scanned /\ Attached(a) # {} /\ \A r \in Attached(a) : ref[r].sess = s

\* Cancelled, applied or expired; rolled back, perhaps for ever, if it is refused.
Close(s) ==
  /\ s \in open
  /\ open' = open \ {s}
  /\ ref' = Ended(s, {}, None)
  /\ UNCHANGED <<art, files>>

\* A continuation is a session id that no ref has used.  What is left behind may be
\* refused its release here as well.
Continue(s, c) ==
  /\ s \in open /\ c \in open /\ c # s
  /\ OwnerOf[c] = OwnerOf[s]
  /\ \A r \in Refs : ref[r].sess # c
  /\ \A r \in Refs : ref[r].sess = s => ref[r].state # "RESERVED"
  /\ \E kept \in SUBSET {r \in Refs : ref[r].sess = s /\ ref[r].state \in {"ATTACHED", "FAILED"}} :
       /\ kept # {}
       /\ ref' = Ended(s, kept, c)
  /\ open' = open \ {s}
  /\ UNCHANGED <<art, files>>

----------------------------------------------------------------------------
(* Purges: the file first, the row that counts it afterwards *)

EraseTemporary(r) ==
  /\ ref[r].temp /\ ref[r].pending
  /\ r \in files
  /\ files' = files \ {r}
  /\ UNCHANGED <<ref, art, open>>

\* The attachment is deleted only now if its copy had to be purged first.
ForgetRefusable(r) ==
  /\ ref[r].temp /\ ref[r].state = "RELEASED" /\ ref[r].art # None
  /\ ref[r].doc \in Scanned /\ Attached(ref[r].art) = {}

ForgetTemporary(r) ==
  /\ ref[r].temp /\ ref[r].pending
  /\ r \notin files
  /\ ref' = [ref EXCEPT ![r].temp = FALSE, ![r].pending = FALSE]
  /\ UNCHANGED <<art, files, open>>

Capture(a) ==
  /\ art[a].state = "STORED"
  /\ Attached(a) = {}
  /\ art' = [art EXCEPT ![a].state = "PURGING"]
  /\ UNCHANGED <<ref, files, open>>

EraseDocument(a) ==
  /\ art[a].state = "PURGING"
  /\ art[a].home \in files
  /\ files' = files \ {art[a].home}
  /\ UNCHANGED <<ref, art, open>>

\* verifiedBytes stays in the row and no longer counts without a storageKey.
ForgetDocument(a) ==
  /\ art[a].state = "PURGING"
  /\ art[a].home \notin files
  /\ art' = [art EXCEPT ![a].state = "PURGED", ![a].home = None]
  /\ UNCHANGED <<ref, files, open>>

Purge ==
  \/ \E r \in Refs : EraseTemporary(r) \/ ForgetTemporary(r)
  \/ \E a \in Artifacts : Capture(a) \/ EraseDocument(a) \/ ForgetDocument(a)

----------------------------------------------------------------------------
QuotaInit ==
  /\ ref = [r \in Refs |-> NoRef]
  /\ art = [a \in Artifacts |-> NoArt]
  /\ files = {}
  /\ open = Sessions

QuotaNext ==
  \/ \E r \in Refs : \/ Write(r) \/ Fail(r) \/ Finalize(r)
                     \/ \E s \in Sessions, d \in Documents : Reserve(r, s, d)
  \/ \E s \in Sessions : Close(s) \/ \E c \in Sessions : Continue(s, c)
  \/ Purge

QuotaSpec == QuotaInit /\ [][QuotaNext]_quotaVars

\* The reaper gets on with its scopes: a cycle that is refused ends there, and so do
\* the later ones (RetentionJob), for every other session and file as well.
Unobstructed ==
  /\ \A s \in open : ~Refusable(s)
  /\ \A r \in Refs : ~ForgetRefusable(r)

\* As long as it does, sessions end and what is due is purged.
Reaper == Unobstructed /\ (Purge \/ \E s \in Sessions : Close(s))

QuotaFairSpec == QuotaSpec /\ WF_quotaVars(Reaper)

----------------------------------------------------------------------------
(* Properties *)

\* Types of the rows; only the homes of stored documents and temporary refs have
\* files.
QuotaTypeOK ==
  /\ \A r \in Refs :
       /\ ref[r].state \in {"NONE", "RESERVED", "ATTACHED", "RELEASED", "FAILED"}
       /\ ref[r].state # "NONE" => ref[r].sess \in Sessions /\ ref[r].doc \in Documents
       /\ ref[r].art \in Artifacts \cup {None}
       /\ ref[r].pending => ref[r].temp
  /\ \A a \in Artifacts : art[a].state \in {"NONE", "STORED", "PURGING", "PURGED"}
  /\ files \subseteq Refs
  /\ open \subseteq Sessions

\* Bytes on disk, whatever the rows say of them.
OnDisk(us) == Sum({r \in files : UserOf(r) \in us}, Reserved)

\* The files of a tenant and of all tenants never exceed the limits, however they
\* are copied, shared, moved, released and purged after their reservation.
DiskWithinLimits ==
  /\ OnDisk(Users) <= GlobalLimit
  /\ \A t \in Tenants : OnDisk({u \in Users : TenantOf[u] = t}) <= TenantLimit

\* Copies that wait for their purge apart, what a user is charged for stays within
\* his limit, although a document is charged to him when others let it go first.
UserWithinLimit ==
  \A u \in Users :
    Sum({r \in Temporary : UserOf(r) = u /\ ~ref[r].pending}, Reserved)
      + Sum({a \in Retained : u \in Payers(a)}, Verified) <= UserLimit

\* What is reserved does not stay reserved: however sessions end, share and continue,
\* everything is given back in the end, unless a document that OCR may have read stands
\* in the reaper's way for good.
QuotaIsGivenBack == <>[]Unobstructed => <>[](Stored(Tenants) = 0)

\* Neither the rows nor the disk outgrow what was admitted.
BytesWithinLimits == QuotaTypeOK /\ UserWithinLimit /\ DiskWithinLimits
=============================================================================
