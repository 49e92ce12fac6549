-------------------------- MODULE DocumentAnalysis --------------------------
(***************************************************************************)
(* The analysis of an attached document: who may read it, who may write    *)
(* the result, and the one call of the external OCR provider.              *)
(*                                                                         *)
(* An analysis is a long request.  It takes a parse lease on the artifact  *)
(* (a generation number and the session's id), parses outside of any       *)
(* transaction, may ask the provider for OCR, and publishes the lines in a *)
(* last transaction.  In between the session is edited, confirmed, applied *)
(* or closed, the lease expires, another session analyses the same         *)
(* artifact, the end of OCR retention or a purge takes the content away,   *)
(* and the process may stop.                                               *)
(*                                                                         *)
(* Uploads are ImportVault's: attachments are attached from the start.     *)
(* One tenant; each transaction is one action.                             *)
(***************************************************************************)
EXTENDS Naturals, FiniteSets

CONSTANTS
  Attachments,  \* attachment ids (import_session_artifacts rows)
  Artifacts,    \* artifact ids (import_artifacts rows)
  Sessions,     \* import session ids
  Late,         \* sessions that only a continuation creates
  Runs,         \* analysis requests; a run's id also names its usage row
  Requests,     \* OCR request ids chosen by clients
  ArtOf,        \* ArtOf[t]: the artifact of attachment t
  HomeOf,       \* HomeOf[t]: the session t is attached to
  Target,       \* Target[p]: the attachment that run p analyses
  RequestOf,    \* RequestOf[p]: the OCR request id of p, None without consent
  Scanned,      \* artifacts without a text layer
  Dense,        \* scanned artifacts whose token count may exceed the limit
  None,         \* SQL NULL
  MaxParsers,   \* IMPORT_SESSION_LIMITS.concurrentParsersPerTenant
  MaxRev,       \* bound on revisions by user edits
  MaxMishaps    \* bound on crashes and failed clean-up transactions

ASSUME AnalysisAssumption ==
  /\ ArtOf \in [Attachments -> Artifacts]
  /\ HomeOf \in [Attachments -> Sessions \ Late]
  /\ Late \subseteq Sessions
  /\ Target \in [Runs -> Attachments]
  /\ RequestOf \in [Runs -> Requests \cup {None}]
  /\ None \notin Requests \cup Runs \cup Sessions
  /\ Dense \subseteq Scanned /\ Scanned \subseteq Artifacts
  /\ MaxParsers \in Nat \ {0}
  /\ MaxRev \in Nat
  /\ MaxMishaps \in Nat

VARIABLES
  sess,     \* the session rows: state and revision
  ref,      \* the attachment rows: session and whether ATTACHED
  pending,  \* attachments in scope.pendingAttachmentIds of their session
  art,      \* the artifact rows
  consent,  \* the consent entry of each attachment in its session's ocrJson
  usage,    \* the OCR usage row each run created
  run,      \* where each analysis is, and what it captured
  sent,     \* runs whose generation request has left the process
  mishaps   \* how many mishaps have happened

rows == <<sess, ref, pending, art, consent, usage>>
vars == <<rows, run, sent, mishaps>>

----------------------------------------------------------------------------
(* Rows *)

\* EDITABLE is DRAFT, NEEDS_INPUT, READY or REVIEW_REQUIRED without a financial
\* request; REVIEWED is REVIEW_REQUIRED with one, where no edit is accepted;
\* CLOSED is CANCELLED or EXPIRED.
Unapplied == {"EDITABLE", "CONFIRMED", "REVIEWED"}
SessStates == Unapplied \cup {"NEW", "APPLIED", "CLOSED"}

\* gen is parseGeneration, lease is leaseSessionId, live whether leaseExpiresAt
\* lies ahead, by the parser whose extraction is stored.
ArtStates == {"RAW_READY", "ANALYZING", "EXTRACTED", "PURGING"}
Artifact == [state: ArtStates, gen: Nat, lease: Sessions \cup {None},
             live: BOOLEAN, by: {"NONE", "LOCAL", "OCR"}]
Raw == {"RAW_READY", "ANALYZING"}

Consent == [req: Requests \cup {None}, rev: Nat, usage: Runs \cup {None}]
NoConsent == [req |-> None, rev |-> 0, usage |-> None]

\* Terminal outcomes of a usage row.  NOT_DISPATCHED is also AUTH before the call
\* and REQUEST_STALE_AFTER_COUNT, REFUSED is SAFETY, MALFORMED_RESPONSE or
\* DOCUMENT_UNREADABLE.  PURGED is SUCCEEDED with contentPurgedAt.
Failures == {"NOT_DISPATCHED", "UNKNOWN", "LIMIT_EXCEEDED", "REFUSED"}
Outcomes == Failures \cup {"NONE", "ATTEMPTED", "SUCCEEDED", "PURGED"}
Usage == [outcome: Outcomes, sess: Sessions \cup {None}]
NoUsage == [outcome |-> "NONE", sess |-> None]

Unleased(row) == [row EXCEPT !.lease = None, !.live = FALSE]

\* The lease is withdrawn from a run that may still be under way.
FencedOff(row) ==
  [Unleased(row) EXCEPT !.gen = @ + 1,
                        !.state = IF @ = "ANALYZING" THEN "RAW_READY" ELSE @]

----------------------------------------------------------------------------
(* Runs *)

Working == {"LEASED", "OPEN", "SCANNED", "ATTEMPTED", "CLEARED", "SENT", "PARSED"}
Failing == {"FAILING", "CLEANUP"}
RunStates == Working \cup Failing \cup {"IDLE", "PUBLISHED", "DONE"}

Run == [pc: RunStates, sess: Sessions \cup {None}, rev: Nat, gen: Nat,
        raw: BOOLEAN, entered: BOOLEAN, verdict: Failures \cup {"NONE"},
        accounted: BOOLEAN]
IdleRun == [pc |-> "IDLE", sess |-> None, rev |-> 0, gen |-> 0, raw |-> FALSE,
            entered |-> FALSE, verdict |-> "NONE", accounted |-> FALSE]

Doc(p) == ArtOf[Target[p]]
Active(p) == run[p].pc \in Working \cup Failing

\* Mutant: the clean-up finds the row by its id.
HoldsArtifact(p) == art[Doc(p)].lease # None

\* leaseWhere: the artifact row is still the one run p leased.
HoldsLease(p) ==
  LET row == art[Doc(p)]
  IN  /\ row.gen = run[p].gen
      /\ row.lease = run[p].sess
      /\ row.state = IF run[p].raw THEN "ANALYZING" ELSE "EXTRACTED"

\* recheck: session, attachment and lease are as they were when p was admitted.
\* (Observations of the artifact that another session claims in between make the
\* code refuse as well; a run may fail at any step.)
Recheck(p) ==
  /\ sess[run[p].sess].state = "EDITABLE"
  /\ sess[run[p].sess].rev = run[p].rev
  /\ ref[Target[p]] = [sess |-> run[p].sess, attached |-> TRUE]
  /\ HoldsLease(p)
  /\ art[Doc(p)].live

Init ==
  /\ sess = [s \in Sessions |->
              [state |-> IF s \in Late THEN "NEW" ELSE "EDITABLE", rev |-> 1]]
  /\ ref = [t \in Attachments |-> [sess |-> HomeOf[t], attached |-> TRUE]]
  /\ pending = Attachments
  /\ art = [a \in Artifacts |-> [state |-> "RAW_READY", gen |-> 0, lease |-> None,
                                 live |-> FALSE, by |-> "NONE"]]
  /\ consent = [t \in Attachments |-> NoConsent]
  /\ usage = [p \in Runs |-> NoUsage]
  /\ run = [p \in Runs |-> IdleRun]
  /\ sent = {}
  /\ mishaps = 0

----------------------------------------------------------------------------
(* The session *)

NextRevision(s) == [sess EXCEPT ![s].rev = @ + 1]

\* The draft is edited, decided upon or prepared.
Revise(s) ==
  /\ sess[s].state = "EDITABLE"
  /\ sess[s].rev < MaxRev
  /\ sess' = NextRevision(s)
  /\ UNCHANGED <<ref, pending, art, consent, usage, run, sent, mishaps>>

\* The user consents to external OCR of t, for the analysis request q that the
\* client will send at the new revision.
RecordConsent(t, q) ==
  LET s == ref[t].sess
  IN  /\ sess[s].state = "EDITABLE"
      /\ sess[s].rev < MaxRev
      /\ ref[t].attached
      /\ t \in pending
      /\ consent[t].usage = None
      /\ sess' = NextRevision(s)
      /\ consent' = [consent EXCEPT ![t] =
                       [req |-> q, rev |-> sess[s].rev + 1, usage |-> None]]
      /\ UNCHANGED <<ref, pending, art, usage, run, sent, mishaps>>

Confirm(s) ==
  /\ sess[s].state = "EDITABLE"
  /\ sess' = [NextRevision(s) EXCEPT ![s].state = "CONFIRMED"]
  /\ UNCHANGED <<ref, pending, art, consent, usage, run, sent, mishaps>>

\* execute finds that something changed since the confirmation.
Review(s) ==
  /\ sess[s].state = "CONFIRMED"
  /\ sess' = [NextRevision(s) EXCEPT ![s].state = "REVIEWED"]
  /\ UNCHANGED <<ref, pending, art, consent, usage, run, sent, mishaps>>

\* releaseCompletedSessionAttachments: provider candidates are not kept.
Scrubbed(U, s) ==
  [p \in Runs |-> IF U[p].sess = s /\ U[p].outcome = "SUCCEEDED"
                  THEN [U[p] EXCEPT !.outcome = "PURGED"]
                  ELSE U[p]]

\* Mutant: the usage rows stay with the applied session.
Unmoved(T, n) == usage

\* The usage rows of transferred attachments follow them into the continuation.
Moved(T, n) ==
  [p \in Runs |-> IF Target[p] \in T /\ usage[p].outcome # "NONE"
                  THEN [usage[p] EXCEPT !.sess = n]
                  ELSE usage[p]]

\* The session's leases on its own documents are withdrawn.
Withdrawn(s) == [a \in Artifacts |-> IF art[a].lease = s THEN FencedOff(art[a]) ELSE art[a]]

\* execute applies the session.  Everything pending, and analysed attachments
\* with deferred lines (the set T), go to the continuation n, which starts with
\* a new draft and no consents; the other attachments are released.
Apply(s, n, T) ==
  LET mine == {t \in Attachments : ref[t].sess = s /\ ref[t].attached}
  IN  /\ sess[s].state = "CONFIRMED"
      /\ T # {} => sess[n].state = "NEW"
      /\ T \subseteq mine
      /\ mine \cap pending \subseteq T
      /\ sess' = [x \in Sessions |->
                   IF x = s THEN [NextRevision(s)[s] EXCEPT !.state = "APPLIED"]
                   ELSE IF x = n /\ T # {} THEN [sess[n] EXCEPT !.state = "EDITABLE"]
                   ELSE sess[x]]
      /\ ref' = [t \in Attachments |->
                  IF t \in T THEN [sess |-> n, attached |-> TRUE]
                  ELSE IF t \in mine THEN [ref[t] EXCEPT !.attached = FALSE]
                  ELSE ref[t]]
      /\ consent' = [t \in Attachments |-> IF t \in T THEN NoConsent ELSE consent[t]]
      /\ usage' = Scrubbed(Moved(T, n), s)
      /\ art' = Withdrawn(s)
      /\ UNCHANGED <<pending, run, sent, mishaps>>

\* Cancel, or the expiry by the reaper or by execute.
Close(s) ==
  /\ sess[s].state \in Unapplied
  /\ sess' = [NextRevision(s) EXCEPT ![s].state = "CLOSED"]
  /\ ref' = [t \in Attachments |->
              IF ref[t].sess = s THEN [ref[t] EXCEPT !.attached = FALSE] ELSE ref[t]]
  /\ pending' = {t \in pending : ref[t].sess # s}
  /\ usage' = Scrubbed(usage, s)
  /\ art' = Withdrawn(s)
  /\ UNCHANGED <<consent, run, sent, mishaps>>

----------------------------------------------------------------------------
(* The artifact *)

LeaseExpires(a) ==
  /\ art[a].live
  /\ art' = [art EXCEPT ![a].live = FALSE]
  /\ UNCHANGED <<sess, ref, pending, consent, usage, run, sent, mishaps>>

\* The purger captures an artifact that no attachment holds.
PurgeCapture(a) ==
  /\ art[a].state # "PURGING"
  /\ \A t \in Attachments : ArtOf[t] = a => ~ref[t].attached
  /\ art' = [art EXCEPT ![a] = [Unleased(art[a]) EXCEPT !.state = "PURGING", !.gen = @ + 1]]
  /\ UNCHANGED <<sess, ref, pending, consent, usage, run, sent, mishaps>>

\* The content deadline of the usage rows U of session s: OCR content goes, an
\* active session is sent to review.
RetentionEnds(s, U) ==
  /\ U # {}
  /\ \A p \in U : usage[p].sess = s /\ usage[p].outcome = "SUCCEEDED"
  /\ usage' = [p \in Runs |-> IF p \in U THEN [usage[p] EXCEPT !.outcome = "PURGED"]
                              ELSE usage[p]]
  /\ sess[s].state \notin {"CONFIRMED", "REVIEWED"}
  /\ sess' = IF sess[s].state = "EDITABLE" THEN NextRevision(s) ELSE sess
  /\ art' = [a \in Artifacts |->
              IF art[a].by = "OCR" /\ \E p \in U : Doc(p) = a
              THEN [FencedOff(art[a]) EXCEPT !.state = "RAW_READY", !.by = "NONE"]
              ELSE art[a]]
  /\ UNCHANGED <<ref, pending, consent, run, sent, mishaps>>

----------------------------------------------------------------------------
(* analyzeAttached *)

Goes(p, to) == run' = [run EXCEPT ![p].pc = to]

\* Answered from the rows: the attachment was analysed before, or its one OCR
\* attempt was spent, whatever became of it.
Replay(p) ==
  LET t == Target[p] IN
  /\ run[p].pc = "IDLE"
  /\ sess[ref[t].sess].state = "EDITABLE"
  /\ ref[t].attached
  /\ t \notin pending \/ (RequestOf[p] # None /\ consent[t].usage # None)
  /\ Goes(p, "DONE")
  /\ UNCHANGED <<rows, sent, mishaps>>

Leased(row, s) ==
  [row EXCEPT !.gen = @ + 1, !.lease = s, !.live = TRUE,
              !.state = IF @ \in Raw THEN "ANALYZING" ELSE @]

IsPending(t) == t \in pending

\* The first transaction: take the lease.  A raw artifact will be parsed, an
\* extracted one adopted.
Admit(p) ==
  LET t == Target[p]
      s == ref[t].sess
      a == Doc(p)
  IN  /\ run[p].pc = "IDLE"
      /\ sess[s].state = "EDITABLE"
      /\ ref[t].attached
      /\ IsPending(t)
      /\ RequestOf[p] = None \/ consent[t].usage = None
      /\ art[a].state # "PURGING"
      /\ ~art[a].live
      /\ art' = [art EXCEPT ![a] = Leased(@, s)]
      /\ run' = [run EXCEPT ![p] =
                  [IdleRun EXCEPT !.pc = "LEASED", !.sess = s, !.rev = sess[s].rev,
                                  !.gen = art'[a].gen, !.raw = art[a].state \in Raw]]
      /\ UNCHANGED <<sess, ref, pending, consent, usage, sent, mishaps>>

\* ImportRawExecutions.admit: a place among the parsers and a registry entry.
Enter(p) ==
  /\ run[p].pc = "LEASED"
  /\ run[p].raw
  /\ Cardinality({q \in Runs : run[q].entered}) < MaxParsers
  /\ Recheck(p)
  /\ run' = [run EXCEPT ![p].pc = "OPEN", ![p].entered = TRUE]
  /\ UNCHANGED <<rows, sent, mishaps>>

\* The bytes are read and parsed in this process; a document without text needs
\* the provider, and a request with consent.
Parse(p) ==
  /\ run[p].pc = "OPEN"
  /\ Recheck(p)
  /\ Doc(p) \in Scanned => RequestOf[p] # None
  /\ Goes(p, IF Doc(p) \in Scanned THEN "SCANNED" ELSE "PARSED")
  /\ UNCHANGED <<rows, sent, mishaps>>

\* Unique index (tenant, session, attachment) of import_ocr_usage.
Unspent(t, s) == \A q \in Runs : Target[q] = t => usage[q].sess # s

\* The irreversible attempt: the consent is used up, the budget is reserved.
Attempt(p) ==
  LET t == Target[p] IN
  /\ run[p].pc = "SCANNED"
  /\ Recheck(p)
  /\ consent[t] = [req |-> RequestOf[p], rev |-> run[p].rev, usage |-> None]
  /\ Unspent(t, run[p].sess)
  /\ consent' = [consent EXCEPT ![t].usage = p]
  /\ usage' = [usage EXCEPT ![p] = [outcome |-> "ATTEMPTED", sess |-> run[p].sess]]
  /\ Goes(p, "ATTEMPTED")
  /\ UNCHANGED <<sess, ref, pending, art, sent, mishaps>>

\* The provider has counted the tokens: everything is checked once more.
BeforeGeneration(p) ==
  /\ run[p].pc = "ATTEMPTED"
  /\ Recheck(p)
  /\ consent[Target[p]].usage = p
  /\ usage[p].outcome = "ATTEMPTED"
  /\ Goes(p, "CLEARED")
  /\ UNCHANGED <<rows, sent, mishaps>>

\* The generation request leaves the process.
Dispatch(p) ==
  /\ run[p].pc = "CLEARED"
  /\ sent' = sent \cup {p}
  /\ Goes(p, "SENT")
  /\ UNCHANGED <<rows, mishaps>>

Answer(p) ==
  /\ run[p].pc = "SENT"
  /\ Goes(p, "PARSED")
  /\ UNCHANGED <<rows, sent, mishaps>>

\* The lines enter the draft; the extraction is stored with the artifact.
Extracted(p) ==
  LET row == Unleased(art[Doc(p)])
  IN  IF run[p].raw
      THEN [row EXCEPT !.state = "EXTRACTED",
                       !.by = IF p \in sent THEN "OCR" ELSE "LOCAL"]
      ELSE row

\* The last transaction.
Publish(p) ==
  /\ run[p].pc = IF run[p].raw THEN "PARSED" ELSE "LEASED"
  /\ Recheck(p)
  /\ sess' = NextRevision(run[p].sess)
  /\ pending' = pending \ {Target[p]}
  /\ art' = [art EXCEPT ![Doc(p)] = Extracted(p)]
  /\ usage' = IF p \in sent THEN [usage EXCEPT ![p].outcome = "SUCCEEDED"] ELSE usage
  /\ run' = [run EXCEPT ![p].pc = "PUBLISHED", ![p].entered = FALSE]
  /\ UNCHANGED <<ref, consent, sent, mishaps>>

\* What a failure means for the usage row: nothing was sent, the token count was
\* over the limit, the provider refused, or nobody knows.  Only an answer that
\* the provider accounted for brings its provenance.
Verdict(o, known) == [verdict |-> o, accounted |-> known]
Verdicts(p) ==
  IF run[p].pc \in {"ATTEMPTED", "CLEARED"}
  THEN {Verdict("NOT_DISPATCHED", FALSE), Verdict("UNKNOWN", FALSE)}
       \cup (IF run[p].pc = "ATTEMPTED" /\ Doc(p) \in Dense
             THEN {Verdict("LIMIT_EXCEEDED", FALSE)} ELSE {})
  ELSE IF run[p].pc = "SENT"
  THEN {Verdict("UNKNOWN", FALSE), Verdict("REFUSED", FALSE), Verdict("LIMIT_EXCEEDED", TRUE)}
  ELSE {Verdict("UNKNOWN", FALSE)}

\* ocrAttempted: the attempt transaction of p has committed.
Attempted(p) == usage[p].outcome # "NONE"

\* Any step may fail: a recheck refuses, a deadline passes, the lease aborts it,
\* the client goes away, a limit or a kill switch applies, the provider fails.
Fail(p) ==
  /\ run[p].pc \in Working
  /\ IF Attempted(p)
     THEN \E v \in Verdicts(p) :
            run' = [run EXCEPT ![p].pc = "FAILING", ![p].verdict = v.verdict,
                               ![p].accounted = v.accounted]
     ELSE Goes(p, "CLEANUP")
  /\ UNCHANGED <<rows, sent, mishaps>>

\* LIMIT_EXCEEDED is only accepted with the provenance of an answer.
Reconcilable(p) == run[p].verdict = "LIMIT_EXCEEDED" => run[p].accounted

\* The usage row gets its outcome in a transaction of its own.
Reconcile(p) ==
  /\ run[p].pc = "FAILING"
  /\ usage' = IF Reconcilable(p)
              THEN [usage EXCEPT ![p].outcome = run[p].verdict]
              ELSE usage
  /\ Goes(p, "CLEANUP")
  /\ UNCHANGED <<sess, ref, pending, art, consent, sent, mishaps>>

\* Mutant: a run that never entered the parsers gives nothing back.
CleanedEntered(p) ==
  IF HoldsLease(p) /\ run[p].entered
  THEN [art EXCEPT ![Doc(p)] = [Unleased(@) EXCEPT !.state = "RAW_READY"]]
  ELSE art

Cleaned(p) ==
  IF HoldsLease(p)
  THEN [art EXCEPT ![Doc(p)] =
         [Unleased(art[Doc(p)]) EXCEPT
           !.state = IF run[p].raw THEN "RAW_READY" ELSE @]]
  ELSE art

\* raw.close in the finally.
Exited(p) == [run[p] EXCEPT !.pc = "DONE", !.entered = FALSE]

Cleanup(p) ==
  /\ run[p].pc = "CLEANUP"
  /\ art' = Cleaned(p)
  /\ run' = [run EXCEPT ![p] = Exited(p)]
  /\ UNCHANGED <<sess, ref, pending, consent, usage, sent, mishaps>>

----------------------------------------------------------------------------
(* Mishaps *)

\* The transaction of Reconcile or Cleanup fails; the code logs it and goes on.
TransactionFails(p) ==
  /\ mishaps < MaxMishaps
  /\ mishaps' = mishaps + 1
  /\ \/ run[p].pc = "FAILING" /\ Goes(p, "CLEANUP")
     \/ run[p].pc = "CLEANUP" /\ run' = [run EXCEPT ![p] = Exited(p)]
  /\ UNCHANGED <<rows, sent>>

\* The process stops: its requests are gone, the rows stay.
Crash ==
  /\ mishaps < MaxMishaps
  /\ mishaps' = mishaps + 1
  /\ run' = [p \in Runs |-> IF Active(p) THEN Exited(p) ELSE run[p]]
  /\ UNCHANGED <<rows, sent>>

----------------------------------------------------------------------------
(* Specification *)

Session(s) ==
  \/ Revise(s) \/ Confirm(s) \/ Review(s) \/ Close(s)
  \/ \E n \in Late, T \in SUBSET Attachments : Apply(s, n, T)
  \/ \E U \in SUBSET Runs : RetentionEnds(s, U)

\* What a running analysis does by itself.
Step(p) ==
  \/ Enter(p) \/ Parse(p) \/ Attempt(p) \/ BeforeGeneration(p) \/ Dispatch(p)
  \/ Answer(p) \/ Publish(p) \/ Fail(p) \/ Reconcile(p) \/ Cleanup(p)

Next ==
  \/ \E s \in Sessions : Session(s)
  \/ \E t \in Attachments, q \in Requests : RecordConsent(t, q)
  \/ \E a \in Artifacts : LeaseExpires(a) \/ PurgeCapture(a)
  \/ \E p \in Runs : Replay(p) \/ Admit(p) \/ Step(p) \/ TransactionFails(p)
  \/ Crash

Spec == Init /\ [][Next]_vars

----------------------------------------------------------------------------
(* Properties *)

TypeOK ==
  /\ sess \in [Sessions -> [state: SessStates, rev: Nat]]
  /\ ref \in [Attachments -> [sess: Sessions, attached: BOOLEAN]]
  /\ pending \subseteq Attachments
  /\ art \in [Artifacts -> Artifact]
  /\ consent \in [Attachments -> Consent]
  /\ usage \in [Runs -> Usage]
  /\ run \in [Runs -> Run]
  /\ sent \subseteq Runs
  /\ mishaps \in Nat

\* A document is sent to the provider at most once per attachment, whatever was
\* retried, consented again, edited or handed over to a continuation in between.
OneCallPerAttachment ==
  \A p, q \in sent : Target[p] = Target[q] => p = q

\* No two analyses could both write to an artifact: what one admitted and the
\* next superseded can neither publish nor clean up.
LeaseIsExclusive ==
  \A p, q \in Runs :
    (Active(p) /\ Active(q) /\ HoldsLease(p) /\ HoldsLease(q) /\ Doc(p) = Doc(q)) => p = q

\* The lines of an attachment enter drafts once.
LinesAppearOnce ==
  \A p, q \in Runs :
    (run[p].pc = "PUBLISHED" /\ run[q].pc = "PUBLISHED" /\ Target[p] = Target[q]) => p = q

\* A stored extraction and the artifact's state belong together: a late clean-up
\* never throws away, and never hides, the result of another analysis.
ExtractionMatchesState ==
  \A a \in Artifacts :
    art[a].state # "PURGING" => (art[a].by # "NONE" <=> art[a].state = "EXTRACTED")

\* Closing or applying a session leaves none of its leases behind.
LeasesEndWithSessions ==
  \A a \in Artifacts : art[a].lease # None => sess[art[a].lease].state \in Unapplied

\* As long as no clean-up fails, a lease that still blocks others belongs to an
\* analysis under way, and an analysis that is over has settled its attempt, but for
\* a token count over the limit, whose settlement is refused.
NothingIsAbandoned ==
  mishaps = 0 =>
    /\ \A a \in Artifacts : art[a].live => \E p \in Runs : Active(p) /\ Doc(p) = a /\ HoldsLease(p)
    /\ \A p \in Runs : ~Active(p) /\ Reconcilable(p) => usage[p].outcome # "ATTEMPTED"

\* A usage row says that the provider answered only if its lines were published,
\* and denies the call only if nothing was sent.
LedgerIsTrue ==
  \A p \in Runs :
    /\ usage[p].outcome \in {"SUCCEEDED", "PURGED"} <=> p \in sent /\ run[p].pc = "PUBLISHED"
    /\ usage[p].outcome = "NOT_DISPATCHED" => p \notin sent

\* One analysis at a time may write to a document, and an attachment is sent out
\* and published once.
OnlyOnce == LeaseIsExclusive /\ OneCallPerAttachment /\ LinesAppearOnce

\* What the rows say of an analysis is what happened.
ResultsAreTrue == TypeOK /\ ExtractionMatchesState /\ LedgerIsTrue

\* Neither a session that ends nor an analysis that ends leaves work behind.
NothingIsLeftBehind == LeasesEndWithSessions /\ NothingIsAbandoned
=============================================================================
