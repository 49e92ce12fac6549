----------------------- MODULE DocumentAnalysisProofs -----------------------
(***************************************************************************)
(* Theorems about DocumentAnalysis: which runs may write to a document,    *)
(* that a document leaves the process once per attachment, and that the    *)
(* rows tell what happened.                                                *)
(*                                                                         *)
(* The inductive invariant has three independent parts.  Fences is about   *)
(* parse generations and leases, Attempts about usage rows, Drafts about   *)
(* revisions and the lines of an attachment.  The steps that can disturb   *)
(* a part are found by frame lemmas, one per variable.                     *)
(***************************************************************************)
EXTENDS DocumentAnalysis, TLAPS

\* A run that is under way was admitted for a session that has been opened, at a
\* revision the session has had.
Admitted(p) ==
  Active(p) =>
    /\ run[p].sess \in Sessions
    /\ sess[run[p].sess].state # "NEW"
    /\ run[p].rev <= sess[run[p].sess].rev
    /\ run[p].gen # 0

\* Generations only grow, and no two runs were given the same one of a document.
Fences ==
  /\ \A p \in Runs : run[p].gen <= art[Doc(p)].gen
  /\ \A p, q \in Runs :
       run[p].gen # 0 /\ Doc(p) = Doc(q) /\ run[p].gen = run[q].gen => p = q

\* How far the usage row of run p is when p is at its place.
Billed(p) ==
  /\ run[p].pc \in {"IDLE", "LEASED", "OPEN", "SCANNED"} => usage[p].outcome = "NONE"
  /\ run[p].pc \in {"ATTEMPTED", "CLEARED"} => usage[p].outcome = "ATTEMPTED" /\ p \notin sent
  /\ run[p].pc = "SENT" => p \in sent
  /\ run[p].pc = "PARSED" /\ usage[p].outcome # "NONE" => p \in sent
  /\ run[p].pc = "FAILING" =>
       /\ usage[p].outcome # "NONE" /\ run[p].verdict # "NONE"
       /\ run[p].verdict = "NOT_DISPATCHED" => p \notin sent
  /\ p \in sent => usage[p].outcome # "NONE"

\* The usage row is where its attachment is, and an attachment has one.
Attempts ==
  /\ \A p \in Runs : usage[p].outcome # "NONE" => usage[p].sess = ref[Target[p]].sess
  /\ \A p, q \in Runs :
       usage[p].outcome # "NONE" /\ usage[q].outcome # "NONE" /\ Target[p] = Target[q] => p = q

\* The attachment of a run that could still publish is pending, and that of one
\* that did is not.
Publishable(p) ==
  /\ Active(p)
  /\ sess[run[p].sess].state = "EDITABLE"
  /\ sess[run[p].sess].rev = run[p].rev
  /\ ref[Target[p]] = [sess |-> run[p].sess, attached |-> TRUE]
Drafts ==
  /\ \A p \in Runs : /\ Publishable(p) => Target[p] \in pending
                     /\ run[p].pc = "PUBLISHED" => Target[p] \notin pending
  /\ LinesAppearOnce

\* When nothing was lost: a live lease has a run, and a run that was to settle its
\* attempt did.
Orderly ==
  /\ \A a \in Artifacts : art[a].live => \E p \in Runs : Active(p) /\ Doc(p) = a /\ HoldsLease(p)
  /\ \A p \in Runs : run[p].pc \in {"CLEANUP", "PUBLISHED", "DONE"} /\ Reconcilable(p) =>
                       usage[p].outcome # "ATTEMPTED"

IInv ==
  /\ TypeOK
  /\ \A p \in Runs : Admitted(p) /\ Billed(p)
  /\ Fences /\ Attempts /\ Drafts
  /\ ExtractionMatchesState /\ LedgerIsTrue /\ LeasesEndWithSessions
  /\ mishaps = 0 => Orderly

----------------------------------------------------------------------------
(* Records.  A row with some fields replaced is a row. *)

\* An artifact row with one field replaced.
LEMMA ArtifactRows ==
  ASSUME NEW row \in Artifact
  PROVE  /\ \A x \in ArtStates : [row EXCEPT !.state = x] \in Artifact
         /\ \A x \in Nat : [row EXCEPT !.gen = x] \in Artifact
         /\ \A x \in Sessions \cup {None} : [row EXCEPT !.lease = x] \in Artifact
         /\ \A x \in BOOLEAN : [row EXCEPT !.live = x] \in Artifact
         /\ \A x \in {"NONE", "LOCAL", "OCR"} : [row EXCEPT !.by = x] \in Artifact
BY DEF Artifact

\* The record of a run with one field replaced.
LEMMA RunRows ==
  ASSUME NEW r \in Run
  PROVE  /\ \A x \in RunStates : [r EXCEPT !.pc = x] \in Run
         /\ \A x \in BOOLEAN : [r EXCEPT !.entered = x] \in Run
         /\ \A x \in BOOLEAN : [r EXCEPT !.accounted = x] \in Run
         /\ \A x \in Failures \cup {"NONE"} : [r EXCEPT !.verdict = x] \in Run
BY DEF Run

\* Unleased: a row whose lease was given up.
LEMMA UnleasedRow ==
  ASSUME NEW row \in Artifact PROVE Unleased(row) \in Artifact
BY DEF Artifact, Unleased

\* FencedOff: a row whose lease was withdrawn.
LEMMA FencedOffRow ==
  ASSUME NEW row \in Artifact PROVE FencedOff(row) \in Artifact
<1> DEFINE r1 == Unleased(row)
           r2 == [r1 EXCEPT !.gen = r1.gen + 1]
           state == IF r1.state = "ANALYZING" THEN "RAW_READY" ELSE r1.state
           r3 == [r2 EXCEPT !.state = state]
<1>1. r1 \in Artifact  BY UnleasedRow
<1>2. r1.gen + 1 \in Nat /\ state \in ArtStates
  <2> HIDE DEF r1
  <2> QED BY <1>1 DEF Artifact, ArtStates
<1>3. r2 \in Artifact  BY <1>1, <1>2, ArtifactRows
<1>4. r3 \in Artifact  BY <1>2, <1>3, ArtifactRows
<1>5. FencedOff(row) = r3  BY DEF FencedOff
<1> QED BY <1>4, <1>5

\* Leased: a row that a run has just been admitted to.
LEMMA LeasedRow ==
  ASSUME NEW row \in Artifact, NEW s \in Sessions PROVE Leased(row, s) \in Artifact
<1> DEFINE r1 == [row EXCEPT !.gen = row.gen + 1]
           r2 == [r1 EXCEPT !.lease = s]
           r3 == [r2 EXCEPT !.live = TRUE]
           state == IF row.state \in Raw THEN "ANALYZING" ELSE row.state
           r4 == [r3 EXCEPT !.state = state]
<1>1. row.gen + 1 \in Nat /\ state \in ArtStates  BY DEF Artifact, ArtStates
<1>2. r1 \in Artifact  BY <1>1, ArtifactRows
<1>3. r2 \in Artifact  BY <1>2, ArtifactRows
<1>4. r3 \in Artifact  BY <1>3, ArtifactRows
<1>5. r4 \in Artifact  BY <1>1, <1>4, ArtifactRows
<1>6. Leased(row, s) = r4  BY DEF Leased
<1> QED BY <1>5, <1>6

\* The record of a run that has just been admitted.
LEMMA AdmittedRun ==
  ASSUME NEW s \in Sessions, NEW v \in Nat, NEW g \in Nat, NEW b \in BOOLEAN
  PROVE  [IdleRun EXCEPT !.pc = "LEASED", !.sess = s, !.rev = v, !.gen = g, !.raw = b] \in Run
BY DEF Run, IdleRun, RunStates, Working

\* Exited: the record of a run that is over.
LEMMA ExitedRun ==
  ASSUME NEW p \in Runs, run[p] \in Run PROVE Exited(p) \in Run
<1> DEFINE r1 == [run[p] EXCEPT !.pc = "DONE"]
           r2 == [r1 EXCEPT !.entered = FALSE]
<1>1. r1 \in Run  BY RunRows DEF RunStates
<1>2. r2 \in Run  BY <1>1, RunRows
<1> QED BY <1>2 DEF Exited

----------------------------------------------------------------------------
(* Frames.  For each variable, the actions that change it. *)

\* The actions that write artifact rows.
LEMMA ArtWriters ==
  ASSUME [Next]_vars
  PROVE  \/ UNCHANGED art
         \/ \E s \in Sessions :
              \/ Close(s)
              \/ \E n \in Late, T \in SUBSET Attachments : Apply(s, n, T)
              \/ \E U \in SUBSET Runs : RetentionEnds(s, U)
         \/ \E a \in Artifacts : LeaseExpires(a) \/ PurgeCapture(a)
         \/ \E p \in Runs : Admit(p) \/ Publish(p) \/ Cleanup(p)
BY DEF Next, Session, Step, vars, rows, Revise, Confirm, Review, RecordConsent,
       Replay, Enter, Parse, Attempt, BeforeGeneration, Dispatch, Answer, Fail,
       Reconcile, TransactionFails, Crash

\* The actions that write session rows.
LEMMA SessWriters ==
  ASSUME [Next]_vars
  PROVE  \/ UNCHANGED sess
         \/ \E s \in Sessions :
              \/ Revise(s) \/ Confirm(s) \/ Review(s) \/ Close(s)
              \/ \E n \in Late, T \in SUBSET Attachments : Apply(s, n, T)
              \/ \E U \in SUBSET Runs : RetentionEnds(s, U)
         \/ \E t \in Attachments, q \in Requests : RecordConsent(t, q)
         \/ \E p \in Runs : Publish(p)
BY DEF Next, Session, Step, vars, rows, LeaseExpires, PurgeCapture, Replay,
       Admit, Enter, Parse, Attempt, BeforeGeneration, Dispatch, Answer, Fail,
       Reconcile, Cleanup, TransactionFails, Crash

\* The actions that write usage rows.
LEMMA UsageWriters ==
  ASSUME [Next]_vars
  PROVE  \/ UNCHANGED usage
         \/ \E s \in Sessions :
              \/ Close(s)
              \/ \E n \in Late, T \in SUBSET Attachments : Apply(s, n, T)
              \/ \E U \in SUBSET Runs : RetentionEnds(s, U)
         \/ \E p \in Runs : Attempt(p) \/ Publish(p) \/ Reconcile(p)
BY DEF Next, Session, Step, vars, rows, Revise, Confirm, Review, RecordConsent,
       LeaseExpires, PurgeCapture, Replay, Admit, Enter, Parse,
       BeforeGeneration, Dispatch, Answer, Fail, Cleanup, TransactionFails,
       Crash

\* The actions that write attachment rows.
LEMMA RefWriters ==
  ASSUME [Next]_vars
  PROVE  \/ UNCHANGED ref
         \/ \E s \in Sessions :
              \/ Close(s)
              \/ \E n \in Late, T \in SUBSET Attachments : Apply(s, n, T)
BY DEF Next, Session, Step, vars, rows, Revise, Confirm, Review, RetentionEnds,
       RecordConsent, LeaseExpires, PurgeCapture, Replay, Admit, Enter, Parse,
       Attempt, BeforeGeneration, Dispatch, Answer, Publish, Fail, Reconcile,
       Cleanup, TransactionFails, Crash

\* The actions that move an analysis.
LEMMA RunWriters ==
  ASSUME [Next]_vars
  PROVE  UNCHANGED run \/ Crash \/ \E p \in Runs : Replay(p) \/ Admit(p) \/ Step(p) \/ TransactionFails(p)
BY DEF Next, Session, Step, vars, rows, Revise, Confirm, Review, Close, Apply,
       RetentionEnds, RecordConsent, LeaseExpires, PurgeCapture

----------------------------------------------------------------------------
(* Types *)

\* Withdrawn: the rows after a session's leases were withdrawn.
LEMMA WithdrawnRows ==
  ASSUME art \in [Artifacts -> Artifact], NEW s \in Sessions
  PROVE  Withdrawn(s) \in [Artifacts -> Artifact]
BY FencedOffRow DEF Withdrawn

LEMMA ArtTypes ==
  ASSUME TypeOK, [Next]_vars PROVE art' \in [Artifacts -> Artifact]
<1>0. art \in [Artifacts -> Artifact]  BY DEF TypeOK
<1>1. ASSUME NEW s \in Sessions, Close(s) PROVE art' \in [Artifacts -> Artifact]
  BY <1>0, <1>1, WithdrawnRows DEF Close
<1>2. ASSUME NEW s \in Sessions, NEW n \in Late, NEW T \in SUBSET Attachments, Apply(s, n, T)
      PROVE  art' \in [Artifacts -> Artifact]
  BY <1>0, <1>2, WithdrawnRows DEF Apply
<1>3. ASSUME NEW s \in Sessions, NEW U \in SUBSET Runs, RetentionEnds(s, U)
      PROVE  art' \in [Artifacts -> Artifact]
  <2> DEFINE r(a) == [FencedOff(art[a]) EXCEPT !.state = "RAW_READY"]
  <2>1. ASSUME NEW a \in Artifacts PROVE [r(a) EXCEPT !.by = "NONE"] \in Artifact
    <3>1. FencedOff(art[a]) \in Artifact  BY <1>0, FencedOffRow
    <3>2. r(a) \in Artifact  BY <3>1, ArtifactRows DEF ArtStates
    <3> HIDE DEF r
    <3> QED BY <3>2, ArtifactRows
  <2>2. \A a \in Artifacts :
          [FencedOff(art[a]) EXCEPT !.state = "RAW_READY", !.by = "NONE"] \in Artifact
    BY <2>1
  <2> QED BY <1>0, <1>3, <2>2 DEF RetentionEnds
<1>4. ASSUME NEW a \in Artifacts, LeaseExpires(a) PROVE art' \in [Artifacts -> Artifact]
  BY <1>0, <1>4 DEF LeaseExpires, Artifact
<1>5. ASSUME NEW a \in Artifacts, PurgeCapture(a) PROVE art' \in [Artifacts -> Artifact]
  <2> DEFINE r1 == Unleased(art[a])
             r2 == [r1 EXCEPT !.state = "PURGING"]
             r3 == [r2 EXCEPT !.gen = r2.gen + 1]
  <2>1. r1 \in Artifact  BY <1>0, UnleasedRow
  <2>2. r2 \in Artifact  BY <2>1, ArtifactRows DEF ArtStates
  <2>3. r2.gen + 1 \in Nat
    <3> HIDE DEF r2
    <3> QED BY <2>2 DEF Artifact
  <2>4. r3 \in Artifact  BY <2>2, <2>3, ArtifactRows
  <2>5. [Unleased(art[a]) EXCEPT !.state = "PURGING", !.gen = @ + 1] = r3  OBVIOUS
  <2>6. art' = [art EXCEPT ![a] =
                 [Unleased(art[a]) EXCEPT !.state = "PURGING", !.gen = @ + 1]]
    BY <1>5 DEF PurgeCapture
  <2> QED BY <1>0, <2>4, <2>5, <2>6
<1>6. ASSUME NEW p \in Runs, Admit(p) PROVE art' \in [Artifacts -> Artifact]
  <2>1. Doc(p) \in Artifacts /\ ref[Target[p]].sess \in Sessions
    BY AnalysisAssumption DEF Doc, TypeOK
  <2>2. Leased(art[Doc(p)], ref[Target[p]].sess) \in Artifact  BY <1>0, <2>1, LeasedRow
  <2> QED BY <1>0, <1>6, <2>1, <2>2 DEF Admit
<1>7. ASSUME NEW p \in Runs, Publish(p) PROVE art' \in [Artifacts -> Artifact]
  <2>1. Doc(p) \in Artifacts  BY AnalysisAssumption DEF Doc
  <2> DEFINE r1 == Unleased(art[Doc(p)])
             r2 == [r1 EXCEPT !.state = "EXTRACTED"]
             r3 == [r2 EXCEPT !.by = IF p \in sent THEN "OCR" ELSE "LOCAL"]
  <2>2. r1 \in Artifact  BY <1>0, <2>1, UnleasedRow
  <2>3. r2 \in Artifact  BY <2>2, ArtifactRows DEF ArtStates
  <2>4. r3 \in Artifact  BY <2>3, ArtifactRows
  <2>5. Extracted(p) = IF run[p].raw THEN r3 ELSE r1  BY DEF Extracted
  <2> QED BY <1>0, <1>7, <2>2, <2>4, <2>5 DEF Publish
<1>8. ASSUME NEW p \in Runs, Cleanup(p) PROVE art' \in [Artifacts -> Artifact]
  <2>1. Doc(p) \in Artifacts  BY AnalysisAssumption DEF Doc
  <2> DEFINE r1 == Unleased(art[Doc(p)])
             state == IF run[p].raw THEN "RAW_READY" ELSE r1.state
             r2 == [r1 EXCEPT !.state = state]
  <2>2. r1 \in Artifact  BY <1>0, <2>1, UnleasedRow
  <2>3. state \in ArtStates
    <3> HIDE DEF r1
    <3> QED BY <2>2 DEF Artifact, ArtStates
  <2>4. r2 \in Artifact  BY <2>2, <2>3, ArtifactRows
  <2>5. [Unleased(art[Doc(p)]) EXCEPT !.state = IF run[p].raw THEN "RAW_READY" ELSE @] = r2
    OBVIOUS
  <2>6. Cleaned(p) =
          IF HoldsLease(p)
          THEN [art EXCEPT ![Doc(p)] =
                 [Unleased(art[Doc(p)]) EXCEPT
                    !.state = IF run[p].raw THEN "RAW_READY" ELSE @]]
          ELSE art
    BY DEF Cleaned
  <2> QED BY <1>0, <1>8, <2>4, <2>5, <2>6 DEF Cleanup
<1> QED BY <1>0, <1>1, <1>2, <1>3, <1>4, <1>5, <1>6, <1>7, <1>8, ArtWriters

LEMMA SessTypes ==
  ASSUME TypeOK, [Next]_vars PROVE sess' \in [Sessions -> [state: SessStates, rev: Nat]]
<1> DEFINE Rows == [Sessions -> [state: SessStates, rev: Nat]]
<1>0. sess \in Rows  BY DEF TypeOK
<1>1. ASSUME NEW s \in Sessions PROVE NextRevision(s) \in Rows
  BY <1>0 DEF NextRevision
<1>2. ASSUME NEW s \in Sessions, NEW f \in Rows, NEW x \in SessStates
      PROVE  [f EXCEPT ![s].state = x] \in Rows
  OBVIOUS
<1>3. ASSUME NEW s \in Sessions, Revise(s) PROVE sess' \in Rows
  BY <1>1, <1>3 DEF Revise
<1>4. ASSUME NEW s \in Sessions, Confirm(s) \/ Review(s) \/ Close(s) PROVE sess' \in Rows
  <2>1. {"CONFIRMED", "REVIEWED", "CLOSED"} \subseteq SessStates  BY DEF SessStates, Unapplied
  <2>2. PICK x \in {"CONFIRMED", "REVIEWED", "CLOSED"} :
          sess' = [NextRevision(s) EXCEPT ![s].state = x]
    BY <1>4 DEF Confirm, Review, Close
  <2>3. [NextRevision(s) EXCEPT ![s].state = x] \in Rows
    BY <1>1, <1>2, <2>1
  <2> QED BY <2>2, <2>3
<1>5. ASSUME NEW s \in Sessions, NEW n \in Late, NEW T \in SUBSET Attachments, Apply(s, n, T)
      PROVE  sess' \in Rows
  <2>1. [NextRevision(s)[s] EXCEPT !.state = "APPLIED"] \in [state: SessStates, rev: Nat]
    BY <1>1 DEF SessStates
  <2>2. \A x \in Sessions : [sess[x] EXCEPT !.state = "EDITABLE"] \in [state: SessStates, rev: Nat]
    BY <1>0 DEF SessStates, Unapplied
  <2> QED BY <1>0, <1>5, <2>1, <2>2 DEF Apply
<1>6. ASSUME NEW s \in Sessions, NEW U \in SUBSET Runs, RetentionEnds(s, U) PROVE sess' \in Rows
  BY <1>0, <1>1, <1>6 DEF RetentionEnds
<1>7. ASSUME NEW t \in Attachments, NEW q \in Requests, RecordConsent(t, q) PROVE sess' \in Rows
  BY <1>1, <1>7 DEF RecordConsent, TypeOK
<1>8. ASSUME NEW p \in Runs, Publish(p) PROVE sess' \in Rows
  <2>1. ref[Target[p]] \in [sess: Sessions, attached: BOOLEAN]
    BY AnalysisAssumption DEF TypeOK
  <2>2. ref[Target[p]].sess = run[p].sess
    BY <1>8 DEF Publish, Recheck
  <2>3. run[p].sess \in Sessions
    BY <2>1, <2>2
  <2> QED BY <1>1, <1>8, <2>3 DEF Publish
<1> HIDE DEF Rows
<1>9. sess' \in Rows
  BY <1>0, <1>3, <1>4, <1>5, <1>6, <1>7, <1>8, SessWriters
<1> QED BY <1>9 DEF Rows

LEMMA UsageTypes ==
  ASSUME TypeOK, [Next]_vars PROVE usage' \in [Runs -> Usage]
<1>0. usage \in [Runs -> Usage]  BY DEF TypeOK
<1>1. ASSUME NEW U \in [Runs -> Usage], NEW s \in Sessions PROVE Scrubbed(U, s) \in [Runs -> Usage]
  BY DEF Scrubbed, Usage, Outcomes
<1>2. ASSUME NEW s \in Sessions, Close(s) PROVE usage' \in [Runs -> Usage]
  BY <1>0, <1>1, <1>2 DEF Close
<1>3. ASSUME NEW s \in Sessions, NEW n \in Late, NEW T \in SUBSET Attachments, Apply(s, n, T)
      PROVE  usage' \in [Runs -> Usage]
  <2>1. Moved(T, n) \in [Runs -> Usage]  BY <1>0, AnalysisAssumption DEF Moved, Usage
  <2> QED BY <1>1, <1>3, <2>1 DEF Apply
<1>4. ASSUME NEW s \in Sessions, NEW U \in SUBSET Runs, RetentionEnds(s, U)
      PROVE  usage' \in [Runs -> Usage]
  BY <1>0, <1>4 DEF RetentionEnds, Usage, Outcomes
<1>5. ASSUME NEW p \in Runs, Attempt(p) PROVE usage' \in [Runs -> Usage]
  <2>1. run[p].sess \in Sessions \cup {None}  BY DEF TypeOK, Run
  <2> QED BY <1>0, <1>5, <2>1 DEF Attempt, Usage, Outcomes
<1>6. ASSUME NEW p \in Runs, Publish(p) PROVE usage' \in [Runs -> Usage]
  BY <1>0, <1>6 DEF Publish, Usage, Outcomes
<1>7. ASSUME NEW p \in Runs, Reconcile(p) PROVE usage' \in [Runs -> Usage]
  <2>1. run[p].verdict \in Outcomes  BY DEF TypeOK, Run, Outcomes
  <2> QED BY <1>0, <1>7, <2>1 DEF Reconcile, Usage
<1> QED BY <1>0, <1>2, <1>3, <1>4, <1>5, <1>6, <1>7, UsageWriters

LEMMA RunTypes ==
  ASSUME TypeOK, [Next]_vars PROVE run' \in [Runs -> Run]
<1>0. run \in [Runs -> Run]  BY DEF TypeOK
<1>1. ASSUME NEW p \in Runs, NEW x \in RunStates, Goes(p, x) PROVE run' \in [Runs -> Run]
  BY <1>0, <1>1 DEF Goes, Run
<1>2. ASSUME NEW p \in Runs, NEW x \in RunStates, NEW b \in BOOLEAN
      PROVE  [run EXCEPT ![p].pc = x, ![p].entered = b] \in [Runs -> Run]
  <2> DEFINE r1 == [run[p] EXCEPT !.pc = x]
             r2 == [r1 EXCEPT !.entered = b]
  <2>1. r1 \in Run  BY <1>0, RunRows
  <2>2. r2 \in Run  BY <2>1, RunRows
  <2>3. [run EXCEPT ![p].pc = x, ![p].entered = b] = [run EXCEPT ![p] = r2]  BY <1>0
  <2> QED BY <1>0, <2>2, <2>3
<1>3. ASSUME NEW p \in Runs, Replay(p) PROVE run' \in [Runs -> Run]
  BY <1>1, <1>3 DEF Replay, RunStates
<1>4. ASSUME NEW p \in Runs, Admit(p) PROVE run' \in [Runs -> Run]
  <2> DEFINE s == ref[Target[p]].sess
  <2>1. /\ Doc(p) \in Artifacts /\ s \in Sessions /\ sess[s].rev \in Nat
        /\ art'[Doc(p)].gen \in Nat
    BY <1>4, ArtTypes, AnalysisAssumption DEF Doc, TypeOK, Artifact
  <2>2. (art[Doc(p)].state \in Raw) \in BOOLEAN  OBVIOUS
  <2> DEFINE r == [IdleRun EXCEPT !.pc = "LEASED", !.sess = s, !.rev = sess[s].rev,
                                  !.gen = art'[Doc(p)].gen, !.raw = art[Doc(p)].state \in Raw]
  <2>3. r \in Run  BY <2>1, <2>2, AdmittedRun
  <2>4. run' = [run EXCEPT ![p] = r]  BY <1>4 DEF Admit
  <2> QED BY <1>0, <2>3, <2>4
<1>5. ASSUME NEW p \in Runs, Enter(p) \/ Publish(p) PROVE run' \in [Runs -> Run]
  <2>1. "OPEN" \in RunStates /\ "PUBLISHED" \in RunStates  BY DEF RunStates, Working
  <2>2. CASE Enter(p)
    BY <1>2, <2>1, <2>2 DEF Enter
  <2>3. CASE Publish(p)
    BY <1>2, <2>1, <2>3 DEF Publish
  <2> QED BY <1>5, <2>2, <2>3
<1>6. ASSUME NEW p \in Runs, Parse(p) \/ Attempt(p) \/ BeforeGeneration(p) \/ Dispatch(p)
                             \/ Answer(p) \/ Reconcile(p)
      PROVE  run' \in [Runs -> Run]
  <2>1. \E x \in RunStates : Goes(p, x)
    BY <1>6 DEF Parse, Attempt, BeforeGeneration, Dispatch, Answer, Reconcile, RunStates,
                Working, Failing
  <2> QED BY <1>1, <2>1
<1>7. ASSUME NEW p \in Runs, Fail(p) PROVE run' \in [Runs -> Run]
  <2>1. CASE Attempted(p)
    <3>1. PICK v \in Verdicts(p) :
            run' = [run EXCEPT ![p].pc = "FAILING", ![p].verdict = v.verdict, ![p].accounted = v.accounted]
      BY <1>7, <2>1 DEF Fail
    <3>2. v.verdict \in Failures \cup {"NONE"}
      BY DEF Verdicts, Verdict, Failures
    <3>7. v.accounted \in BOOLEAN
      <4>1. \A o : Verdict(o, TRUE).accounted = TRUE /\ Verdict(o, FALSE).accounted = FALSE
        BY DEF Verdict
      <4>2. PICK o : v = Verdict(o, TRUE) \/ v = Verdict(o, FALSE)
        BY DEF Verdicts
      <4> QED BY <4>1, <4>2
    <3> DEFINE r1 == [run[p] EXCEPT !.pc = "FAILING"]
               r2 == [r1 EXCEPT !.verdict = v.verdict]
               r3 == [r2 EXCEPT !.accounted = v.accounted]
    <3>3. r1 \in Run  BY <1>0, RunRows DEF RunStates, Failing
    <3>4. r2 \in Run  BY <3>2, <3>3, RunRows
    <3>5. r3 \in Run  BY <3>4, <3>7, RunRows
    <3>6. run' = [run EXCEPT ![p] = r3]  BY <1>0, <3>1
    <3> QED BY <1>0, <3>5, <3>6
  <2>2. CASE ~Attempted(p)
    BY <1>1, <1>7, <2>2 DEF Fail, RunStates, Failing
  <2> QED BY <2>1, <2>2
<1>8. ASSUME NEW p \in Runs, Cleanup(p) PROVE run' \in [Runs -> Run]
  <2>1. Exited(p) \in Run  BY <1>0, ExitedRun
  <2> QED BY <1>0, <1>8, <2>1 DEF Cleanup
<1>9. ASSUME NEW p \in Runs, TransactionFails(p) PROVE run' \in [Runs -> Run]
  <2>1. Exited(p) \in Run  BY <1>0, ExitedRun
  <2>2. CASE Goes(p, "CLEANUP")  BY <1>1, <2>2 DEF RunStates, Failing
  <2>3. CASE run' = [run EXCEPT ![p] = Exited(p)]  BY <1>0, <2>1, <2>3
  <2> QED BY <1>9, <2>2, <2>3 DEF TransactionFails
<1>10. CASE Crash
  <2>1. \A p \in Runs : Exited(p) \in Run  BY <1>0, ExitedRun
  <2> QED BY <1>0, <1>10, <2>1 DEF Crash
<1> QED BY <1>0, <1>3, <1>4, <1>5, <1>6, <1>7, <1>8, <1>9, <1>10, RunWriters DEF Step

\* The rows that few actions write.
LEMMA OtherTypes ==
  ASSUME TypeOK, [Next]_vars
  PROVE  /\ ref' \in [Attachments -> [sess: Sessions, attached: BOOLEAN]]
         /\ pending' \subseteq Attachments
         /\ consent' \in [Attachments -> Consent]
         /\ sent' \subseteq Runs
         /\ mishaps' \in Nat
<1> DEFINE P == /\ ref' \in [Attachments -> [sess: Sessions, attached: BOOLEAN]]
                /\ pending' \subseteq Attachments
                /\ consent' \in [Attachments -> Consent]
                /\ sent' \subseteq Runs
                /\ mishaps' \in Nat
<1>1. ASSUME NEW s \in Sessions, Close(s) PROVE P
  BY <1>1 DEF Close, TypeOK
<1>2. ASSUME NEW s \in Sessions, NEW n \in Late, NEW T \in SUBSET Attachments, Apply(s, n, T)
      PROVE  P
  BY <1>2, AnalysisAssumption DEF Apply, TypeOK, Consent, NoConsent
<1>3. ASSUME NEW t \in Attachments, NEW q \in Requests, RecordConsent(t, q) PROVE P
  BY <1>3 DEF RecordConsent, TypeOK, Consent
<1>4. ASSUME NEW p \in Runs, Attempt(p) PROVE P
  BY <1>4 DEF Attempt, TypeOK, Consent
<1>5. ASSUME NEW p \in Runs, Publish(p) \/ Dispatch(p) PROVE P
  BY <1>5 DEF Publish, Dispatch, TypeOK, rows
<1>6. ASSUME NEW p \in Runs, TransactionFails(p) PROVE P
  BY <1>6 DEF TransactionFails, TypeOK, rows
<1>7. CASE Crash
  BY <1>7 DEF Crash, TypeOK, rows
<1>8. ASSUME ref' = ref, pending' = pending, consent' = consent, sent' = sent, mishaps' = mishaps
      PROVE  P
  BY <1>8 DEF TypeOK
<1>9. \/ /\ ref' = ref /\ pending' = pending /\ consent' = consent
         /\ sent' = sent /\ mishaps' = mishaps
      \/ \E s \in Sessions :
           Close(s) \/ \E n \in Late, T \in SUBSET Attachments : Apply(s, n, T)
      \/ \E t \in Attachments, q \in Requests : RecordConsent(t, q)
      \/ \E p \in Runs : Attempt(p) \/ Publish(p) \/ Dispatch(p) \/ TransactionFails(p)
      \/ Crash
  BY DEF Next, Session, Step, vars, rows, Revise, Confirm, Review, RetentionEnds, LeaseExpires,
         PurgeCapture, Replay, Admit, Enter, Parse, BeforeGeneration, Answer, Fail, Reconcile,
         Cleanup
<1> QED BY <1>1, <1>2, <1>3, <1>4, <1>5, <1>6, <1>7, <1>8, <1>9

LEMMA TypesStay ==
  ASSUME TypeOK, [Next]_vars PROVE TypeOK'
BY SessTypes, ArtTypes, UsageTypes, RunTypes, OtherTypes DEF TypeOK

----------------------------------------------------------------------------
(* What a step may do to a row *)

\* Exited changes the place of a run only.
LEMMA ExitedKeeps ==
  ASSUME NEW p \in Runs, run[p] \in Run
  PROVE  /\ Exited(p).pc = "DONE" /\ Exited(p).sess = run[p].sess /\ Exited(p).rev = run[p].rev
         /\ Exited(p).gen = run[p].gen /\ Exited(p).raw = run[p].raw
         /\ Exited(p).verdict = run[p].verdict /\ Exited(p).accounted = run[p].accounted
BY DEF Exited, Run

\* A run keeps what its admission captured, and only an admission starts one.
LEMMA Captured ==
  ASSUME TypeOK, [Next]_vars, NEW q \in Runs, ~Admit(q)
  PROVE  /\ run'[q].sess = run[q].sess /\ run'[q].rev = run[q].rev
         /\ run'[q].gen = run[q].gen /\ run'[q].raw = run[q].raw
         /\ Active(q)' => Active(q)
<1> DEFINE Kept == /\ run'[q].sess = run[q].sess /\ run'[q].rev = run[q].rev
                   /\ run'[q].gen = run[q].gen /\ run'[q].raw = run[q].raw
                   /\ run'[q].pc \in Working \cup Failing => run[q].pc \in Working \cup Failing
<1> SUFFICES Kept  BY DEF Active
<1>0. run \in [Runs -> Run]  BY DEF TypeOK
<1>1. ASSUME NEW p \in Runs, NEW x \in {"DONE", "CLEANUP", "PARSED", "SCANNED", "ATTEMPTED",
                                        "CLEARED", "SENT"},
             Goes(p, x), run[p].pc \in Working \cup Failing \/ x = "DONE"
      PROVE  Kept
  BY <1>0, <1>1 DEF Goes, Run, Working, Failing
<1>2. ASSUME NEW p \in Runs, Replay(p) PROVE Kept
  BY <1>1, <1>2 DEF Replay
<1>3. ASSUME NEW p \in Runs, Admit(p) PROVE Kept
  BY <1>0, <1>3 DEF Admit
<1>4. ASSUME NEW p \in Runs, Enter(p) \/ Publish(p) PROVE Kept
  BY <1>0, <1>4 DEF Enter, Publish, Run, Working, Failing
<1>5. ASSUME NEW p \in Runs, Parse(p) \/ Attempt(p) \/ BeforeGeneration(p) \/ Dispatch(p)
                             \/ Answer(p) \/ Reconcile(p)
      PROVE  Kept
  <2>1. \E x \in {"CLEANUP", "PARSED", "SCANNED", "ATTEMPTED", "CLEARED", "SENT"} :
          Goes(p, x) /\ run[p].pc \in Working \cup Failing
    BY <1>5 DEF Parse, Attempt, BeforeGeneration, Dispatch, Answer, Reconcile, Working, Failing
  <2> QED BY <1>1, <2>1
<1>6. ASSUME NEW p \in Runs, Fail(p) PROVE Kept
  <2>1. CASE Attempted(p)
    <3>1. PICK v \in Verdicts(p) :
            run' = [run EXCEPT ![p].pc = "FAILING", ![p].verdict = v.verdict,
                               ![p].accounted = v.accounted]
      BY <1>6, <2>1 DEF Fail
    <3>2. run[p].pc \in Working  BY <1>6 DEF Fail
    <3> QED BY <1>0, <3>1, <3>2 DEF Run
  <2>2. CASE ~Attempted(p)
    BY <1>1, <1>6, <2>2 DEF Fail
  <2> QED BY <2>1, <2>2
<1>7. ASSUME NEW p \in Runs, Cleanup(p) \/ TransactionFails(p) PROVE Kept
  <2>1. CASE run' = [run EXCEPT ![p] = Exited(p)]
    BY <1>0, <2>1, ExitedKeeps DEF Working, Failing
  <2>2. CASE run[p].pc = "FAILING" /\ Goes(p, "CLEANUP")
    BY <1>1, <2>2 DEF Failing
  <2> QED BY <1>7, <2>1, <2>2 DEF Cleanup, TransactionFails
<1>8. CASE Crash
  BY <1>0, <1>8, ExitedKeeps DEF Crash, Working, Failing
<1>9. CASE run' = run
  BY <1>9
<1> QED BY <1>2, <1>3, <1>4, <1>5, <1>6, <1>7, <1>8, <1>9, RunWriters DEF Step

\* Parse generations only grow.
LEMMA GenerationsGrow ==
  ASSUME TypeOK, [Next]_vars, NEW a \in Artifacts
  PROVE  art'[a].gen \in Nat /\ art[a].gen \in Nat /\ art[a].gen <= art'[a].gen
<1>0. art \in [Artifacts -> Artifact] /\ art[a].gen \in Nat /\ art'[a].gen \in Nat
  BY ArtTypes DEF TypeOK, Artifact
<1>1. \A row \in Artifact : FencedOff(row).gen = row.gen + 1
  BY DEF FencedOff, Unleased, Artifact
<1>2. \A row \in Artifact : Unleased(row).gen = row.gen
  BY DEF Unleased, Artifact
<1>3. ASSUME NEW s \in Sessions, art' = Withdrawn(s) PROVE art[a].gen <= art'[a].gen
  BY <1>0, <1>1, <1>3 DEF Withdrawn
<1>4. ASSUME NEW s \in Sessions, Close(s) PROVE art[a].gen <= art'[a].gen
  BY <1>3, <1>4 DEF Close
<1>5. ASSUME NEW s \in Sessions, NEW n \in Late, NEW T \in SUBSET Attachments, Apply(s, n, T)
      PROVE  art[a].gen <= art'[a].gen
  BY <1>3, <1>5 DEF Apply
<1>6. ASSUME NEW s \in Sessions, NEW U \in SUBSET Runs, RetentionEnds(s, U)
      PROVE  art[a].gen <= art'[a].gen
  <2> DEFINE r == [FencedOff(art[a]) EXCEPT !.state = "RAW_READY", !.by = "NONE"]
  <2>1. r.gen = art[a].gen + 1
    BY <1>0 DEF FencedOff, Unleased, Artifact
  <2>2. art'[a] = art[a] \/ art'[a] = r
    BY <1>6 DEF RetentionEnds
  <2> HIDE DEF r
  <2> QED BY <1>0, <2>1, <2>2
<1>7. ASSUME NEW b \in Artifacts, LeaseExpires(b) \/ PurgeCapture(b)
      PROVE  art[a].gen <= art'[a].gen
  <2>1. \A row \in Artifact :
          [Unleased(row) EXCEPT !.state = "PURGING", !.gen = @ + 1].gen = row.gen + 1
    BY DEF Unleased, Artifact
  <2>2. CASE LeaseExpires(b)
    BY <1>0, <2>2 DEF LeaseExpires, Artifact
  <2>3. CASE PurgeCapture(b)
    BY <1>0, <2>1, <2>3 DEF PurgeCapture
  <2> QED BY <1>7, <2>2, <2>3
<1>8. ASSUME NEW p \in Runs, Admit(p) PROVE art[a].gen <= art'[a].gen
  BY <1>0, <1>8 DEF Admit, Leased, Artifact
<1>9. ASSUME NEW p \in Runs, Publish(p) PROVE art[a].gen <= art'[a].gen
  BY <1>0, <1>9 DEF Publish, Extracted, Unleased, Artifact
<1>10. ASSUME NEW p \in Runs, Cleanup(p) PROVE art[a].gen <= art'[a].gen
  BY <1>0, <1>10 DEF Cleanup, Cleaned, Unleased, Artifact
<1> QED BY <1>0, <1>4, <1>5, <1>6, <1>7, <1>8, <1>9, <1>10, ArtWriters

\* The session that a rechecked run analyses for.
LEMMA RecheckedSession ==
  ASSUME TypeOK, NEW p \in Runs, Recheck(p)
  PROVE  run[p].sess \in Sessions /\ ref[Target[p]].sess = run[p].sess
<1>1. ref[Target[p]] \in [sess: Sessions, attached: BOOLEAN]
  BY AnalysisAssumption DEF TypeOK
<1>2. ref[Target[p]].sess = run[p].sess
  BY DEF Recheck
<1> QED BY <1>1, <1>2

\* A session that was opened stays so, and every change of it is a new revision.
LEMMA RevisionsGrow ==
  ASSUME TypeOK, [Next]_vars, NEW x \in Sessions
  PROVE  /\ sess[x].rev \in Nat /\ sess'[x].rev \in Nat /\ sess[x].rev <= sess'[x].rev
         /\ sess[x].state # "NEW" =>
              sess'[x].state # "NEW" /\ (sess'[x] = sess[x] \/ sess[x].rev < sess'[x].rev)
<1> DEFINE Grown == /\ sess[x].rev <= sess'[x].rev
                    /\ sess[x].state # "NEW" =>
                         /\ sess'[x].state # "NEW"
                         /\ sess'[x] = sess[x] \/ sess[x].rev < sess'[x].rev
<1>0. /\ sess \in [Sessions -> [state: SessStates, rev: Nat]]
      /\ sess[x].rev \in Nat /\ sess'[x].rev \in Nat
  BY SessTypes DEF TypeOK
<1>1. ASSUME NEW s \in Sessions, Revise(s) PROVE Grown
  BY <1>0, <1>1 DEF Revise, NextRevision
<1>2. ASSUME NEW s \in Sessions, Confirm(s) PROVE Grown
  BY <1>0, <1>2 DEF Confirm, NextRevision
<1>3. ASSUME NEW s \in Sessions, Review(s) PROVE Grown
  BY <1>0, <1>3 DEF Review, NextRevision
<1>4. ASSUME NEW s \in Sessions, Close(s) PROVE Grown
  BY <1>0, <1>4 DEF Close, NextRevision
<1>5. ASSUME NEW s \in Sessions, NEW n \in Late, NEW T \in SUBSET Attachments, Apply(s, n, T)
      PROVE  Grown
  BY <1>0, <1>5 DEF Apply, NextRevision
<1>6. ASSUME NEW s \in Sessions, NEW U \in SUBSET Runs, RetentionEnds(s, U) PROVE Grown
  <2>1. sess' = NextRevision(s) \/ sess' = sess
    BY <1>6 DEF RetentionEnds
  <2> QED BY <1>0, <2>1 DEF NextRevision
<1>7. ASSUME NEW t \in Attachments, NEW q \in Requests, RecordConsent(t, q) PROVE Grown
  BY <1>0, <1>7 DEF RecordConsent, NextRevision, TypeOK
<1>8. ASSUME NEW p \in Runs, Publish(p) PROVE Grown
  BY <1>0, <1>8, RecheckedSession DEF Publish, NextRevision
<1>9. CASE UNCHANGED sess
  BY <1>0, <1>9
<1>10. Grown
  BY <1>1, <1>2, <1>3, <1>4, <1>5, <1>6, <1>7, <1>8, <1>9, SessWriters
<1> QED BY <1>0, <1>10

----------------------------------------------------------------------------
(* Admission and fencing *)

\* The part of the invariant about what a run captured.
LEMMA AdmittedStays ==
  ASSUME TypeOK, \A p \in Runs : Admitted(p), [Next]_vars
  PROVE  \A p \in Runs : Admitted(p)'
<1> SUFFICES ASSUME NEW q \in Runs PROVE Admitted(q)'
  OBVIOUS
<1>1. CASE Admit(q)
  <2> DEFINE s == ref[Target[q]].sess
  <2>1. /\ Doc(q) \in Artifacts /\ s \in Sessions
        /\ art[Doc(q)] \in Artifact /\ art[Doc(q)].gen \in Nat
    BY AnalysisAssumption DEF Doc, TypeOK, Artifact
  <2>2. run[q] \in Run  BY DEF TypeOK
  <2>3. art'[Doc(q)].gen = art[Doc(q)].gen + 1
    BY <1>1, <2>1 DEF Admit, Leased, TypeOK, Artifact
  <2>4. /\ run'[q].sess = s /\ run'[q].rev = sess[s].rev /\ run'[q].gen = art'[Doc(q)].gen
        /\ sess[s].state = "EDITABLE" /\ sess' = sess
    BY <1>1, <2>2 DEF Admit, IdleRun, TypeOK
  <2>5. sess[s].rev \in Nat  BY <2>1 DEF TypeOK
  <2> HIDE DEF s
  <2> QED BY <2>1, <2>3, <2>4, <2>5 DEF Admitted
<1>2. CASE ~Admit(q)
  <2>1. CASE Active(q)
    <3>1. /\ run[q].sess \in Sessions /\ sess[run[q].sess].state # "NEW"
          /\ run[q].rev <= sess[run[q].sess].rev /\ run[q].gen # 0
      BY <2>1 DEF Admitted
    <3>2. run[q].rev \in Nat  BY DEF TypeOK, Run
    <3> QED BY <1>2, <3>1, <3>2, Captured, RevisionsGrow DEF Admitted
  <2>2. CASE ~Active(q)
    BY <1>2, <2>2, Captured DEF Admitted
  <2> QED BY <2>1, <2>2
<1> QED BY <1>1, <1>2

\* The part of the invariant about parse generations.
LEMMA FencesStay ==
  ASSUME TypeOK, Fences, [Next]_vars PROVE Fences'
<1>0. /\ \A p \in Runs : Doc(p) \in Artifacts /\ run[p].gen \in Nat
      /\ \A p \in Runs : art[Doc(p)].gen \in Nat
  BY AnalysisAssumption DEF Doc, TypeOK, Run, Artifact
<1>1. ASSUME NEW p \in Runs, Admit(p)
      PROVE  /\ run'[p].gen = art[Doc(p)].gen + 1
             /\ run'[p].gen = art'[Doc(p)].gen
             /\ \A q \in Runs : q # p => ~Admit(q)
  <2>1. art[Doc(p)] \in Artifact /\ run[p] \in Run  BY <1>0 DEF TypeOK
  <2>2. art'[Doc(p)].gen = art[Doc(p)].gen + 1
    BY <1>0, <1>1, <2>1 DEF Admit, Leased, TypeOK, Artifact
  <2>3. run'[p].gen = art'[Doc(p)].gen
    BY <1>1, <2>1 DEF Admit, IdleRun, TypeOK
  <2>4. \A q \in Runs : q # p => run'[q] = run[q]
    BY <1>1 DEF Admit, TypeOK
  <2>5. \A q \in Runs : Admit(q) => run[q].pc = "IDLE" /\ run'[q].pc = "LEASED"
    BY DEF Admit, TypeOK, IdleRun
  <2> QED BY <2>2, <2>3, <2>4, <2>5
<1>2. ASSUME NEW p \in Runs PROVE run'[p].gen <= art'[Doc(p)].gen
  BY <1>0, <1>1, Captured, GenerationsGrow DEF Fences
<1>3. ASSUME NEW p \in Runs, NEW q \in Runs,
             run'[p].gen # 0, Doc(p) = Doc(q), run'[p].gen = run'[q].gen
      PROVE  p = q
  <2>1. CASE Admit(p) /\ ~Admit(q)
    BY <1>0, <1>1, <1>3, <2>1, Captured DEF Fences
  <2>2. CASE Admit(q) /\ ~Admit(p)
    BY <1>0, <1>1, <1>3, <2>2, Captured DEF Fences
  <2>3. CASE Admit(p) /\ Admit(q)
    BY <1>1, <2>3
  <2>4. CASE ~Admit(p) /\ ~Admit(q)
    BY <1>3, <2>4, Captured DEF Fences
  <2> QED BY <2>1, <2>2, <2>3, <2>4
<1>4. \A p \in Runs : Doc(p)' = Doc(p)  BY DEF Doc
<1> QED BY <1>2, <1>3, <1>4 DEF Fences

----------------------------------------------------------------------------
(* The usage rows *)

\* A session that closes, is applied or outlives its retention makes provider
\* content disappear and changes no other outcome.
LEMMA SessionsKeepOutcomes ==
  ASSUME TypeOK, NEW s \in Sessions, NEW q \in Runs,
         \/ Close(s)
         \/ \E n \in Late, T \in SUBSET Attachments : Apply(s, n, T)
         \/ \E U \in SUBSET Runs : RetentionEnds(s, U)
  PROVE  /\ run' = run /\ sent' = sent
         /\ \/ usage'[q].outcome = usage[q].outcome
            \/ usage[q].outcome = "SUCCEEDED" /\ usage'[q].outcome = "PURGED"
<1>0. usage \in [Runs -> Usage]  BY DEF TypeOK
<1>1. CASE Close(s)
  BY <1>0, <1>1 DEF Close, Scrubbed, Usage
<1>2. ASSUME NEW n \in Late, NEW T \in SUBSET Attachments, Apply(s, n, T)
      PROVE  /\ run' = run /\ sent' = sent
             /\ \/ usage'[q].outcome = usage[q].outcome
                \/ usage[q].outcome = "SUCCEEDED" /\ usage'[q].outcome = "PURGED"
  <2>1. Moved(T, n)[q] \in Usage /\ Moved(T, n)[q].outcome = usage[q].outcome
    BY <1>0, AnalysisAssumption DEF Moved, Usage
  <2>2. \/ usage'[q] = Moved(T, n)[q]
        \/ /\ Moved(T, n)[q].outcome = "SUCCEEDED"
           /\ usage'[q] = [Moved(T, n)[q] EXCEPT !.outcome = "PURGED"]
    BY <1>2 DEF Apply, Scrubbed
  <2>3. run' = run /\ sent' = sent  BY <1>2 DEF Apply
  <2> QED BY <2>1, <2>2, <2>3 DEF Usage
<1>3. ASSUME NEW U \in SUBSET Runs, RetentionEnds(s, U)
      PROVE  /\ run' = run /\ sent' = sent
             /\ \/ usage'[q].outcome = usage[q].outcome
                \/ usage[q].outcome = "SUCCEEDED" /\ usage'[q].outcome = "PURGED"
  <2>1. \/ usage'[q] = usage[q]
        \/ /\ usage[q].outcome = "SUCCEEDED"
           /\ usage'[q] = [usage[q] EXCEPT !.outcome = "PURGED"]
    BY <1>3 DEF RetentionEnds
  <2>2. run' = run /\ sent' = sent  BY <1>3 DEF RetentionEnds
  <2>3. usage[q] \in Usage  BY <1>0
  <2> QED BY <2>1, <2>2, <2>3 DEF Usage
<1> QED BY <1>1, <1>2, <1>3

\* An analysis touches neither another one nor its usage row.
LEMMA OwnRowOnly ==
  ASSUME TypeOK, NEW p \in Runs, NEW q \in Runs, q # p,
         Replay(p) \/ Admit(p) \/ Step(p) \/ TransactionFails(p)
  PROVE  run'[q] = run[q] /\ usage'[q] = usage[q] /\ (q \in sent' <=> q \in sent)
<1>0. run \in [Runs -> Run] /\ usage \in [Runs -> Usage]  BY DEF TypeOK
<1>1. run'[q] = run[q]
  BY <1>0 DEF Replay, Admit, Step, TransactionFails, Enter, Parse, Attempt, BeforeGeneration,
              Dispatch, Answer, Publish, Fail, Reconcile, Cleanup, Goes
<1>2. usage'[q] = usage[q] /\ (q \in sent' <=> q \in sent)
  BY <1>0 DEF Replay, Admit, Step, TransactionFails, Enter, Parse, Attempt, BeforeGeneration,
              Dispatch, Answer, Publish, Fail, Reconcile, Cleanup, rows
<1> QED BY <1>1, <1>2

\* What LedgerIsTrue says of one row.
Recorded(p) ==
  /\ usage[p].outcome \in {"SUCCEEDED", "PURGED"} <=> p \in sent /\ run[p].pc = "PUBLISHED"
  /\ usage[p].outcome = "NOT_DISPATCHED" => p \notin sent

\* The steps of one analysis keep its own row true.
LEMMA OwnRowStays ==
  ASSUME TypeOK, NEW p \in Runs, Billed(p), Recorded(p),
         Replay(p) \/ Admit(p) \/ Step(p) \/ TransactionFails(p)
  PROVE  Billed(p)' /\ Recorded(p)'
<1>0. /\ run \in [Runs -> Run] /\ usage \in [Runs -> Usage] /\ run[p] \in Run /\ usage[p] \in Usage
      /\ usage[p].outcome \in Outcomes /\ sent \subseteq Runs
  BY DEF TypeOK, Usage
<1> USE DEF Billed, Recorded
<1>1. CASE Replay(p)
  BY <1>0, <1>1 DEF Replay, Goes, rows, Run
<1>2. CASE Admit(p)
  BY <1>0, <1>2 DEF Admit, IdleRun
<1>3. CASE Enter(p)
  BY <1>0, <1>3 DEF Enter, rows, Run
<1>4. CASE Parse(p)
  <2>1. CASE Goes(p, "SCANNED")
    BY <1>0, <1>4, <2>1 DEF Parse, Goes, rows, Run
  <2>2. CASE Goes(p, "PARSED")
    BY <1>0, <1>4, <2>2 DEF Parse, Goes, rows, Run
  <2> QED BY <1>4, <2>1, <2>2 DEF Parse
<1>5. CASE Attempt(p)
  BY <1>0, <1>5 DEF Attempt, Goes, Run
<1>6. CASE BeforeGeneration(p)
  BY <1>0, <1>6 DEF BeforeGeneration, Goes, rows, Run
<1>7. CASE Dispatch(p)
  BY <1>0, <1>7 DEF Dispatch, Goes, rows, Run
<1>8. CASE Answer(p)
  BY <1>0, <1>8 DEF Answer, Goes, rows, Run
<1>9. CASE Publish(p)
  BY <1>0, <1>9 DEF Publish, Run, Usage
<1>10. CASE Fail(p)
  <2>1. CASE Attempted(p)
    <3>1. PICK v \in Verdicts(p) :
            run' = [run EXCEPT ![p].pc = "FAILING", ![p].verdict = v.verdict,
                               ![p].accounted = v.accounted]
      BY <1>10, <2>1 DEF Fail
    <3>2. v.verdict # "NONE" /\ (v.verdict = "NOT_DISPATCHED" => run[p].pc \in {"ATTEMPTED", "CLEARED"})
      BY DEF Verdicts, Verdict
    <3>3. run'[p].pc = "FAILING" /\ run'[p].verdict = v.verdict
      BY <1>0, <3>1 DEF Run
    <3>4. run[p].pc \in Working /\ usage' = usage /\ sent' = sent /\ usage[p].outcome # "NONE"
      BY <1>10, <2>1 DEF Fail, rows, Attempted
    <3> QED BY <3>2, <3>3, <3>4 DEF Working
  <2>2. CASE ~Attempted(p)
    <3>1. Goes(p, "CLEANUP") /\ run[p].pc \in Working /\ usage' = usage /\ sent' = sent
      BY <1>10, <2>2 DEF Fail, rows
    <3> QED BY <1>0, <2>2, <3>1 DEF Goes, Attempted, Run, Working
  <2> QED BY <2>1, <2>2
<1>11. CASE Reconcile(p)
  <2>1. run[p].verdict \in Failures \cup {"NONE"}  BY <1>0 DEF Run
  <2>2. run'[p].pc = "CLEANUP"  BY <1>0, <1>11 DEF Reconcile, Goes, Run
  <2>3. usage'[p] = usage[p] \/ usage'[p].outcome = run[p].verdict
    BY <1>0, <1>11 DEF Reconcile, Usage
  <2>4. run[p].pc = "FAILING" /\ sent' = sent  BY <1>11 DEF Reconcile
  <2> QED BY <2>1, <2>2, <2>3, <2>4 DEF Failures
<1>12. CASE Cleanup(p)
  BY <1>0, <1>12, ExitedKeeps DEF Cleanup
<1>13. CASE TransactionFails(p)
  <2>1. CASE run' = [run EXCEPT ![p] = Exited(p)] /\ run[p].pc = "CLEANUP"
    BY <1>0, <1>13, <2>1, ExitedKeeps DEF TransactionFails, rows
  <2>2. CASE Goes(p, "CLEANUP") /\ run[p].pc = "FAILING"
    BY <1>0, <1>13, <2>2 DEF TransactionFails, Goes, rows, Run
  <2> QED BY <1>13, <2>1, <2>2 DEF TransactionFails
<1> QED BY <1>1, <1>2, <1>3, <1>4, <1>5, <1>6, <1>7, <1>8, <1>9, <1>10, <1>11, <1>12, <1>13 DEF Step

\* The part of the invariant about the outcome of each analysis.
LEMMA RecordsStay ==
  ASSUME TypeOK, \A p \in Runs : Billed(p), LedgerIsTrue, [Next]_vars
  PROVE  (\A p \in Runs : Billed(p)') /\ LedgerIsTrue'
<1>0. run \in [Runs -> Run] /\ \A p \in Runs : Billed(p) /\ Recorded(p)
  BY DEF LedgerIsTrue, Recorded, TypeOK
<1>1. SUFFICES ASSUME NEW q \in Runs PROVE Billed(q)' /\ Recorded(q)'
  BY DEF LedgerIsTrue, Recorded
<1>2. ASSUME run'[q] = run[q], q \in sent' <=> q \in sent,
             \/ usage'[q].outcome = usage[q].outcome
             \/ usage[q].outcome = "SUCCEEDED" /\ usage'[q].outcome = "PURGED"
      PROVE  Billed(q)' /\ Recorded(q)'
  BY <1>0, <1>2 DEF Billed, Recorded
<1>3. ASSUME NEW p \in Runs, Replay(p) \/ Admit(p) \/ Step(p) \/ TransactionFails(p)
      PROVE  Billed(q)' /\ Recorded(q)'
  BY <1>0, <1>2, <1>3, OwnRowOnly, OwnRowStays
<1>4. ASSUME NEW s \in Sessions, Session(s) PROVE Billed(q)' /\ Recorded(q)'
  <2>1. CASE Revise(s) \/ Confirm(s) \/ Review(s)
    BY <1>2, <2>1 DEF Revise, Confirm, Review
  <2>2. CASE \/ Close(s)
             \/ \E n \in Late, T \in SUBSET Attachments : Apply(s, n, T)
             \/ \E U \in SUBSET Runs : RetentionEnds(s, U)
    BY <1>2, <2>2, SessionsKeepOutcomes
  <2> QED BY <1>4, <2>1, <2>2 DEF Session
<1>5. CASE Crash
  <2>1. /\ usage' = usage /\ sent' = sent
        /\ IF Active(q) THEN run'[q].pc = "DONE" ELSE run'[q] = run[q]
    BY <1>0, <1>5, ExitedKeeps DEF Crash, rows
  <2> QED BY <1>0, <2>1 DEF Billed, Recorded, Active, Working, Failing
<1>6. CASE run' = run /\ usage' = usage /\ sent' = sent
  BY <1>2, <1>6
<1>7. \/ run' = run /\ usage' = usage /\ sent' = sent
      \/ \E s \in Sessions : Session(s)
      \/ \E p \in Runs : Replay(p) \/ Admit(p) \/ Step(p) \/ TransactionFails(p)
      \/ Crash
  BY DEF Next, vars, rows, RecordConsent, LeaseExpires, PurgeCapture
<1> QED BY <1>3, <1>4, <1>5, <1>6, <1>7

\* A usage row that says something goes where its attachment goes, and only an
\* attempt makes a row say something.
LEMMA UsageFollows ==
  ASSUME TypeOK, \A p \in Runs : Billed(p), [Next]_vars, NEW q \in Runs, ~Attempt(q),
         usage[q].outcome # "NONE" => usage[q].sess = ref[Target[q]].sess
  PROVE  /\ usage'[q].outcome # "NONE" => usage[q].outcome # "NONE"
         /\ usage'[q].outcome # "NONE" => usage'[q].sess = ref'[Target[q]].sess
<1> DEFINE Follows ==
      usage'[q].outcome # "NONE" =>
        usage[q].outcome # "NONE" /\ usage'[q].sess = ref'[Target[q]].sess
<1> SUFFICES Follows  OBVIOUS
<1>0. /\ usage \in [Runs -> Usage] /\ usage[q] \in Usage /\ Target[q] \in Attachments
      /\ ref \in [Attachments -> [sess: Sessions, attached: BOOLEAN]]
  BY AnalysisAssumption DEF TypeOK
<1>1. ASSUME NEW s \in Sessions, Close(s) PROVE Follows
  <2>1. ref'[Target[q]].sess = ref[Target[q]].sess
    BY <1>0, <1>1 DEF Close
  <2>2. \/ usage'[q] = usage[q]
        \/ /\ usage[q].outcome = "SUCCEEDED"
           /\ usage'[q] = [usage[q] EXCEPT !.outcome = "PURGED"]
    BY <1>1 DEF Close, Scrubbed
  <2> QED BY <1>0, <2>1, <2>2 DEF Usage
<1>2. ASSUME NEW s \in Sessions, NEW n \in Late, NEW T \in SUBSET Attachments, Apply(s, n, T)
      PROVE  Follows
  <2> DEFINE u == Moved(T, n)[q]
  <2>1. u \in Usage /\ u.outcome = usage[q].outcome
    BY <1>0, AnalysisAssumption DEF Moved, Usage
  <2>2. u.outcome # "NONE" =>
          u.sess = IF Target[q] \in T THEN n ELSE usage[q].sess
    BY <1>0 DEF Moved, Usage
  <2>3. ref'[Target[q]].sess = IF Target[q] \in T THEN n ELSE ref[Target[q]].sess
    BY <1>0, <1>2 DEF Apply
  <2>4. \/ usage'[q] = u
        \/ u.outcome = "SUCCEEDED" /\ usage'[q] = [u EXCEPT !.outcome = "PURGED"]
    BY <1>2 DEF Apply, Scrubbed
  <2> HIDE DEF u
  <2> QED BY <2>1, <2>2, <2>3, <2>4 DEF Usage
<1>3. ASSUME NEW s \in Sessions, NEW U \in SUBSET Runs, RetentionEnds(s, U) PROVE Follows
  <2>1. \/ usage'[q] = usage[q]
        \/ /\ usage[q].outcome = "SUCCEEDED"
           /\ usage'[q] = [usage[q] EXCEPT !.outcome = "PURGED"]
    BY <1>3 DEF RetentionEnds
  <2>2. ref' = ref  BY <1>3 DEF RetentionEnds
  <2> QED BY <1>0, <2>1, <2>2 DEF Usage
<1>4. ASSUME NEW p \in Runs, Attempt(p) PROVE Follows
  BY <1>0, <1>4 DEF Attempt
<1>5. ASSUME NEW p \in Runs, Publish(p) PROVE Follows
  <2>1. p \in sent => usage[p].outcome # "NONE"  BY DEF Billed
  <2> QED BY <1>0, <1>5, <2>1 DEF Publish, Usage
<1>6. ASSUME NEW p \in Runs, Reconcile(p) PROVE Follows
  <2>1. run[p].pc = "FAILING"  BY <1>6 DEF Reconcile
  <2>2. usage[p].outcome # "NONE"  BY <2>1 DEF Billed
  <2> QED BY <1>0, <1>6, <2>2 DEF Reconcile, Usage
<1>7. CASE usage' = usage /\ ref' = ref
  BY <1>7
<1>8. \/ usage' = usage /\ ref' = ref
      \/ \E s \in Sessions :
           \/ Close(s)
           \/ \E n \in Late, T \in SUBSET Attachments : Apply(s, n, T)
           \/ \E U \in SUBSET Runs : RetentionEnds(s, U)
      \/ \E p \in Runs : Attempt(p) \/ Publish(p) \/ Reconcile(p)
  BY DEF Next, Session, Step, vars, rows, Revise, Confirm, Review, RecordConsent, LeaseExpires,
         PurgeCapture, Replay, Admit, Enter, Parse, BeforeGeneration, Dispatch, Answer, Fail,
         Cleanup, TransactionFails, Crash
<1> QED BY <1>1, <1>2, <1>3, <1>4, <1>5, <1>6, <1>7, <1>8

\* The part of the invariant that says an attachment has one usage row.
LEMMA AttemptsStay ==
  ASSUME TypeOK, \A p \in Runs : Billed(p), Attempts, [Next]_vars PROVE Attempts'
<1>0. \A p \in Runs : Target[p] \in Attachments  BY AnalysisAssumption
<1>1. CASE \E p \in Runs : Attempt(p)
  <2>1. PICK p \in Runs : Attempt(p)  BY <1>1
  <2>2. run[p].sess \in Sessions /\ ref[Target[p]].sess = run[p].sess
    BY <2>1, RecheckedSession DEF Attempt
  <2>3. /\ ref' = ref
        /\ usage'[p] = [outcome |-> "ATTEMPTED", sess |-> run[p].sess]
        /\ \A q \in Runs : q # p => usage'[q] = usage[q]
    BY <2>1 DEF Attempt, TypeOK
  <2>4. \A q \in Runs : Target[q] = Target[p] => usage[q].sess # run[p].sess
    BY <2>1 DEF Attempt, Unspent
  <2>5. \A q \in Runs : Target[q] = Target[p] => usage[q].outcome = "NONE"
    BY <2>2, <2>4 DEF Attempts
  <2> QED BY <2>2, <2>3, <2>5 DEF Attempts
<1>2. CASE \A p \in Runs : ~Attempt(p)
  <2>1. ASSUME NEW q \in Runs
        PROVE  /\ usage'[q].outcome # "NONE" => usage[q].outcome # "NONE"
               /\ usage'[q].outcome # "NONE" => usage'[q].sess = ref'[Target[q]].sess
    BY <1>2, UsageFollows DEF Attempts
  <2> QED BY <2>1 DEF Attempts
<1> QED BY <1>1, <1>2

----------------------------------------------------------------------------
(* The artifact rows *)

\* What ExtractionMatchesState says of one row.
Matching(row) == row.state # "PURGING" => (row.by # "NONE" <=> row.state = "EXTRACTED")

LEMMA MatchingRows ==
  ASSUME NEW row \in Artifact, Matching(row)
  PROVE  /\ Matching(Unleased(row)) /\ Matching(FencedOff(row))
         /\ \A s \in Sessions : row.state # "PURGING" => Matching(Leased(row, s))
         /\ Matching([row EXCEPT !.live = FALSE])
<1>1. Matching(Unleased(row)) /\ Matching([row EXCEPT !.live = FALSE])
  BY DEF Unleased, Artifact, Matching
<1>2. Matching(FencedOff(row))
  BY DEF FencedOff, Unleased, Artifact, Matching
<1>3. ASSUME NEW s \in Sessions, row.state # "PURGING" PROVE Matching(Leased(row, s))
  BY <1>3 DEF Leased, Artifact, Matching, Raw
<1> QED BY <1>1, <1>2, <1>3

\* No step parts a stored extraction from the state of its artifact.
LEMMA ExtractionStays ==
  ASSUME TypeOK, ExtractionMatchesState, [Next]_vars PROVE ExtractionMatchesState'
<1>0. art \in [Artifacts -> Artifact] /\ \A a \in Artifacts : art[a] \in Artifact /\ Matching(art[a])
  BY DEF TypeOK, ExtractionMatchesState, Matching
<1> SUFFICES ASSUME NEW b \in Artifacts PROVE Matching(art'[b])
  BY DEF ExtractionMatchesState, Matching
<1>1. ASSUME NEW s \in Sessions, art' = Withdrawn(s) PROVE Matching(art'[b])
  BY <1>0, <1>1, MatchingRows DEF Withdrawn
<1>2. ASSUME NEW s \in Sessions, Close(s) PROVE Matching(art'[b])
  BY <1>1, <1>2 DEF Close
<1>3. ASSUME NEW s \in Sessions, NEW n \in Late, NEW T \in SUBSET Attachments, Apply(s, n, T)
      PROVE  Matching(art'[b])
  BY <1>1, <1>3 DEF Apply
<1>4. ASSUME NEW s \in Sessions, NEW U \in SUBSET Runs, RetentionEnds(s, U)
      PROVE  Matching(art'[b])
  <2> DEFINE r == [FencedOff(art[b]) EXCEPT !.state = "RAW_READY", !.by = "NONE"]
  <2>1. Matching(r)
    BY <1>0, FencedOffRow DEF Matching, Artifact
  <2>2. art'[b] = art[b] \/ art'[b] = r
    BY <1>4 DEF RetentionEnds
  <2> QED BY <1>0, <2>1, <2>2
<1>5. ASSUME NEW a \in Artifacts, LeaseExpires(a) PROVE Matching(art'[b])
  BY <1>0, <1>5, MatchingRows DEF LeaseExpires
<1>6. ASSUME NEW a \in Artifacts, PurgeCapture(a) PROVE Matching(art'[b])
  <2>1. [Unleased(art[a]) EXCEPT !.state = "PURGING", !.gen = @ + 1].state = "PURGING"
    BY <1>0, UnleasedRow DEF Artifact
  <2> QED BY <1>0, <1>6, <2>1 DEF PurgeCapture, Matching
<1>7. ASSUME NEW p \in Runs, Admit(p) PROVE Matching(art'[b])
  <2>1. Doc(p) \in Artifacts /\ ref[Target[p]].sess \in Sessions
    BY AnalysisAssumption DEF Doc, TypeOK
  <2> QED BY <1>0, <1>7, <2>1, MatchingRows DEF Admit
<1>8. ASSUME NEW p \in Runs, Publish(p) PROVE Matching(art'[b])
  <2> DEFINE r1 == Unleased(art[Doc(p)])
             by == IF p \in sent THEN "OCR" ELSE "LOCAL"
             r2 == [r1 EXCEPT !.state = "EXTRACTED", !.by = by]
  <2>1. Doc(p) \in Artifacts  BY AnalysisAssumption DEF Doc
  <2>2. r1 \in Artifact /\ Matching(r1)  BY <1>0, <2>1, MatchingRows, UnleasedRow
  <2>3. Matching(r2)
    <3> HIDE DEF r1
    <3> QED BY <2>2 DEF Matching, Artifact
  <2>4. Extracted(p) = r2 \/ Extracted(p) = r1  BY DEF Extracted
  <2> HIDE DEF r1, r2
  <2> QED BY <1>0, <1>8, <2>1, <2>2, <2>3, <2>4 DEF Publish
<1>9. ASSUME NEW p \in Runs, Cleanup(p) PROVE Matching(art'[b])
  <2> DEFINE r1 == Unleased(art[Doc(p)])
             r2 == [r1 EXCEPT !.state = IF run[p].raw THEN "RAW_READY" ELSE @]
  <2>1. Doc(p) \in Artifacts  BY AnalysisAssumption DEF Doc
  <2>2. r1 \in Artifact /\ Matching(r1) /\ r1.state = art[Doc(p)].state
    BY <1>0, <2>1, MatchingRows, UnleasedRow DEF Unleased, Artifact
  <2>3. ASSUME HoldsLease(p) PROVE Matching(r2)
    <3>1. run[p].raw => r1.state = "ANALYZING"  BY <2>2, <2>3 DEF HoldsLease
    <3> HIDE DEF r1
    <3> QED BY <2>2, <3>1 DEF Matching, Artifact
  <2>4. art' = IF HoldsLease(p) THEN [art EXCEPT ![Doc(p)] = r2] ELSE art
    BY <1>9 DEF Cleanup, Cleaned
  <2> HIDE DEF r1, r2
  <2> QED BY <1>0, <2>1, <2>3, <2>4
<1> QED BY <1>0, <1>2, <1>3, <1>4, <1>5, <1>6, <1>7, <1>8, <1>9, ArtWriters

\* What a step does to a session that is not applied yet.
LEMMA UnappliedStays ==
  ASSUME TypeOK, [Next]_vars, NEW x \in Sessions, sess[x].state \in Unapplied
  PROVE  \/ sess'[x].state \in Unapplied
         \/ Close(x)
         \/ \E n \in Late, T \in SUBSET Attachments : Apply(x, n, T)
<1>0. sess \in [Sessions -> [state: SessStates, rev: Nat]] /\ Late \subseteq Sessions
  BY AnalysisAssumption DEF TypeOK
<1>1. ASSUME NEW s \in Sessions, Revise(s) \/ Confirm(s) \/ Review(s) PROVE sess'[x].state \in Unapplied
  BY <1>0, <1>1 DEF Revise, Confirm, Review, NextRevision, Unapplied
<1>2. ASSUME NEW s \in Sessions, Close(s), s # x PROVE sess'[x].state \in Unapplied
  BY <1>0, <1>2 DEF Close, NextRevision
<1>3. ASSUME NEW s \in Sessions, NEW n \in Late, NEW T \in SUBSET Attachments, Apply(s, n, T), s # x
      PROVE  sess'[x].state \in Unapplied
  BY <1>0, <1>3 DEF Apply, Unapplied
<1>4. ASSUME NEW s \in Sessions, NEW U \in SUBSET Runs, RetentionEnds(s, U)
      PROVE  sess'[x].state \in Unapplied
  <2>1. sess' = NextRevision(s) \/ sess' = sess  BY <1>4 DEF RetentionEnds
  <2> QED BY <1>0, <2>1 DEF NextRevision
<1>5. ASSUME NEW t \in Attachments, NEW q \in Requests, RecordConsent(t, q)
      PROVE  sess'[x].state \in Unapplied
  BY <1>0, <1>5 DEF RecordConsent, NextRevision
<1>6. ASSUME NEW p \in Runs, Publish(p) PROVE sess'[x].state \in Unapplied
  BY <1>0, <1>6 DEF Publish, NextRevision
<1> QED BY <1>1, <1>2, <1>3, <1>4, <1>5, <1>6, SessWriters

\* A step gives no artifact to a session, but an admission.
LEMMA LeasesPass ==
  ASSUME TypeOK, [Next]_vars, NEW a \in Artifacts, \A p \in Runs : ~(Admit(p) /\ Doc(p) = a)
  PROVE  art'[a].lease = None \/ art'[a].lease = art[a].lease
<1> DEFINE Passed == art'[a].lease = None \/ art'[a].lease = art[a].lease
<1> SUFFICES Passed  OBVIOUS
<1>0. art \in [Artifacts -> Artifact] /\ art[a] \in Artifact  BY DEF TypeOK
<1>1. \A row \in Artifact : Unleased(row).lease = None /\ FencedOff(row).lease = None
  BY DEF FencedOff, Unleased, Artifact
<1>2. ASSUME NEW s \in Sessions, art' = Withdrawn(s) PROVE Passed
  BY <1>0, <1>1, <1>2 DEF Withdrawn
<1>3. ASSUME NEW s \in Sessions, Close(s) PROVE Passed
  BY <1>2, <1>3 DEF Close
<1>4. ASSUME NEW s \in Sessions, NEW n \in Late, NEW T \in SUBSET Attachments, Apply(s, n, T)
      PROVE  Passed
  BY <1>2, <1>4 DEF Apply
<1>5. ASSUME NEW s \in Sessions, NEW U \in SUBSET Runs, RetentionEnds(s, U) PROVE Passed
  <2> DEFINE r == [FencedOff(art[a]) EXCEPT !.state = "RAW_READY", !.by = "NONE"]
  <2>1. r.lease = None
    BY <1>0, <1>1, FencedOffRow DEF Artifact
  <2>2. art'[a] = art[a] \/ art'[a] = r
    BY <1>5 DEF RetentionEnds
  <2> HIDE DEF r
  <2> QED BY <2>1, <2>2
<1>6. ASSUME NEW b \in Artifacts, LeaseExpires(b) PROVE Passed
  BY <1>0, <1>6 DEF LeaseExpires, Artifact
<1>7. ASSUME NEW b \in Artifacts, PurgeCapture(b) PROVE Passed
  <2>1. [Unleased(art[b]) EXCEPT !.state = "PURGING", !.gen = @ + 1].lease = None
    BY <1>0, <1>1, UnleasedRow DEF Artifact
  <2> QED BY <1>0, <1>7, <2>1 DEF PurgeCapture
<1>8. ASSUME NEW p \in Runs, Admit(p) PROVE Passed
  BY <1>0, <1>8 DEF Admit
<1>9. ASSUME NEW p \in Runs, Publish(p) PROVE Passed
  <2>1. Doc(p) \in Artifacts  BY AnalysisAssumption DEF Doc
  <2>2. Extracted(p).lease = None
    BY <1>0, <2>1, <1>1, UnleasedRow DEF Extracted, Artifact
  <2> QED BY <1>0, <1>9, <2>1, <2>2 DEF Publish
<1>10. ASSUME NEW p \in Runs, Cleanup(p) PROVE Passed
  <2> DEFINE r == [Unleased(art[Doc(p)]) EXCEPT !.state = IF run[p].raw THEN "RAW_READY" ELSE @]
  <2>1. Doc(p) \in Artifacts  BY AnalysisAssumption DEF Doc
  <2>2. r.lease = None
    BY <1>0, <2>1, <1>1, UnleasedRow DEF Artifact
  <2>3. art' = IF HoldsLease(p) THEN [art EXCEPT ![Doc(p)] = r] ELSE art
    BY <1>10 DEF Cleanup, Cleaned
  <2> HIDE DEF r
  <2> QED BY <1>0, <2>1, <2>2, <2>3
<1> QED BY <1>0, <1>3, <1>4, <1>5, <1>6, <1>7, <1>8, <1>9, <1>10, ArtWriters

\* A session takes its leases with it.
LEMMA LeasesStay ==
  ASSUME TypeOK, LeasesEndWithSessions, [Next]_vars PROVE LeasesEndWithSessions'
<1> SUFFICES ASSUME NEW a \in Artifacts, art'[a].lease # None
             PROVE  sess'[art'[a].lease].state \in Unapplied
  BY DEF LeasesEndWithSessions
<1>0. /\ art \in [Artifacts -> Artifact] /\ art[a] \in Artifact
      /\ art[a].lease \in Sessions \cup {None}
  BY DEF TypeOK, Artifact
<1>1. CASE \E p \in Runs : Admit(p) /\ Doc(p) = a
  <2>1. PICK p \in Runs : Admit(p) /\ Doc(p) = a  BY <1>1
  <2> DEFINE s == ref[Target[p]].sess
  <2>2. s \in Sessions  BY AnalysisAssumption DEF TypeOK
  <2>3. Leased(art[a], s).lease = s  BY <1>0 DEF Leased, Artifact
  <2>4. art'[a].lease = s  BY <1>0, <2>1, <2>3 DEF Admit
  <2>5. sess'[s].state = "EDITABLE"  BY <2>1 DEF Admit
  <2> QED BY <2>4, <2>5 DEF Unapplied
<1>2. CASE \A p \in Runs : ~(Admit(p) /\ Doc(p) = a)
  <2> DEFINE s == art[a].lease
  <2>1. art'[a].lease = s /\ s # None  BY <1>2, LeasesPass
  <2>2. s \in Sessions /\ sess[s].state \in Unapplied
    BY <1>0, <2>1 DEF LeasesEndWithSessions
  <2>3. FencedOff(art[a]).lease = None  BY <1>0 DEF FencedOff, Unleased, Artifact
  <2>4. art' # Withdrawn(s)  BY <2>1, <2>3 DEF Withdrawn
  <2>5. ~Close(s) /\ \A n \in Late, T \in SUBSET Attachments : ~Apply(s, n, T)
    BY <2>4 DEF Close, Apply
  <2> QED BY <2>1, <2>2, <2>5, UnappliedStays
<1> QED BY <1>1, <1>2

----------------------------------------------------------------------------
(* The drafts *)

\* A step moves no attachment to a session that was open, and takes pending
\* attachments away only from a session that it changes.
LEMMA AttachmentsStay ==
  ASSUME TypeOK, [Next]_vars, NEW t \in Attachments, NEW x \in Sessions,
         sess[x].state # "NEW", sess'[x] = sess[x], sess[x].state = "EDITABLE",
         ref'[t] = [sess |-> x, attached |-> TRUE]
  PROVE  ref[t] = ref'[t] /\ (t \in pending => t \in pending')
<1> DEFINE Stayed == ref[t] = ref'[t] /\ (t \in pending => t \in pending')
<1> SUFFICES Stayed  OBVIOUS
<1>0. /\ ref \in [Attachments -> [sess: Sessions, attached: BOOLEAN]]
      /\ ref[t] \in [sess: Sessions, attached: BOOLEAN]
      /\ sess \in [Sessions -> [state: SessStates, rev: Nat]]
      /\ sess[x].rev \in Nat
  BY DEF TypeOK
<1>1. ASSUME NEW s \in Sessions, Close(s) PROVE Stayed
  <2>1. s # x  BY <1>0, <1>1 DEF Close, NextRevision
  <2>2. ref'[t] = IF ref[t].sess = s THEN [ref[t] EXCEPT !.attached = FALSE] ELSE ref[t]
    BY <1>1 DEF Close
  <2>3. ref[t].sess # s  BY <1>0, <2>1, <2>2
  <2>4. t \in pending => t \in pending'  BY <1>1, <2>3 DEF Close
  <2> QED BY <2>2, <2>3, <2>4
<1>2. ASSUME NEW s \in Sessions, NEW n \in Late, NEW T \in SUBSET Attachments, Apply(s, n, T)
      PROVE  Stayed
  <2>1. t \notin T
    <3>1. t \in T => ref'[t].sess = n  BY <1>0, <1>2 DEF Apply
    <3>2. T # {} => sess[n].state = "NEW"  BY <1>2 DEF Apply
    <3> QED BY <3>1, <3>2
  <2>2. ref'[t] = ref[t] \/ ref'[t] = [ref[t] EXCEPT !.attached = FALSE]
    BY <1>2, <2>1 DEF Apply
  <2>3. pending' = pending  BY <1>2 DEF Apply
  <2> QED BY <1>0, <2>2, <2>3
<1>3. ASSUME NEW p \in Runs, Publish(p) PROVE Stayed
  <2>1. run[p].sess \in Sessions /\ ref[Target[p]].sess = run[p].sess
    BY <1>3, RecheckedSession DEF Publish
  <2>2. run[p].sess # x  BY <1>0, <1>3, <2>1 DEF Publish, NextRevision
  <2>3. ref' = ref /\ pending' = pending \ {Target[p]}  BY <1>3 DEF Publish
  <2>4. t # Target[p]  BY <2>1, <2>2, <2>3
  <2> QED BY <2>3, <2>4
<1>4. CASE ref' = ref /\ pending' = pending
  BY <1>4
<1>5. \/ ref' = ref /\ pending' = pending
      \/ \E s \in Sessions :
           \/ Close(s)
           \/ \E n \in Late, T \in SUBSET Attachments : Apply(s, n, T)
      \/ \E p \in Runs : Publish(p)
  BY DEF Next, Session, Step, vars, rows, Revise, Confirm, Review, RetentionEnds, RecordConsent,
         LeaseExpires, PurgeCapture, Replay, Admit, Enter, Parse, Attempt, BeforeGeneration,
         Dispatch, Answer, Fail, Reconcile, Cleanup, TransactionFails, Crash
<1> QED BY <1>1, <1>2, <1>3, <1>4, <1>5

\* A run that can publish after a step could before it, or was just admitted, and
\* its attachment is as pending as it was.
LEMMA PublishableStays ==
  ASSUME TypeOK, NEW q \in Runs, Admitted(q), ~Admit(q), [Next]_vars, Publishable(q)'
  PROVE  Publishable(q) /\ (Target[q] \in pending => Target[q] \in pending')
<1> DEFINE s == run[q].sess
<1>1. Active(q) /\ run'[q].sess = s /\ run'[q].rev = run[q].rev
  BY Captured DEF Publishable
<1>2. s \in Sessions /\ sess[s].state # "NEW" /\ run[q].rev <= sess[s].rev
  BY <1>1 DEF Admitted
<1>3. /\ sess'[s].state = "EDITABLE" /\ sess'[s].rev = run[q].rev
      /\ ref'[Target[q]] = [sess |-> s, attached |-> TRUE]
  BY <1>1 DEF Publishable
<1>4. sess'[s] = sess[s]
  <2>1. run[q].rev \in Nat  BY DEF TypeOK, Run
  <2> QED BY <1>2, <1>3, <2>1, RevisionsGrow
<1>5. Target[q] \in Attachments  BY AnalysisAssumption
<1>6. ref[Target[q]] = ref'[Target[q]] /\ (Target[q] \in pending => Target[q] \in pending')
  <2> HIDE DEF s
  <2> QED BY <1>2, <1>3, <1>4, <1>5, AttachmentsStay
<1> QED BY <1>1, <1>3, <1>4, <1>6 DEF Publishable

\* The run that publishes.
LEMMA PublisherPublishable ==
  ASSUME NEW p \in Runs, Publish(p) PROVE Publishable(p)
BY DEF Publish, Publishable, Recheck, Active, Working

\* The part of the invariant about the lines of an attachment.
LEMMA DraftsStay ==
  ASSUME TypeOK, \A p \in Runs : Admitted(p), Drafts, [Next]_vars PROVE Drafts'
<1>0. run \in [Runs -> Run]  BY DEF TypeOK
<1>1. ASSUME NEW q \in Runs, Publishable(q)' PROVE Target[q] \in pending'
  <2>1. CASE Admit(q)
    BY <2>1 DEF Admit, IsPending
  <2>2. CASE ~Admit(q)
    BY <1>1, <2>2, PublishableStays DEF Drafts
  <2> QED BY <2>1, <2>2
<1>2. ASSUME NEW q \in Runs, run'[q].pc = "PUBLISHED" PROVE run[q].pc = "PUBLISHED" \/ Publish(q)
  <2>1. ASSUME NEW p \in Runs, Goes(p, "DONE") \/ Goes(p, "CLEANUP") \/ Goes(p, "PARSED")
                \/ Goes(p, "SCANNED") \/ Goes(p, "ATTEMPTED") \/ Goes(p, "CLEARED") \/ Goes(p, "SENT")
        PROVE  run[q].pc = "PUBLISHED"
    BY <1>0, <1>2, <2>1 DEF Goes, Run
  <2>2. ASSUME NEW p \in Runs, Replay(p) \/ Parse(p) \/ Attempt(p) \/ BeforeGeneration(p) \/ Dispatch(p)
                               \/ Answer(p) \/ Reconcile(p)
        PROVE  run[q].pc = "PUBLISHED"
    BY <2>1, <2>2 DEF Replay, Parse, Attempt, BeforeGeneration, Dispatch, Answer, Reconcile
  <2>3. ASSUME NEW p \in Runs, Admit(p) PROVE run[q].pc = "PUBLISHED"
    BY <1>0, <1>2, <2>3 DEF Admit, IdleRun
  <2>4. ASSUME NEW p \in Runs, Enter(p) PROVE run[q].pc = "PUBLISHED"
    BY <1>0, <1>2, <2>4 DEF Enter, Run
  <2>5. ASSUME NEW p \in Runs, Publish(p), p # q PROVE run[q].pc = "PUBLISHED"
    BY <1>0, <1>2, <2>5 DEF Publish
  <2>6. ASSUME NEW p \in Runs, Fail(p) PROVE run[q].pc = "PUBLISHED"
    <3>1. CASE Attempted(p)
      <4>1. PICK v \in Verdicts(p) :
              run' = [run EXCEPT ![p].pc = "FAILING", ![p].verdict = v.verdict,
                                 ![p].accounted = v.accounted]
        BY <2>6, <3>1 DEF Fail
      <4> QED BY <1>0, <1>2, <4>1 DEF Run
    <3>2. CASE ~Attempted(p)
      BY <2>1, <2>6, <3>2 DEF Fail
    <3> QED BY <3>1, <3>2
  <2>7. ASSUME NEW p \in Runs, Cleanup(p) \/ TransactionFails(p) PROVE run[q].pc = "PUBLISHED"
    <3>1. CASE run' = [run EXCEPT ![p] = Exited(p)]
      BY <1>0, <1>2, <3>1, ExitedKeeps
    <3>2. CASE Goes(p, "CLEANUP")
      BY <2>1, <3>2
    <3> QED BY <2>7, <3>1, <3>2 DEF Cleanup, TransactionFails
  <2>8. CASE Crash
    BY <1>0, <1>2, <2>8, ExitedKeeps DEF Crash
  <2>9. CASE run' = run
    BY <1>2, <2>9
  <2> QED BY <2>2, <2>3, <2>4, <2>5, <2>6, <2>7, <2>8, <2>9, RunWriters DEF Step
<1>3. pending' \subseteq pending
  BY DEF Next, Session, Step, vars, rows, Revise, Confirm, Review, Close, Apply, RetentionEnds,
         RecordConsent, LeaseExpires, PurgeCapture, Replay, Admit, Enter, Parse, Attempt,
         BeforeGeneration, Dispatch, Answer, Publish, Fail, Reconcile, Cleanup, TransactionFails,
         Crash
<1>4. ASSUME NEW q \in Runs, run'[q].pc = "PUBLISHED" PROVE Target[q] \notin pending'
  <2>1. Publish(q) => Target[q] \notin pending'  BY DEF Publish
  <2> QED BY <1>2, <1>3, <1>4, <2>1 DEF Drafts
<1>5. ASSUME NEW p \in Runs, Publish(p) PROVE Target[p] \in pending
  BY <1>5, PublisherPublishable DEF Drafts
<1>6. ASSUME NEW p \in Runs, NEW q \in Runs,
             run'[p].pc = "PUBLISHED", run'[q].pc = "PUBLISHED", Target[p] = Target[q]
      PROVE  p = q
  <2>1. CASE run[p].pc = "PUBLISHED" /\ run[q].pc = "PUBLISHED"
    BY <1>6, <2>1 DEF Drafts, LinesAppearOnce
  <2>2. CASE Publish(p) /\ Publish(q)
    <3>1. run[q].pc # "PUBLISHED"  BY <2>2 DEF Publish
    <3>2. p # q => run'[q] = run[q]  BY <1>0, <2>2 DEF Publish
    <3> QED BY <1>6, <3>1, <3>2
  <2>3. CASE Publish(p) /\ run[q].pc = "PUBLISHED"
    BY <1>5, <1>6, <2>3 DEF Drafts
  <2>4. CASE Publish(q) /\ run[p].pc = "PUBLISHED"
    BY <1>5, <1>6, <2>4 DEF Drafts
  <2> QED BY <1>2, <1>6, <2>1, <2>2, <2>3, <2>4
<1> QED BY <1>1, <1>4, <1>6 DEF Drafts, LinesAppearOnce

----------------------------------------------------------------------------
(* Nothing abandoned *)

\* A row whose lease is live after a step is the row it was, unless a run was
\* admitted to it; a run that publishes or cleans up leaves no live lease behind.
LEMMA LiveRowsStay ==
  ASSUME TypeOK, [Next]_vars, NEW a \in Artifacts, \A p \in Runs : ~(Admit(p) /\ Doc(p) = a),
         art'[a].live
  PROVE  /\ art'[a] = art[a]
         /\ \A p \in Runs : Doc(p) = a /\ HoldsLease(p) => ~Publish(p) /\ ~Cleanup(p)
<1> DEFINE Stayed == /\ art'[a] = art[a]
                     /\ \A p \in Runs : Doc(p) = a /\ HoldsLease(p) => ~Publish(p) /\ ~Cleanup(p)
<1>0. art \in [Artifacts -> Artifact] /\ art[a] \in Artifact
  BY DEF TypeOK
<1>1. \A row \in Artifact : Unleased(row).live = FALSE /\ FencedOff(row).live = FALSE
  BY DEF FencedOff, Unleased, Artifact
<1>2. ASSUME NEW p \in Runs, Publish(p), Doc(p) = a PROVE FALSE
  <2>1. Extracted(p).live = FALSE
    BY <1>0, <1>1, <1>2, UnleasedRow DEF Extracted, Artifact
  <2> QED BY <1>0, <1>2, <2>1 DEF Publish
<1>3. ASSUME NEW p \in Runs, Cleanup(p), Doc(p) = a, HoldsLease(p) PROVE FALSE
  <2> DEFINE r == [Unleased(art[a]) EXCEPT !.state = IF run[p].raw THEN "RAW_READY" ELSE @]
  <2>1. r.live = FALSE
    BY <1>0, <1>1, UnleasedRow DEF Artifact
  <2>2. art' = [art EXCEPT ![a] = r]
    BY <1>3 DEF Cleanup, Cleaned
  <2> HIDE DEF r
  <2> QED BY <1>0, <2>1, <2>2
<1>4. art'[a] = art[a]
  <2>1. ASSUME NEW s \in Sessions, art' = Withdrawn(s) PROVE art'[a] = art[a]
    BY <1>0, <1>1, <2>1 DEF Withdrawn
  <2>2. ASSUME NEW s \in Sessions, Close(s) PROVE art'[a] = art[a]
    BY <2>1, <2>2 DEF Close
  <2>3. ASSUME NEW s \in Sessions, NEW n \in Late, NEW T \in SUBSET Attachments, Apply(s, n, T)
        PROVE  art'[a] = art[a]
    BY <2>1, <2>3 DEF Apply
  <2>4. ASSUME NEW s \in Sessions, NEW U \in SUBSET Runs, RetentionEnds(s, U)
        PROVE  art'[a] = art[a]
    <3> DEFINE r == [FencedOff(art[a]) EXCEPT !.state = "RAW_READY", !.by = "NONE"]
    <3>1. r.live = FALSE
      BY <1>0, <1>1, FencedOffRow DEF Artifact
    <3>2. art'[a] = art[a] \/ art'[a] = r
      BY <2>4 DEF RetentionEnds
    <3> HIDE DEF r
    <3> QED BY <3>1, <3>2
  <2>5. ASSUME NEW b \in Artifacts, LeaseExpires(b) PROVE art'[a] = art[a]
    BY <1>0, <2>5 DEF LeaseExpires, Artifact
  <2>6. ASSUME NEW b \in Artifacts, PurgeCapture(b) PROVE art'[a] = art[a]
    <3>1. [Unleased(art[b]) EXCEPT !.state = "PURGING", !.gen = @ + 1].live = FALSE
      BY <1>0, <1>1, UnleasedRow DEF Artifact
    <3> QED BY <1>0, <2>6, <3>1 DEF PurgeCapture
  <2>7. ASSUME NEW p \in Runs, Admit(p) PROVE art'[a] = art[a]
    BY <1>0, <2>7 DEF Admit
  <2>8. ASSUME NEW p \in Runs, Publish(p) PROVE art'[a] = art[a]
    BY <1>0, <1>2, <2>8 DEF Publish
  <2>9. ASSUME NEW p \in Runs, Cleanup(p) PROVE art'[a] = art[a]
    BY <1>0, <1>3, <2>9 DEF Cleanup, Cleaned
  <2> QED BY <1>0, <2>2, <2>3, <2>4, <2>5, <2>6, <2>7, <2>8, <2>9, ArtWriters
<1> QED BY <1>2, <1>3, <1>4

\* An analysis under way ends by publishing, by its clean-up, or with a mishap.
LEMMA ActiveStays ==
  ASSUME TypeOK, [Next]_vars, NEW q \in Runs, Active(q), ~Publish(q), ~Cleanup(q),
         mishaps = 0, mishaps' = 0
  PROVE  Active(q)'
<1> DEFINE Stayed == run'[q].pc \in Working \cup Failing
<1> SUFFICES Stayed  BY DEF Active
<1>0. run \in [Runs -> Run] /\ run[q].pc \in Working \cup Failing
  BY DEF TypeOK, Active
<1>1. ASSUME NEW p \in Runs, NEW x \in Working \cup Failing, Goes(p, x) PROVE Stayed
  BY <1>0, <1>1 DEF Goes, Run
<1>2. ASSUME NEW p \in Runs, Parse(p) \/ Attempt(p) \/ BeforeGeneration(p) \/ Dispatch(p)
                             \/ Answer(p) \/ Reconcile(p)
      PROVE  Stayed
  BY <1>1, <1>2 DEF Parse, Attempt, BeforeGeneration, Dispatch, Answer, Reconcile, Working, Failing
<1>3. ASSUME NEW p \in Runs, Replay(p) PROVE Stayed
  BY <1>0, <1>3 DEF Replay, Goes, Working, Failing
<1>4. ASSUME NEW p \in Runs, Admit(p) PROVE Stayed
  BY <1>0, <1>4 DEF Admit, IdleRun, Working
<1>5. ASSUME NEW p \in Runs, Enter(p) PROVE Stayed
  BY <1>0, <1>5 DEF Enter, Run, Working
<1>6. ASSUME NEW p \in Runs, Fail(p) PROVE Stayed
  <2>1. CASE Attempted(p)
    <3>1. PICK v \in Verdicts(p) :
            run' = [run EXCEPT ![p].pc = "FAILING", ![p].verdict = v.verdict,
                               ![p].accounted = v.accounted]
      BY <1>6, <2>1 DEF Fail
    <3> QED BY <1>0, <3>1 DEF Run, Failing
  <2>2. CASE ~Attempted(p)
    BY <1>1, <1>6, <2>2 DEF Fail, Failing
  <2> QED BY <2>1, <2>2
<1>7. ASSUME NEW p \in Runs, Publish(p) \/ Cleanup(p) PROVE Stayed
  <2>1. p # q  BY <1>7
  <2> QED BY <1>0, <1>7, <2>1 DEF Publish, Cleanup
<1>8. ASSUME NEW p \in Runs PROVE ~TransactionFails(p) /\ ~Crash
  BY DEF TransactionFails, Crash
<1>9. CASE run' = run
  BY <1>0, <1>9
<1> QED BY <1>2, <1>3, <1>4, <1>5, <1>6, <1>7, <1>8, <1>9, RunWriters DEF Step

\* The run that has just been admitted holds its lease.
LEMMA AdmittedHolds ==
  ASSUME TypeOK, NEW p \in Runs, Admit(p)
  PROVE  Active(p)' /\ HoldsLease(p)'
<1> DEFINE a == Doc(p)
           s == ref[Target[p]].sess
<1>1. a \in Artifacts /\ s \in Sessions /\ run \in [Runs -> Run] /\ art \in [Artifacts -> Artifact]
  BY AnalysisAssumption DEF Doc, TypeOK
<1>2. art[a] \in Artifact /\ art[a].state \in ArtStates /\ art[a].state # "PURGING"
  BY <1>1 DEF Admit, Artifact
<1>3. /\ art'[a] = Leased(art[a], s)
      /\ run'[p].pc = "LEASED" /\ run'[p].sess = s /\ run'[p].gen = art'[a].gen
      /\ run'[p].raw = (art[a].state \in Raw)
  BY <1>1 DEF Admit, IdleRun
<1>4. /\ Leased(art[a], s).lease = s
      /\ Leased(art[a], s).state = IF art[a].state \in Raw THEN "ANALYZING" ELSE art[a].state
  BY <1>2 DEF Leased, Artifact
<1>5. art[a].state \notin Raw => art[a].state = "EXTRACTED"
  BY <1>2 DEF ArtStates, Raw
<1>6. Doc(p)' = a  BY DEF Doc
<1> HIDE DEF a, s
<1> QED BY <1>3, <1>4, <1>5, <1>6 DEF Active, HoldsLease, Working

\* What Orderly says of one run.
SettledRun(p) ==
  run[p].pc \in {"CLEANUP", "PUBLISHED", "DONE"} /\ Reconcilable(p) =>
    usage[p].outcome # "ATTEMPTED"

\* Without a mishap the steps of an analysis settle its attempt.
LEMMA OwnAttemptSettled ==
  ASSUME TypeOK, NEW p \in Runs, Billed(p), LedgerIsTrue, SettledRun(p),
         Replay(p) \/ Admit(p) \/ Step(p)
  PROVE  SettledRun(p)'
<1>0. /\ run \in [Runs -> Run] /\ usage \in [Runs -> Usage] /\ run[p] \in Run /\ usage[p] \in Usage
  BY DEF TypeOK
<1> USE DEF SettledRun, Reconcilable
<1>1. CASE Replay(p)
  BY <1>0, <1>1 DEF Replay, Goes, rows, Run, Billed
<1>2. CASE Admit(p)
  BY <1>0, <1>2 DEF Admit, IdleRun
<1>3. CASE Enter(p)
  BY <1>0, <1>3 DEF Enter, Run
<1>4. ASSUME NEW x, x \notin {"CLEANUP", "PUBLISHED", "DONE"}, Goes(p, x) PROVE SettledRun(p)'
  BY <1>0, <1>4 DEF Goes, Run
<1>5. CASE Parse(p) \/ Attempt(p) \/ BeforeGeneration(p) \/ Dispatch(p) \/ Answer(p)
  BY <1>4, <1>5 DEF Parse, Attempt, BeforeGeneration, Dispatch, Answer
<1>6. CASE Publish(p)
  <2>1. p \notin sent => usage[p].outcome = "NONE" \/ usage[p].outcome # "ATTEMPTED"
    BY <1>6 DEF Billed, Publish
  <2> QED BY <1>0, <1>6, <2>1 DEF Publish, Usage, Billed
<1>7. CASE Fail(p)
  <2>1. CASE Attempted(p)
    <3>1. PICK v \in Verdicts(p) :
            run' = [run EXCEPT ![p].pc = "FAILING", ![p].verdict = v.verdict,
                               ![p].accounted = v.accounted]
      BY <1>7, <2>1 DEF Fail
    <3> QED BY <1>0, <3>1 DEF Run
  <2>2. CASE ~Attempted(p)
    BY <1>0, <1>7, <2>2 DEF Fail, Goes, Attempted, Run, rows
  <2> QED BY <2>1, <2>2
<1>8. CASE Reconcile(p)
  <2>1. run[p].verdict \in Failures \cup {"NONE"}  BY <1>0 DEF Run
  <2>2. run'[p].verdict = run[p].verdict /\ run'[p].accounted = run[p].accounted
    BY <1>0, <1>8 DEF Reconcile, Goes, Run
  <2>3. Reconcilable(p) => usage'[p].outcome = run[p].verdict
    BY <1>0, <1>8 DEF Reconcile, Usage
  <2> QED BY <2>1, <2>2, <2>3 DEF Failures
<1>9. CASE Cleanup(p)
  BY <1>0, <1>9, ExitedKeeps DEF Cleanup
<1> QED BY <1>1, <1>2, <1>3, <1>5, <1>6, <1>7, <1>8, <1>9 DEF Step

\* The part of the invariant about what is left when nothing goes wrong.
LEMMA OrderStays ==
  ASSUME IInv, [Next]_vars, mishaps' = 0 PROVE Orderly'
<1>0. TypeOK /\ mishaps = 0 /\ Orderly
  <2>1. mishaps' = mishaps \/ mishaps' = mishaps + 1
    BY DEF Next, Session, Step, vars, rows, Revise, Confirm, Review, Close, Apply, RetentionEnds,
           RecordConsent, LeaseExpires, PurgeCapture, Replay, Admit, Enter, Parse, Attempt,
           BeforeGeneration, Dispatch, Answer, Publish, Fail, Reconcile, Cleanup,
           TransactionFails, Crash
  <2>2. TypeOK /\ mishaps \in Nat  BY DEF IInv, TypeOK
  <2>3. mishaps = 0  BY <2>1, <2>2
  <2> QED BY <2>2, <2>3 DEF IInv
<1>1. ASSUME NEW a \in Artifacts, art'[a].live
      PROVE  \E p \in Runs : Active(p)' /\ Doc(p) = a /\ HoldsLease(p)'
  <2>1. CASE \E p \in Runs : Admit(p) /\ Doc(p) = a
    BY <1>0, <2>1, AdmittedHolds
  <2>2. CASE \A p \in Runs : ~(Admit(p) /\ Doc(p) = a)
    <3>1. /\ art'[a] = art[a]
          /\ \A p \in Runs : Doc(p) = a /\ HoldsLease(p) => ~Publish(p) /\ ~Cleanup(p)
      BY <1>0, <1>1, <2>2, LiveRowsStay
    <3>2. PICK p \in Runs : Active(p) /\ Doc(p) = a /\ HoldsLease(p)
      BY <1>0, <1>1, <3>1 DEF Orderly
    <3>3. Active(p)'  BY <1>0, <3>1, <3>2, ActiveStays
    <3>4. /\ run'[p].sess = run[p].sess /\ run'[p].gen = run[p].gen /\ run'[p].raw = run[p].raw
      BY <1>0, <2>2, <3>2, Captured
    <3>5. Doc(p)' = a  BY <3>2 DEF Doc
    <3>6. HoldsLease(p)'  BY <3>1, <3>2, <3>4, <3>5 DEF HoldsLease
    <3> QED BY <3>2, <3>3, <3>6
  <2> QED BY <2>1, <2>2
<1>2. ASSUME NEW q \in Runs PROVE SettledRun(q)'
  <2>0. \A p \in Runs : SettledRun(p) /\ Billed(p)
    BY <1>0 DEF Orderly, SettledRun, IInv
  <2>1. ASSUME run'[q] = run[q],
               \/ usage'[q].outcome = usage[q].outcome
               \/ usage[q].outcome = "SUCCEEDED" /\ usage'[q].outcome = "PURGED"
        PROVE  SettledRun(q)'
    BY <2>0, <2>1 DEF SettledRun, Reconcilable
  <2>2. ASSUME NEW p \in Runs, Replay(p) \/ Admit(p) \/ Step(p) PROVE SettledRun(q)'
    <3>1. CASE p = q
      BY <1>0, <2>0, <2>2, <3>1, OwnAttemptSettled DEF IInv
    <3>2. CASE p # q
      BY <1>0, <2>1, <2>2, <3>2, OwnRowOnly
    <3> QED BY <3>1, <3>2
  <2>3. ASSUME NEW s \in Sessions, Session(s) PROVE SettledRun(q)'
    <3>1. CASE Revise(s) \/ Confirm(s) \/ Review(s)
      BY <2>1, <3>1 DEF Revise, Confirm, Review
    <3>2. CASE \/ Close(s)
               \/ \E n \in Late, T \in SUBSET Attachments : Apply(s, n, T)
               \/ \E U \in SUBSET Runs : RetentionEnds(s, U)
      BY <1>0, <2>1, <3>2, SessionsKeepOutcomes
    <3> QED BY <2>3, <3>1, <3>2 DEF Session
  <2>4. ~Crash /\ \A p \in Runs : ~TransactionFails(p)
    BY <1>0 DEF Crash, TransactionFails
  <2>5. CASE run' = run /\ usage' = usage
    BY <2>1, <2>5
  <2>6. \/ run' = run /\ usage' = usage
        \/ \E s \in Sessions : Session(s)
        \/ \E p \in Runs : Replay(p) \/ Admit(p) \/ Step(p)
    BY <2>4 DEF Next, vars, rows, RecordConsent, LeaseExpires, PurgeCapture
  <2> QED BY <2>2, <2>3, <2>5, <2>6
<1>3. \A p \in Runs : Doc(p)' = Doc(p)  BY DEF Doc
<1> QED BY <1>1, <1>2, <1>3 DEF Orderly, SettledRun

----------------------------------------------------------------------------
(* The theorems *)

\* The rows as the database starts satisfy the invariant.
LEMMA Initially == Init => IInv
<1> SUFFICES ASSUME Init PROVE IInv
  OBVIOUS
<1>0. /\ \A p \in Runs : run[p] = IdleRun /\ usage[p] = NoUsage
      /\ sent = {} /\ mishaps = 0
  BY DEF Init
<1>1. TypeOK
  <2>1. sess \in [Sessions -> [state: SessStates, rev: Nat]]
    BY DEF Init, SessStates, Unapplied
  <2>2. ref \in [Attachments -> [sess: Sessions, attached: BOOLEAN]] /\ pending \subseteq Attachments
    BY AnalysisAssumption DEF Init
  <2>3. art \in [Artifacts -> Artifact]
    BY DEF Init, Artifact, ArtStates
  <2>4. consent \in [Attachments -> Consent]
    BY DEF Init, Consent, NoConsent
  <2>5. usage \in [Runs -> Usage]
    BY DEF Init, Usage, NoUsage, Outcomes
  <2>6. run \in [Runs -> Run]
    BY DEF Init, Run, IdleRun, RunStates
  <2> QED BY <1>0, <2>1, <2>2, <2>3, <2>4, <2>5, <2>6 DEF TypeOK
<1>2. \A p \in Runs : /\ run[p].pc = "IDLE" /\ run[p].gen = 0
                      /\ usage[p].outcome = "NONE" /\ ~Active(p)
  BY <1>0 DEF IdleRun, NoUsage, Active, Working, Failing
<1>3. \A a \in Artifacts : /\ art[a].state = "RAW_READY" /\ art[a].by = "NONE" /\ art[a].gen = 0
                           /\ art[a].lease = None /\ art[a].live = FALSE
  BY DEF Init
<1>4. \A p \in Runs : Doc(p) \in Artifacts
  BY AnalysisAssumption DEF Doc
<1>5. \A p \in Runs : Admitted(p) /\ Billed(p)
  BY <1>0, <1>2 DEF Admitted, Billed
<1>6. Fences /\ Attempts
  BY <1>2, <1>3, <1>4 DEF Fences, Attempts
<1>7. Drafts
  BY <1>2 DEF Drafts, LinesAppearOnce, Publishable
<1>8. ExtractionMatchesState /\ LeasesEndWithSessions
  BY <1>3 DEF ExtractionMatchesState, LeasesEndWithSessions
<1>9. LedgerIsTrue
  BY <1>0, <1>2 DEF LedgerIsTrue
<1>10. Orderly
  BY <1>2, <1>3 DEF Orderly
<1> QED BY <1>1, <1>5, <1>6, <1>7, <1>8, <1>9, <1>10 DEF IInv

\* Every step keeps the invariant.
LEMMA Inductive == IInv /\ [Next]_vars => IInv'
<1> SUFFICES ASSUME IInv, [Next]_vars PROVE IInv'
  OBVIOUS
<1>1. TypeOK'  BY TypesStay DEF IInv
<1>2. \A p \in Runs : Admitted(p)'  BY AdmittedStays DEF IInv
<1>3. (\A p \in Runs : Billed(p)') /\ LedgerIsTrue'  BY RecordsStay DEF IInv
<1>4. Fences'  BY FencesStay DEF IInv
<1>5. Attempts'  BY AttemptsStay DEF IInv
<1>6. Drafts'  BY DraftsStay DEF IInv
<1>7. ExtractionMatchesState' /\ LeasesEndWithSessions'
  BY ExtractionStays, LeasesStay DEF IInv
<1>8. mishaps' = 0 => Orderly'  BY OrderStays
<1> QED BY <1>1, <1>2, <1>3, <1>4, <1>5, <1>6, <1>7, <1>8 DEF IInv

LEMMA Always == Spec => []IInv
BY Initially, Inductive, PTL DEF Spec

\* Two runs that hold a lease on the same document were given the same generation.
LEMMA OnlyOnceHolds == IInv => OnlyOnce
<1> SUFFICES ASSUME IInv PROVE OnlyOnce
  OBVIOUS
<1>1. LeaseIsExclusive
  BY DEF LeaseIsExclusive, IInv, Admitted, Fences, HoldsLease
<1>2. OneCallPerAttachment
  <2>1. \A p \in sent : p \in Runs /\ usage[p].outcome # "NONE"
    BY DEF IInv, TypeOK, Billed
  <2> QED BY <2>1 DEF OneCallPerAttachment, IInv, Attempts
<1>3. LinesAppearOnce
  BY DEF IInv, Drafts
<1> QED BY <1>1, <1>2, <1>3 DEF OnlyOnce

\* A run that is over, or never started, has nothing to settle.
LEMMA NothingIsLeftHolds == IInv => NothingIsLeftBehind
<1> SUFFICES ASSUME IInv PROVE NothingIsLeftBehind
  OBVIOUS
<1>1. ASSUME mishaps = 0, NEW p \in Runs, ~Active(p), Reconcilable(p)
      PROVE  usage[p].outcome # "ATTEMPTED"
  <2>1. run[p].pc \in {"IDLE", "CLEANUP", "PUBLISHED", "DONE"}
    <3>1. run[p].pc \in RunStates  BY DEF IInv, TypeOK, Run
    <3> QED BY <1>1, <3>1 DEF RunStates, Active
  <2>2. Billed(p) /\ Orderly  BY <1>1 DEF IInv
  <2> QED BY <1>1, <2>1, <2>2 DEF Billed, Orderly
<1>2. mishaps = 0 =>
        \A a \in Artifacts : art[a].live => \E p \in Runs : Active(p) /\ Doc(p) = a /\ HoldsLease(p)
  BY DEF IInv, Orderly
<1>3. NothingIsAbandoned
  BY <1>1, <1>2 DEF NothingIsAbandoned
<1> QED BY <1>3 DEF NothingIsLeftBehind, IInv

\* However analyses, edits, closings, expiries, purges and crashes interleave, one
\* analysis at a time may write to a document, a document leaves the process once
\* per attachment, and its lines enter drafts once.
THEOREM AnalysesDoNotCollide == Spec => []OnlyOnce
BY Always, OnlyOnceHolds, PTL

\* The rows of an analysis say what happened: an extraction is where the artifact
\* says there is one, and the usage row admits what was sent and what came back.
THEOREM RowsTellTheTruth == Spec => []ResultsAreTrue
<1>1. IInv => ResultsAreTrue  BY DEF IInv, ResultsAreTrue
<1> QED BY <1>1, Always, PTL

\* A session that ends takes its leases with it, and an analysis that ends without
\* a mishap leaves neither a lease nor an unsettled attempt behind.
THEOREM AnalysesCleanUp == Spec => []NothingIsLeftBehind
BY Always, NothingIsLeftHolds, PTL
=============================================================================
