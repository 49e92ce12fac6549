----------------------- MODULE ImportSessionWorkflow -----------------------
(***************************************************************************)
(* From the lines read in a document to booked expenses: the person edits  *)
(* a draft, prepares a proposal, asks for a challenge, confirms it under a *)
(* financial request id and executes it.                                   *)
(*                                                                         *)
(* Meanwhile other sessions book lines of the same document, expenses are  *)
(* registered and deleted elsewhere, the login is revoked, the draft       *)
(* expires, and OCR content reaches the end of its retention.  Clients     *)
(* repeat every request, with any nonce they were ever given.              *)
(*                                                                         *)
(* One owner and one card; a line has one observation, of the same name;   *)
(* each transaction is one action.  A request that changes nothing (a      *)
(* refusal, a replay) is not an action.                                    *)
(***************************************************************************)
EXTENDS Naturals, FiniteSets

CONSTANTS
  Opened,           \* sessions that a person opens
  Continuations,    \* ids left for sessions that an execution opens
  Documents,        \* artifact ids
  Observations,     \* import_observations ids
  DocOf,            \* DocOf[o]: the document in which o was read
  Openings,         \* which documents each opened session may hold, as functions of it
  Scanned,          \* observations that the OCR provider read
  Purchases,        \* purchases made with the card
  PurchaseOf,       \* PurchaseOf[o]: the purchase that o tells of
  Installments,     \* purchases paid in more than one installment
  External,         \* expenses that something other than a session registers
  ExternalPurchase, \* ExternalPurchase[e]: the purchase of e
  ExternalKey,      \* ExternalKey[e]: "NONE", "NATURAL" or "STRONG" identity keys
  FinIds,           \* financial request ids
  Nonces,           \* random nonces
  None,             \* SQL NULL
  MaxRev,           \* IMPORT_SESSION_PRIMITIVES.maxRevision
  MaxVersion        \* bound on the person's session version

Sessions == Opened \cup Continuations
Created  == Sessions \X Observations  \* <<s, o>>: what s creates for line o
Expenses == Created \cup External

ASSUME WorkflowAssumption ==
  /\ DocOf \in [Observations -> Documents]
  /\ Openings \subseteq [Opened -> SUBSET Documents]
  /\ Opened \cap Continuations = {}
  /\ Scanned \subseteq Observations
  /\ PurchaseOf \in [Observations -> Purchases]
  /\ Installments \subseteq Purchases
  /\ ExternalPurchase \in [External -> Purchases]
  /\ ExternalKey \in [External -> {"NONE", "NATURAL", "STRONG"}]
  /\ External \cap Created = {}
  /\ None \notin Sessions \cup Expenses \cup FinIds \cup Nonces
  /\ MaxRev \in Nat \ {0}
  /\ MaxVersion \in Nat

VARIABLES
  sess,     \* the session rows
  expense,  \* the expense rows: "ABSENT", "LIVE" or "DELETED"
  claim,    \* canonicalExpenseId of the observation rows
  gone,     \* observation rows that have been deleted
  issued,   \* challenges handed out, with the page the person saw
  version,  \* the person's session version
  usage,    \* the session of the OCR usage row of a scanned observation
  ocr,      \* "HELD", "DUE" (past its 7 days) or "PURGED" OCR content
  page      \* expired sessions that the reaper's cycle has still to close

world == <<expense, claim, gone>>
retention == <<usage, ocr, page>>
vars == <<sess, world, issued, version, retention>>

----------------------------------------------------------------------------
(* Rows *)

Editing == {"DRAFT", "NEEDS_INPUT", "READY", "REVIEW_REQUIRED"}
Active  == Editing \cup {"CONFIRMED"}
\* CLOSED is CANCELLED or EXPIRED; NONE is no row yet.
States  == Active \cup {"NONE", "APPLIED", "CLOSED"}

\* The decision of a line; OPEN is UNRESOLVED, ANYWAY is CREATE with
\* acceptNaturalDuplicate, KEEP is KEEP_EXISTING of one expense.
Decisions == [do: {"OPEN", "CREATE", "ANYWAY"}, of: {None}]
               \cup [do: {"KEEP"}, of: Expenses]
Undecided == [o \in Observations |-> [do |-> "OPEN", of |-> None]]
Creates   == {"CREATE", "ANYWAY"}

\* seen is preflightHash: everything the preparation found about the lines.
Blank == [state |-> "NONE", rev |-> 0, scope |-> {}, dec |-> Undecided,
          sel |-> {}, asked |-> {}, docs |-> {}, late |-> FALSE,
          proposal |-> None, seen |-> None, challenge |-> None,
          req |-> None, crev |-> None, cver |-> None, receipt |-> None]

Held(doc) == {o \in Observations : DocOf[o] = doc}

Open(docs) ==
  [Blank EXCEPT !.state = "DRAFT", !.rev = 1, !.scope = UNION {Held(doc) : doc \in docs},
                !.docs = docs]

\* Past expiresAt, as effectiveState projects it.
Expired(s) == sess[s].late /\ sess[s].state \in Active
Editable(s) == sess[s].state \in Editing /\ sess[s].req = None /\ ~Expired(s)

Due(s) == {o \in Scanned : usage[o] = s /\ ocr[o] = "DUE"}

\* Every operation of a session first enforces the end of OCR retention; that
\* moves the revision on, so the operation itself is refused and rolled back.
Loaded(s) == Due(s) = {}

\* A write that invalidates whatever was prepared.
Unprepared(row) ==
  [row EXCEPT !.proposal = None, !.seen = None, !.challenge = None]

Capped(n) == IF n > MaxRev THEN MaxRev ELSE n

\* The draft without some of its lines, sent back to the person.
Without(row, lost) ==
  [Unprepared(row) EXCEPT !.state = "REVIEW_REQUIRED",
                          !.rev = Capped(row.rev + 1),
                          !.scope = row.scope \ lost, !.sel = row.sel \ lost,
                          !.asked = row.asked \ lost,
                          !.dec = [o \in Observations |->
                                     IF o \in lost THEN Undecided[o] ELSE row.dec[o]]]

\* A closed or applied session keeps its request, nothing of its draft.
Emptied(row) ==
  [Unprepared(row) EXCEPT !.scope = {}, !.sel = {}, !.asked = {}, !.docs = {},
                          !.dec = Undecided, !.late = FALSE]

Closed(row) == [Emptied(row) EXCEPT !.state = "CLOSED", !.rev = Capped(row.rev + 1)]

----------------------------------------------------------------------------
(* Matching: which registered expenses speak against a line *)

PurchaseAt(e) == IF e \in External THEN ExternalPurchase[e] ELSE PurchaseOf[e[2]]
Present(e)    == expense[e] # "ABSENT"
Live(e)       == expense[e] = "LIVE"
Key(e)        == IF e \in External THEN ExternalKey[e] ELSE "NONE"

\* Same purchase: the installment family of the line on this card, and the
\* rows found by identity keys.  Deleted rows are found too.
Kin(o) ==
  IF PurchaseOf[o] \in Installments
  THEN {e \in Expenses : Present(e) /\ PurchaseAt(e) = PurchaseOf[o]}
  ELSE {}
Keyed(o) == {e \in External : /\ Present(e) /\ Key(e) # "NONE"
                              /\ PurchaseAt(e) = PurchaseOf[o]}

Unclaimed(o) == claim[o] = None

\* Mutant: an acceptance covers any key.
CreateIfAccepted(o, do)  == /\ Unclaimed(o) /\ Kin(o) = {}
                            /\ do = "ANYWAY" \/ Keyed(o) = {}

\* The decision on line o needs no further question.  A family member or a
\* deleted match always blocks a creation; an identity key only asks.
CreateSettles(o, do) ==
  /\ Unclaimed(o)
  /\ Kin(o) = {}
  /\ \A e \in Keyed(o) : do = "ANYWAY" /\ Live(e) /\ Key(e) = "NATURAL"

\* Only an expense with a documented schedule can be kept: one that a session
\* created.
KeepSettles(o, e) ==
  /\ claim[o] \in {None, e}
  /\ e \in Kin(o) \cap Created
  /\ \A k \in Kin(o) : Live(k) /\ Key(k) # "STRONG"

Settles(o, d) == \/ d.do \in Creates /\ CreateSettles(o, d.do)
                 \/ d.do = "KEEP" /\ KeepSettles(o, d.of)

\* What the preparation reads: the claims of every line and the expenses that
\* match a selected one.
Facts(s) ==
  [claims  |-> [o \in sess[s].scope |-> claim[o]],
   matches |-> [o \in sess[s].sel |-> {<<e, expense[e]>> : e \in Kin(o) \cup Keyed(o)}]]

Questions(s) == {o \in sess[s].sel : ~Settles(o, sess[s].dec[o])}

IsReady(s) == sess[s].sel # {} /\ Questions(s) = {}

\* claimBindings
Bindable(s) == \A o \in sess[s].sel : Unclaimed(o)

Proposal(s, rev) == [rev |-> rev, lines |-> [o \in sess[s].sel |-> sess[s].dec[o]]]

----------------------------------------------------------------------------
(* The person's requests *)

\* An answer settles the question about one line's decision and leaves the
\* selection; without a question only lines that OCR read may be changed.
Answers(s, sel, changed) ==
  sel = sess[s].sel /\ \E o \in sess[s].asked : changed = {o}
Revisable(s, sel) ==
  {changed \in SUBSET sess[s].scope : changed \subseteq Scanned \/ Answers(s, sel, changed)}
Choices == {d \in Decisions : d.do = "KEEP" => Present(d.of)}

Edit(s) ==
  /\ Editable(s) /\ Loaded(s)
  /\ sess[s].rev < MaxRev
  /\ \E sel \in SUBSET sess[s].scope : \E changed \in Revisable(s, sel) :
       \E new \in [changed -> Choices] :
         /\ \A o \in changed : new[o] # sess[s].dec[o]
         /\ changed # {} \/ sel # sess[s].sel
         /\ sess' = [sess EXCEPT ![s] =
              [Unprepared(sess[s]) EXCEPT
                 !.state = "DRAFT", !.rev = sess[s].rev + 1, !.late = FALSE, !.sel = sel,
                 !.dec = [o \in Observations |-> IF o \in changed THEN new[o] ELSE sess[s].dec[o]],
                 !.asked = IF Answers(s, sel, changed) THEN sess[s].asked \ changed ELSE sess[s].asked]]
  /\ UNCHANGED <<world, issued, version, retention>>

Prepare(s) ==
  /\ Editable(s) /\ Loaded(s)
  /\ sess[s].rev < MaxRev
  /\ IsReady(s) => Bindable(s)
  /\ LET next == [Unprepared(sess[s]) EXCEPT
                    !.rev = sess[s].rev + 1,
                    !.asked = (sess[s].asked \ sess[s].sel) \cup Questions(s)]
     IN  sess' = [sess EXCEPT ![s] =
           IF IsReady(s)
           THEN [next EXCEPT !.state = "READY",
                             !.proposal = Proposal(s, next.rev),
                             !.seen = Facts(s)]
           ELSE [next EXCEPT !.state = "NEEDS_INPUT"]]
  /\ UNCHANGED <<world, issued, version, retention>>

\* ready(): the request names the revision and the proposal in the row.
Ready(s) ==
  /\ Editable(s) /\ Loaded(s)
  /\ sess[s].state = "READY"
  /\ sess[s].proposal # None
  /\ sess[s].proposal.rev = sess[s].rev

Challenge(s) ==
  /\ Ready(s)
  /\ \E n \in Nonces :
       LET shown == [nonce |-> n, sess |-> s, rev |-> sess[s].rev,
                    proposal |-> sess[s].proposal, seen |-> sess[s].seen,
                    ver |-> version]
       IN  /\ \A i \in issued : i.nonce # n
           /\ issued' = issued \cup {shown}
           /\ sess' = [sess EXCEPT ![s].challenge = shown]
  /\ UNCHANGED <<world, version, retention>>

\* The client presents a page it was given, perhaps an old one.
NonceFits(s, shown) ==
  sess[s].challenge # None /\ shown = sess[s].challenge /\ shown.ver = version

\* Mutant: a request id is only looked up in the session that is confirmed.
UnusedEver(f) == f \in FinIds

Unused(f) == \A t \in Sessions : sess[t].req # f

Confirm(s, f) ==
  /\ Ready(s)
  /\ sess[s].rev < MaxRev
  /\ Unused(f)
  /\ \E shown \in issued :
       /\ shown.sess = s /\ shown.rev = sess[s].rev /\ shown.proposal = sess[s].proposal
       /\ NonceFits(s, shown)
  /\ sess' = [sess EXCEPT ![s] =
       [sess[s] EXCEPT !.state = "CONFIRMED", !.rev = sess[s].rev + 1, !.req = f,
                       !.crev = sess[s].rev, !.cver = version, !.challenge = None]]
  /\ UNCHANGED <<world, issued, version, retention>>

Cancel(s) ==
  /\ sess[s].state \in Active /\ ~Expired(s) /\ Loaded(s)
  /\ sess' = [sess EXCEPT ![s] = Closed(sess[s])]
  /\ UNCHANGED <<world, issued, version, retention>>

----------------------------------------------------------------------------
(* The execution *)

Executing(s) == sess[s].state = "CONFIRMED" /\ Loaded(s) /\ sess[s].rev < MaxRev

ExecuteLate(s) ==
  /\ Executing(s) /\ Expired(s)
  /\ sess' = [sess EXCEPT ![s] = Closed(sess[s])]
  /\ UNCHANGED <<world, issued, version, retention>>

\* Mutant: what was shown is not compared.
StillReady(s) == /\ sess[s].cver = version /\ Bindable(s) /\ IsReady(s)
                 /\ Proposal(s, sess[s].crev) = sess[s].proposal

\* Everything is prepared again, in the transaction that books.
StillAsConfirmed(s) ==
  /\ sess[s].cver = version
  /\ Bindable(s)
  /\ IsReady(s)
  /\ Proposal(s, sess[s].crev) = sess[s].proposal
  /\ Facts(s) = sess[s].seen

ExecuteReview(s) ==
  /\ Executing(s) /\ ~Expired(s)
  /\ ~StillAsConfirmed(s)
  /\ sess' = [sess EXCEPT ![s] = [sess[s] EXCEPT !.state = "REVIEW_REQUIRED",
                                                 !.rev = sess[s].rev + 1, !.challenge = None]]
  /\ UNCHANGED <<world, issued, version, retention>>

\* The expense of each line of session s once it is applied.
Booking(s) ==
  [o \in sess[s].sel |-> IF sess[s].dec[o].do = "KEEP" THEN sess[s].dec[o].of ELSE <<s, o>>]

Applied(s) ==
  [Emptied(sess[s]) EXCEPT !.state = "APPLIED", !.rev = sess[s].rev + 1, !.receipt = Booking(s)]

\* The lines that were not selected move to a new session, selected unless OCR
\* read them, with their documents.
Deferred(s) == sess[s].scope \ sess[s].sel

Continuation(s) ==
  LET lines == Deferred(s)
  IN  [Blank EXCEPT !.state = "DRAFT", !.rev = 1, !.scope = lines,
         !.sel = lines \ Scanned, !.asked = sess[s].asked \cap lines,
         !.docs = {DocOf[o] : o \in lines},
         !.dec = [o \in Observations |->
                    IF o \in lines THEN sess[s].dec[o] ELSE Undecided[o]]]

ExecuteApply(s) ==
  /\ Executing(s) /\ ~Expired(s)
  /\ StillAsConfirmed(s)
  /\ LET made   == Booking(s)
         rest   == Continuation(s)
     IN  /\ expense' = [e \in Expenses |->
                          IF \E o \in sess[s].sel : made[o] = <<s, o>> /\ e = <<s, o>>
                          THEN "LIVE" ELSE expense[e]]
         /\ claim' = [o \in Observations |->
                        IF o \in sess[s].sel THEN made[o] ELSE claim[o]]
         /\ IF Deferred(s) = {}
            THEN sess' = [sess EXCEPT ![s] = Applied(s)] /\ UNCHANGED usage
            ELSE \E c \in Continuations :
                   /\ sess[c].state = "NONE"
                   /\ sess' = [sess EXCEPT ![s] = Applied(s), ![c] = rest]
                   /\ usage' = [o \in Scanned |->
                                  IF usage[o] = s /\ DocOf[o] \in rest.docs
                                  THEN c ELSE usage[o]]
  /\ UNCHANGED <<gone, issued, version, ocr, page>>

Execute(s) == ExecuteLate(s) \/ ExecuteReview(s) \/ ExecuteApply(s)

----------------------------------------------------------------------------
(* The rest of the application *)

\* A statement import or a manual entry.
Register(e) ==
  /\ expense[e] = "ABSENT"
  /\ expense' = [expense EXCEPT ![e] = "LIVE"]
  /\ UNCHANGED <<sess, claim, gone, issued, version, retention>>

\* Mutant: claims survive their expense.
ClaimedByNobody(e) == {o \in Observations : claim[o] = e /\ ~Present(e)}

\* Triggers of expenses and import_observations: the claims of a deleted expense go
\* with their rows; a document that loses its last claim is retired with all
\* its rows, and the sessions that hold it start over.  One revision stands for
\* one per deleted row.
ClaimedBy(e) == {o \in Observations : claim[o] = e}

Retired(e) ==
  {DocOf[o] : o \in ClaimedBy(e)} \ {DocOf[o] : o \in {k \in Observations : claim[k] \notin {None, e}}}

Disposed(e) == ClaimedBy(e) \cup UNION {Held(doc) : doc \in Retired(e)}

Delete(e) ==
  /\ Live(e)
  /\ expense' = [expense EXCEPT ![e] = "DELETED"]
  /\ claim' = [o \in Observations |-> IF o \in ClaimedBy(e) THEN None ELSE claim[o]]
  /\ gone' = gone \cup Disposed(e)
  /\ sess' = [t \in Sessions |->
       IF sess[t].state \notin Active THEN sess[t]
       ELSE IF sess[t].docs \cap Retired(e) # {} THEN Without(sess[t], sess[t].scope)
       ELSE IF sess[t].scope \cap Disposed(e) # {} THEN Without(sess[t], Disposed(e))
       ELSE sess[t]]
  /\ UNCHANGED <<issued, version, retention>>

\* Sign out everywhere, or a change of access.
Revoke ==
  /\ version < MaxVersion
  /\ version' = version + 1
  /\ UNCHANGED <<sess, world, issued, retention>>

----------------------------------------------------------------------------
(* Time and the reaper *)

\* Seven days without an edit.
Expire(s) ==
  /\ sess[s].state \in Active /\ ~sess[s].late
  /\ sess' = [sess EXCEPT ![s].late = TRUE]
  /\ UNCHANGED <<world, issued, version, retention>>

\* Seven days after the OCR call.
BecomesDue(o) ==
  /\ ocr[o] = "HELD" /\ usage[o] # None
  /\ ocr' = [ocr EXCEPT ![o] = "DUE"]
  /\ UNCHANGED <<sess, world, issued, version, usage, page>>

\* enforcePdfOcrRetention, by the next request or by the reaper.  It clears the
\* proposal's hash, which import_sessions_confirmation_tuple_check refuses for a
\* row with a financial request: the transaction then rolls back.
RetentionEnds(s) ==
  /\ Due(s) # {}
  /\ sess[s].state \in Active => sess[s].req = None /\ sess[s].rev < MaxRev
  /\ LET lost == {o \in Due(s) : Unclaimed(o)}
     IN  /\ gone' = gone \cup lost
         /\ sess' = [t \in Sessions |->
              IF sess[t].state \notin Active THEN sess[t]
              ELSE IF t = s THEN Without(sess[t], Due(s))
              ELSE IF sess[t].scope \cap lost # {} THEN Without(sess[t], lost)
              ELSE sess[t]]
  /\ ocr' = [o \in Scanned |-> IF o \in Due(s) THEN "PURGED" ELSE ocr[o]]
  /\ UNCHANGED <<expense, claim, issued, version, usage, page>>

\* A cycle purges due OCR content first, and ends there if that fails; then it
\* takes a page of sessions to expire.
TakePage ==
  /\ page = {}
  /\ \A s \in Sessions : Due(s) = {}
  /\ page' = {s \in Sessions : Expired(s)}
  /\ UNCHANGED <<sess, world, issued, version, usage, ocr>>

\* Each session of the page is checked again in the transaction that closes it.
Reap(s) ==
  /\ s \in page
  /\ page' = page \ {s}
  /\ sess' = [sess EXCEPT ![s] = IF Expired(s) THEN Closed(sess[s]) ELSE sess[s]]
  /\ UNCHANGED <<world, issued, version, usage, ocr>>

----------------------------------------------------------------------------
\* A line that OCR read was read for one of the sessions that hold its document.
Holders(docs, o) == {s \in Opened : DocOf[o] \in docs[s]}

Init ==
  /\ \E docs \in Openings :
       /\ sess = [s \in Sessions |-> IF s \in Opened THEN Open(docs[s]) ELSE Blank]
       /\ usage \in {u \in [Scanned -> Opened \cup {None}] :
                      \A o \in Scanned : IF Holders(docs, o) = {} THEN u[o] = None
                                          ELSE u[o] \in Holders(docs, o)}
  /\ expense = [e \in Expenses |-> "ABSENT"]
  /\ claim = [o \in Observations |-> None]
  /\ gone = {}
  /\ issued = {}
  /\ version = 0
  /\ ocr = [o \in Scanned |-> "HELD"]
  /\ page = {}

Person(s) == \/ Edit(s) \/ Prepare(s) \/ Challenge(s) \/ Cancel(s) \/ Execute(s)
             \/ \E f \in FinIds : Confirm(s, f)

Reaper == TakePage \/ \E s \in Sessions : Reap(s)

Next ==
  \/ \E s \in Sessions : Person(s) \/ Expire(s) \/ RetentionEnds(s)
  \/ \E e \in External : Register(e)
  \/ \E e \in Expenses : Delete(e)
  \/ \E o \in Scanned : BecomesDue(o)
  \/ Revoke
  \/ Reaper

Spec == Init /\ [][Next]_vars

\* Time passes, and the reaper's cycles of this owner's scope keep coming.
FairSpec ==
  /\ Spec
  /\ \A s \in Sessions : WF_vars(Expire(s)) /\ WF_vars(Reap(s)) /\ WF_vars(RetentionEnds(s))
  /\ WF_vars(TakePage)

----------------------------------------------------------------------------
(* Properties *)

\* Types of the rows.
TypeOK ==
  /\ \A s \in Sessions :
       /\ sess[s].state \in States
       /\ sess[s].rev \in 0 .. MaxRev
       /\ sess[s].sel \subseteq sess[s].scope
       /\ sess[s].asked \subseteq sess[s].scope
       /\ sess[s].scope \subseteq Observations \ gone
       /\ \A o \in Observations : sess[s].dec[o] \in Decisions
       /\ sess[s].req \in FinIds \cup {None}
       /\ sess[s].challenge \in issued \cup {None}
  /\ expense \in [Expenses -> {"ABSENT", "LIVE", "DELETED"}]
  /\ claim \in [Observations -> Expenses \cup {None}]
  /\ gone \subseteq Observations
  /\ version \in 0 .. MaxVersion
  /\ usage \in [Scanned -> Sessions \cup {None}]
  /\ ocr \in [Scanned -> {"HELD", "DUE", "PURGED"}]
  /\ page \subseteq Sessions

\* An observation is claimed by the booking of one applied session, for an
\* expense that is still there: deleting an expense disposes of its claims.
ClaimsAreBooked ==
  \A o \in Observations : ~Unclaimed(o) =>
    /\ o \notin gone /\ Live(claim[o])
    /\ \E s \in Sessions : /\ sess[s].state = "APPLIED"
                             /\ o \in DOMAIN sess[s].receipt
                             /\ sess[s].receipt[o] = claim[o]

Applies(s) == sess[s].state # "APPLIED" /\ sess'[s].state = "APPLIED"

WasShown(s) ==
  \E i \in issued :
    /\ i.sess = s /\ i.ver = version /\ i.rev = sess[s].crev
    /\ i.seen = Facts(s)
    /\ DOMAIN sess'[s].receipt = DOMAIN i.proposal.lines
    /\ \A o \in DOMAIN i.proposal.lines :
         sess'[s].receipt[o] =
           IF i.proposal.lines[o].do = "KEEP" THEN i.proposal.lines[o].of ELSE <<s, o>>

\* What is booked was shown as it is: the challenge that was confirmed showed
\* the same decisions, the same claims and the same matching expenses as they
\* stand at the moment of booking, to a login that has not been revoked since.
BookedAsShown == [][\A s \in Sessions : Applies(s) => WasShown(s)]_vars

Creation(s, o) == expense[<<s, o>>] = "ABSENT" /\ expense'[<<s, o>>] = "LIVE"

\* A creation never meets an expense of the same purchase that the application
\* could recognise, unless the person accepted a match by natural key.
NoSilentDuplicates ==
  [][\A s \in Sessions, o \in Observations : Creation(s, o) =>
       \A e \in Expenses :
         Present(e) /\ PurchaseAt(e) = PurchaseOf[o] =>
           /\ PurchaseOf[o] \notin Installments
           /\ Key(e) # "STRONG"
           /\ Key(e) = "NATURAL" => Live(e) /\ sess[s].dec[o].do = "ANYWAY"]_vars

\* The requests of all sessions, as FinancialRequests promises them.
OfRequest(f) == {s \in Sessions : sess[s].req = f}
CreatesIn(lines) == {o \in DOMAIN lines : lines[o].do \in Creates}

RequestStatus == [f \in FinIds |->
  CASE OfRequest(f) = {} -> "UNKNOWN"
    [] \E s \in OfRequest(f) : sess[s].state = "CONFIRMED" -> "CONFIRMED"
    [] \E s \in OfRequest(f) : sess[s].state = "APPLIED" -> "APPLIED"
    [] OTHER -> "REFUSED"]

LinesOf(s) ==
  CASE sess[s].state = "CONFIRMED" -> CreatesIn(sess[s].proposal.lines)
    [] sess[s].state = "APPLIED" -> {o \in DOMAIN sess[s].receipt : sess[s].receipt[o] = <<s, o>>}
    [] OTHER -> {}

RequestContent == [f \in FinIds |-> UNION {LinesOf(s) : s \in OfRequest(f)}]

RequestBookings == {<<sess[e[1]].req, e[2]>> : e \in {c \in Created : Present(c)}}

Requests == INSTANCE FinancialRequests WITH
  Requests <- FinIds,
  Lines    <- Observations,
  status   <- RequestStatus,
  content  <- RequestContent,
  booked   <- RequestBookings

ImplementsFinancialRequests == Requests!Spec

\* A confirmed request does not stay open for ever: it is booked, cancelled or
\* expires.  OCR content that meets its deadline strands it.
RequestsAreSettled ==
  \A s \in Sessions : sess[s].req # None ~> sess[s].state \in {"APPLIED", "CLOSED"}

\* The rows of drafts, bookings and claims agree, whatever was deleted in between.
ClaimsAreSound == TypeOK /\ ClaimsAreBooked
=============================================================================
