-------------------- MODULE ImportSessionWorkflowProofs --------------------
(***************************************************************************)
(* What the import sessions promise, for every number of sessions,         *)
(* documents, lines and requests: a booking is what the person was shown,  *)
(* claims and expenses agree, nothing is created twice without asking, and *)
(* a financial request is applied or refused once.                         *)
(***************************************************************************)
EXTENDS ImportSessionWorkflow, TLAPS

----------------------------------------------------------------------------
(* The rows, field by field.                                               *)

Fields == {"state", "rev", "scope", "dec", "sel", "asked", "docs", "late", "proposal", "seen",
           "challenge", "req", "crev", "cver", "receipt"}
IsRow(r) == r = [f \in Fields |-> r[f]]

LEMMA UnpreparedRow ==
  ASSUME NEW r, IsRow(r)
  PROVE  /\ IsRow(Unprepared(r))
         /\ Unprepared(r).proposal = None /\ Unprepared(r).seen = None /\ Unprepared(r).challenge = None
         /\ Unprepared(r).state = r.state /\ Unprepared(r).rev = r.rev /\ Unprepared(r).scope = r.scope
         /\ Unprepared(r).dec = r.dec /\ Unprepared(r).sel = r.sel /\ Unprepared(r).asked = r.asked
         /\ Unprepared(r).docs = r.docs /\ Unprepared(r).late = r.late /\ Unprepared(r).req = r.req
         /\ Unprepared(r).crev = r.crev /\ Unprepared(r).cver = r.cver
         /\ Unprepared(r).receipt = r.receipt
BY DEF IsRow, Fields, Unprepared

LEMMA WithoutRow ==
  ASSUME NEW r, IsRow(r), NEW lost
  PROVE  /\ IsRow(Without(r, lost))
         /\ Without(r, lost).proposal = None /\ Without(r, lost).seen = None
         /\ Without(r, lost).challenge = None /\ Without(r, lost).state = "REVIEW_REQUIRED"
         /\ Without(r, lost).rev = Capped(r.rev + 1) /\ Without(r, lost).scope = r.scope \ lost
         /\ Without(r, lost).sel = r.sel \ lost /\ Without(r, lost).asked = r.asked \ lost
         /\ Without(r, lost).dec = [o \in Observations |-> IF o \in lost THEN Undecided[o] ELSE r.dec[o]]
         /\ Without(r, lost).docs = r.docs /\ Without(r, lost).late = r.late
         /\ Without(r, lost).req = r.req /\ Without(r, lost).crev = r.crev
         /\ Without(r, lost).cver = r.cver /\ Without(r, lost).receipt = r.receipt
BY DEF IsRow, Fields, Unprepared, Without

LEMMA ClosedRow ==
  ASSUME NEW r, IsRow(r)
  PROVE  /\ IsRow(Closed(r))
         /\ Closed(r).proposal = None /\ Closed(r).seen = None /\ Closed(r).challenge = None
         /\ Closed(r).scope = {} /\ Closed(r).sel = {} /\ Closed(r).asked = {} /\ Closed(r).docs = {}
         /\ Closed(r).dec = Undecided /\ Closed(r).late = FALSE /\ Closed(r).state = "CLOSED"
         /\ Closed(r).rev = Capped(r.rev + 1) /\ Closed(r).req = r.req /\ Closed(r).crev = r.crev
         /\ Closed(r).cver = r.cver /\ Closed(r).receipt = r.receipt
BY DEF IsRow, Fields, Unprepared, Emptied, Closed

LEMMA AppliedRow ==
  ASSUME NEW s, IsRow(sess[s])
  PROVE  /\ IsRow(Applied(s))
         /\ Applied(s).proposal = None /\ Applied(s).seen = None /\ Applied(s).challenge = None
         /\ Applied(s).scope = {} /\ Applied(s).sel = {} /\ Applied(s).asked = {} /\ Applied(s).docs = {}
         /\ Applied(s).dec = Undecided /\ Applied(s).late = FALSE /\ Applied(s).state = "APPLIED"
         /\ Applied(s).rev = sess[s].rev + 1 /\ Applied(s).receipt = Booking(s)
         /\ Applied(s).req = sess[s].req /\ Applied(s).crev = sess[s].crev
         /\ Applied(s).cver = sess[s].cver
BY DEF IsRow, Fields, Unprepared, Emptied, Applied

LEMMA BlankRow ==
  /\ IsRow(Blank)
         /\ Blank.proposal = None /\ Blank.seen = None /\ Blank.challenge = None /\ Blank.state = "NONE"
         /\ Blank.rev = 0 /\ Blank.scope = {} /\ Blank.dec = Undecided /\ Blank.sel = {}
         /\ Blank.asked = {} /\ Blank.docs = {} /\ Blank.late = FALSE /\ Blank.req = None
         /\ Blank.crev = None /\ Blank.cver = None /\ Blank.receipt = None
BY DEF IsRow, Fields, Blank

LEMMA OpenRow ==
  ASSUME NEW docs
  PROVE  /\ IsRow(Open(docs))
         /\ Open(docs).proposal = None /\ Open(docs).seen = None /\ Open(docs).challenge = None
         /\ Open(docs).state = "DRAFT" /\ Open(docs).rev = 1
         /\ Open(docs).scope = UNION {Held(doc) : doc \in docs} /\ Open(docs).dec = Undecided
         /\ Open(docs).sel = {} /\ Open(docs).asked = {} /\ Open(docs).docs = docs
         /\ Open(docs).late = FALSE /\ Open(docs).req = None /\ Open(docs).crev = None
         /\ Open(docs).cver = None /\ Open(docs).receipt = None
BY DEF IsRow, Fields, Blank, Open

LEMMA ContinuationRow ==
  ASSUME NEW s
  PROVE  /\ IsRow(Continuation(s))
         /\ Continuation(s).proposal = None /\ Continuation(s).seen = None
         /\ Continuation(s).challenge = None /\ Continuation(s).state = "DRAFT"
         /\ Continuation(s).rev = 1 /\ Continuation(s).scope = Deferred(s)
         /\ Continuation(s).dec = [o \in Observations |-> IF o \in Deferred(s) THEN sess[s].dec[o] ELSE Undecided[o]]
         /\ Continuation(s).sel = Deferred(s) \ Scanned
         /\ Continuation(s).asked = sess[s].asked \cap Deferred(s)
         /\ Continuation(s).docs = {DocOf[o] : o \in Deferred(s)} /\ Continuation(s).late = FALSE
         /\ Continuation(s).req = None /\ Continuation(s).crev = None /\ Continuation(s).cver = None
         /\ Continuation(s).receipt = None
BY DEF IsRow, Fields, Blank, Continuation

----------------------------------------------------------------------------
(* One row.                                                                *)

\* The page that was shown is about what the row holds.
Shows(i, s, r) == i.sess = s /\ i.proposal = r.proposal /\ i.seen = r.seen

\* A row of session s is consistent in itself and with the pages handed out.
Sound(s, r, pages) ==
  /\ IsRow(r) /\ r.state \in States /\ r.rev \in 0 .. MaxRev
  /\ r.scope \subseteq Observations /\ r.sel \subseteq r.scope /\ r.asked \subseteq r.scope
  /\ r.dec \in [Observations -> Decisions] /\ r.req \in FinIds \cup {None}
  /\ r.state \notin Active => r.scope = {}
  /\ r.req # None => r.state \in {"CONFIRMED", "APPLIED", "REVIEW_REQUIRED", "CLOSED"}
  /\ r.state \in {"CONFIRMED", "APPLIED"} => r.req # None
  /\ r.proposal = None \/ DOMAIN r.proposal.lines \subseteq Observations
  /\ r.challenge = None \/ (r.challenge \in pages /\ Shows(r.challenge, s, r) /\ r.challenge.rev = r.rev)
  /\ r.state = "CONFIRMED" => \E i \in pages : Shows(i, s, r) /\ i.rev = r.crev /\ i.ver = r.cver

\* A step that neither confirms nor applies the request of a row.
Calm(r, q) ==
  /\ q.req = r.req /\ q.scope \subseteq r.scope
  /\ r.state = "APPLIED" => q = r
  /\ q.state = "APPLIED" => r.state = "APPLIED"
  /\ q.state = "CONFIRMED" => r.state = "CONFIRMED" /\ q.proposal = r.proposal

LEMMA CappedRev == \A n \in 0 .. MaxRev : Capped(n + 1) \in 0 .. MaxRev
BY WorkflowAssumption DEF WorkflowAssumption, Capped

LEMMA UndecidedType == Undecided \in [Observations -> Decisions]
BY DEF Undecided, Decisions

LEMMA SoundGrows ==
  ASSUME NEW s, NEW r, NEW P, NEW Q, P \subseteq Q, Sound(s, r, P)
  PROVE  Sound(s, r, Q)
BY DEF Sound

LEMMA WithoutSound ==
  ASSUME NEW s, NEW r, NEW P, Sound(s, r, P), r.state \in Active, NEW lost
  PROVE  /\ Sound(s, Without(r, lost), P) /\ Calm(r, Without(r, lost))
         /\ Without(r, lost).scope = r.scope \ lost
<1> DEFINE q == Without(r, lost)
<1>1. /\ IsRow(q) /\ q.state = "REVIEW_REQUIRED" /\ q.rev = Capped(r.rev + 1) /\ q.req = r.req
      /\ q.scope = r.scope \ lost /\ q.sel = r.sel \ lost /\ q.asked = r.asked \ lost
      /\ q.dec = [o \in Observations |-> IF o \in lost THEN Undecided[o] ELSE r.dec[o]]
      /\ q.proposal = None /\ q.challenge = None
  BY WithoutRow DEF Sound
<1>2. q.rev \in 0 .. MaxRev  BY <1>1, CappedRev DEF Sound
<1>3. q.dec \in [Observations -> Decisions]  BY <1>1, UndecidedType DEF Sound
<1> HIDE DEF q
<1>4. Sound(s, q, P)  BY <1>1, <1>2, <1>3 DEF Sound, States, Active, Editing
<1>5. Calm(r, q)  BY <1>1 DEF Calm, Active, Editing
<1> QED BY <1>1, <1>4, <1>5 DEF q

LEMMA ClosedSound ==
  ASSUME NEW s, NEW r, NEW P, Sound(s, r, P), r.state \in Active
  PROVE  Sound(s, Closed(r), P) /\ Calm(r, Closed(r))
<1> DEFINE q == Closed(r)
<1>1. /\ IsRow(q) /\ q.state = "CLOSED" /\ q.rev = Capped(r.rev + 1) /\ q.req = r.req
      /\ q.scope = {} /\ q.sel = {} /\ q.asked = {} /\ q.dec = Undecided
      /\ q.proposal = None /\ q.challenge = None
  BY ClosedRow DEF Sound
<1>2. q.rev \in 0 .. MaxRev  BY <1>1, CappedRev DEF Sound
<1>3. q.dec \in [Observations -> Decisions]  BY <1>1, UndecidedType
<1> HIDE DEF q
<1>4. Sound(s, q, P)  BY <1>1, <1>2, <1>3 DEF Sound, States, Active, Editing
<1>5. Calm(r, q)  BY <1>1 DEF Calm, Active, Editing
<1> QED BY <1>4, <1>5 DEF q

LEMMA LateSound ==
  ASSUME NEW s, NEW r, NEW P, Sound(s, r, P), r.state \in Active
  PROVE  Sound(s, [r EXCEPT !.late = TRUE], P) /\ Calm(r, [r EXCEPT !.late = TRUE])
<1> DEFINE q == [r EXCEPT !.late = TRUE]
<1>1. /\ IsRow(q) /\ q.state = r.state /\ q.rev = r.rev /\ q.req = r.req
      /\ q.scope = r.scope /\ q.sel = r.sel /\ q.asked = r.asked /\ q.dec = r.dec /\ q.seen = r.seen
      /\ q.proposal = r.proposal /\ q.challenge = r.challenge /\ q.crev = r.crev /\ q.cver = r.cver
  <2>1. IsRow(r)  BY DEF Sound
  <2> QED BY <2>1 DEF IsRow, Fields
<1> HIDE DEF q
<1>2. Sound(s, q, P)  BY <1>1 DEF Sound, Shows
<1>3. Calm(r, q)  BY <1>1 DEF Calm, Active, Editing
<1> QED BY <1>2, <1>3 DEF q

LEMMA ReviewSound ==
  ASSUME NEW s, NEW r, NEW P, Sound(s, r, P), r.state = "CONFIRMED", r.rev < MaxRev,
         NEW q, q = [r EXCEPT !.state = "REVIEW_REQUIRED", !.rev = r.rev + 1, !.challenge = None]
  PROVE  Sound(s, q, P) /\ Calm(r, q)
<1>1. /\ IsRow(q) /\ q.state = "REVIEW_REQUIRED" /\ q.rev = r.rev + 1 /\ q.req = r.req
      /\ q.scope = r.scope /\ q.sel = r.sel /\ q.asked = r.asked /\ q.dec = r.dec
      /\ q.proposal = r.proposal /\ q.challenge = None
  <2>1. IsRow(r)  BY DEF Sound
  <2> QED BY <2>1 DEF IsRow, Fields
<1>2. q.rev \in 0 .. MaxRev  BY <1>1, WorkflowAssumption DEF Sound, WorkflowAssumption
<1>3. Sound(s, q, P)  BY <1>1, <1>2 DEF Sound, States, Active, Editing
<1>4. Calm(r, q)  BY <1>1 DEF Calm
<1> QED BY <1>3, <1>4

----------------------------------------------------------------------------
(* The inductive invariant.                                                *)

Tables ==
  /\ sess = [s \in Sessions |-> sess[s]]
  /\ expense \in [Expenses -> {"ABSENT", "LIVE", "DELETED"}]
  /\ claim \in [Observations -> Expenses \cup {None}]
  /\ gone \subseteq Observations
  /\ version \in 0 .. MaxVersion
  /\ usage \in [Scanned -> Sessions \cup {None}]
  /\ ocr \in [Scanned -> {"HELD", "DUE", "PURGED"}]
  /\ page \subseteq Sessions

\* No session holds a line whose row is gone.
Rows == \A s \in Sessions : Sound(s, sess[s], issued) /\ sess[s].scope \cap gone = {}

\* A financial request belongs to one session.
OneSession ==
  \A s, t \in Sessions : sess[s].req # None /\ sess[s].req = sess[t].req => s = t

\* A line that was ever booked stays claimed until it is gone.
Bookings ==
  \A s \in Sessions, o \in Observations :
    Present(<<s, o>>) => sess[s].state = "APPLIED" /\ (claim[o] = <<s, o>> \/ o \in gone)

WInv == Tables /\ Rows /\ OneSession /\ Bookings /\ ClaimsAreBooked

----------------------------------------------------------------------------
(* What the requests do to their row.                                      *)

LEMMA EditRow ==
  ASSUME WInv, NEW s \in Sessions, Edit(s)
  PROVE  \E q : sess' = [sess EXCEPT ![s] = q] /\ Sound(s, q, issued) /\ Calm(sess[s], q)
<1> DEFINE r == sess[s]
<1>1. Sound(s, r, issued)  BY DEF WInv, Rows
<1> DEFINE dec(changed, new) == [o \in Observations |-> IF o \in changed THEN new[o] ELSE r.dec[o]]
           asked(changed, sel) == IF Answers(s, sel, changed) THEN r.asked \ changed ELSE r.asked
           row(sel, changed, new) ==
             [Unprepared(r) EXCEPT
                !.state = "DRAFT", !.rev = r.rev + 1, !.late = FALSE, !.sel = sel,
                !.dec = dec(changed, new), !.asked = asked(changed, sel)]
<1>2. \E sel \in SUBSET r.scope : \E changed \in Revisable(s, sel) : \E new \in [changed -> Choices] :
        /\ \A o \in changed : new[o] # r.dec[o]
        /\ changed # {} \/ sel # r.sel
        /\ sess' = [sess EXCEPT ![s] = row(sel, changed, new)]
  BY DEF Edit
<1> HIDE DEF row
<1>3. PICK sel \in SUBSET r.scope : \E changed \in Revisable(s, sel) : \E new \in [changed -> Choices] :
        sess' = [sess EXCEPT ![s] = row(sel, changed, new)]
  BY <1>2
<1>4. PICK changed \in Revisable(s, sel) : \E new \in [changed -> Choices] :
         sess' = [sess EXCEPT ![s] = row(sel, changed, new)]
  BY <1>3
<1>5. PICK new \in [changed -> Choices] : sess' = [sess EXCEPT ![s] = row(sel, changed, new)]
  BY <1>4
<1> DEFINE d == dec(changed, new)
           a == asked(changed, sel)
           u == Unprepared(r)
           q == [u EXCEPT !.state = "DRAFT", !.rev = r.rev + 1, !.late = FALSE, !.sel = sel,
                          !.dec = d, !.asked = a]
<1>6. sess' = [sess EXCEPT ![s] = q]  BY <1>5 DEF row
<1>7. /\ d \in [Observations -> Decisions] /\ a \subseteq r.scope
      /\ r.rev + 1 \in 0 .. MaxRev /\ r.req = None /\ r.state \in Editing
  <2>1. d \in [Observations -> Decisions]
    BY <1>1, <1>5 DEF Sound, Choices
  <2>2. a \subseteq r.scope  BY <1>1 DEF Sound
  <2>3. r.rev + 1 \in 0 .. MaxRev
    BY <1>1, WorkflowAssumption DEF WorkflowAssumption, Sound, Edit
  <2> QED BY <2>1, <2>2, <2>3 DEF Edit, Editable
<1> HIDE DEF d, a
<1>8. IsRow(u) /\ u.scope = r.scope /\ u.req = r.req /\ u.proposal = None /\ u.challenge = None
  BY <1>1, UnpreparedRow DEF Sound
<1> HIDE DEF u
<1>9. /\ IsRow(q) /\ q.state = "DRAFT" /\ q.rev = r.rev + 1 /\ q.sel = sel /\ q.dec = d /\ q.asked = a
      /\ q.scope = u.scope /\ q.req = u.req /\ q.proposal = u.proposal /\ q.challenge = u.challenge
  BY <1>8 DEF IsRow, Fields
<1> HIDE DEF q
<1>10. Sound(s, q, issued)
  BY <1>1, <1>7, <1>8, <1>9 DEF Sound, States, Active, Editing
<1>11. Calm(r, q)
  BY <1>1, <1>7, <1>8, <1>9 DEF Calm, Editing
<1> QED BY <1>6, <1>10, <1>11

LEMMA PrepareRow ==
  ASSUME WInv, NEW s \in Sessions, Prepare(s)
  PROVE  \E q : sess' = [sess EXCEPT ![s] = q] /\ Sound(s, q, issued) /\ Calm(sess[s], q)
<1> DEFINE r == sess[s]
           asked == (r.asked \ r.sel) \cup Questions(s)
           u == Unprepared(r)
           next == [u EXCEPT !.rev = r.rev + 1, !.asked = asked]
           ready == [next EXCEPT !.state = "READY", !.proposal = Proposal(s, next.rev), !.seen = Facts(s)]
           open == [next EXCEPT !.state = "NEEDS_INPUT"]
<1>1. Sound(s, r, issued)  BY DEF WInv, Rows
<1>2. \/ sess' = [sess EXCEPT ![s] = ready]
      \/ sess' = [sess EXCEPT ![s] = open]
  BY DEF Prepare
<1>3. asked \subseteq r.scope /\ r.rev + 1 \in 0 .. MaxRev /\ r.req = None /\ r.state \in Editing
  <2>1. asked \subseteq r.scope  BY <1>1 DEF Sound, Questions
  <2>2. r.rev + 1 \in 0 .. MaxRev
    BY <1>1, WorkflowAssumption DEF WorkflowAssumption, Sound, Prepare
  <2> QED BY <2>1, <2>2 DEF Prepare, Editable
<1> HIDE DEF asked
<1>4. /\ IsRow(u) /\ u.scope = r.scope /\ u.sel = r.sel /\ u.dec = r.dec /\ u.req = r.req
      /\ u.proposal = None /\ u.challenge = None
  BY <1>1, UnpreparedRow DEF Sound
<1> HIDE DEF u
<1>5. /\ IsRow(next) /\ next.rev = r.rev + 1 /\ next.asked = asked /\ next.scope = u.scope /\ next.sel = u.sel
      /\ next.dec = u.dec /\ next.req = u.req /\ next.proposal = u.proposal /\ next.challenge = u.challenge
  BY <1>4 DEF IsRow, Fields
<1> HIDE DEF next
<1>6. CASE sess' = [sess EXCEPT ![s] = ready]
  <2>1. /\ IsRow(ready) /\ ready.state = "READY" /\ ready.rev = next.rev /\ ready.asked = next.asked
        /\ ready.scope = next.scope /\ ready.sel = next.sel /\ ready.dec = next.dec /\ ready.req = next.req
        /\ ready.proposal = Proposal(s, next.rev) /\ ready.challenge = next.challenge
    BY <1>5 DEF IsRow, Fields
  <2>2. DOMAIN Proposal(s, next.rev).lines \subseteq Observations
    BY <1>1 DEF Proposal, Sound
  <2> HIDE DEF ready
  <2>3. Sound(s, ready, issued)
    BY <1>1, <1>3, <1>4, <1>5, <2>1, <2>2 DEF Sound, States, Active, Editing
  <2>4. Calm(r, ready)
    BY <1>3, <1>4, <1>5, <2>1 DEF Calm, Editing
  <2> QED BY <1>6, <2>3, <2>4
<1>7. CASE sess' = [sess EXCEPT ![s] = open]
  <2>1. /\ IsRow(open) /\ open.state = "NEEDS_INPUT" /\ open.rev = next.rev /\ open.asked = next.asked
        /\ open.scope = next.scope /\ open.sel = next.sel /\ open.dec = next.dec /\ open.req = next.req
        /\ open.proposal = next.proposal /\ open.challenge = next.challenge
    BY <1>5 DEF IsRow, Fields
  <2> HIDE DEF open
  <2>2. Sound(s, open, issued)
    BY <1>1, <1>3, <1>4, <1>5, <2>1 DEF Sound, States, Active, Editing
  <2>3. Calm(r, open)
    BY <1>3, <1>4, <1>5, <2>1 DEF Calm, Editing
  <2> QED BY <1>7, <2>2, <2>3
<1> QED BY <1>2, <1>6, <1>7

LEMMA ChallengeRow ==
  ASSUME WInv, NEW s \in Sessions, Challenge(s)
  PROVE  \E q : sess' = [sess EXCEPT ![s] = q] /\ Sound(s, q, issued') /\ Calm(sess[s], q)
<1> DEFINE r == sess[s]
           shown(n) == [nonce |-> n, sess |-> s, rev |-> r.rev, proposal |-> r.proposal, seen |-> r.seen,
                        ver |-> version]
<1>1. Sound(s, r, issued)  BY DEF WInv, Rows
<1>2. PICK n \in Nonces : issued' = issued \cup {shown(n)} /\ sess' = [sess EXCEPT ![s].challenge = shown(n)]
  BY DEF Challenge
<1> DEFINE page1 == shown(n)
           q == [r EXCEPT !.challenge = page1]
<1>3. page1.sess = s /\ page1.rev = r.rev /\ page1.proposal = r.proposal /\ page1.seen = r.seen
  OBVIOUS
<1>4. sess' = [sess EXCEPT ![s] = q] /\ issued' = issued \cup {page1}  BY <1>2
<1> HIDE DEF page1
<1>5. /\ IsRow(q) /\ q.state = r.state /\ q.rev = r.rev /\ q.req = r.req
      /\ q.scope = r.scope /\ q.sel = r.sel /\ q.asked = r.asked /\ q.dec = r.dec /\ q.seen = r.seen
      /\ q.proposal = r.proposal /\ q.challenge = page1
  <2>1. IsRow(r)  BY <1>1 DEF Sound
  <2> QED BY <2>1 DEF IsRow, Fields
<1> HIDE DEF q
<1>6. r.state = "READY" /\ r.req = None  BY DEF Challenge, Ready, Editable
<1>7. Sound(s, q, issued')
  BY <1>1, <1>3, <1>4, <1>5, <1>6 DEF Sound, Shows, States, Active, Editing
<1>8. Calm(r, q)
  BY <1>5, <1>6 DEF Calm
<1> QED BY <1>4, <1>7, <1>8

\* The page whose nonce the client presents is the one in the row.
LEMMA ConfirmRow ==
  ASSUME WInv, NEW s \in Sessions, NEW f \in FinIds, Confirm(s, f)
  PROVE  \E q : /\ sess' = [sess EXCEPT ![s] = q] /\ Sound(s, q, issued)
                /\ q.state = "CONFIRMED" /\ q.req = f /\ q.scope = sess[s].scope
                /\ q.proposal = sess[s].proposal
<1> DEFINE r == sess[s]
           q == [r EXCEPT !.state = "CONFIRMED", !.rev = r.rev + 1, !.req = f,
                          !.crev = r.rev, !.cver = version, !.challenge = None]
<1>1. Sound(s, r, issued)  BY DEF WInv, Rows
<1>2. sess' = [sess EXCEPT ![s] = q]  BY DEF Confirm
<1>3. r.rev + 1 \in 0 .. MaxRev
  BY <1>1, WorkflowAssumption DEF WorkflowAssumption, Sound, Confirm
<1>4. /\ IsRow(q) /\ q.state = "CONFIRMED" /\ q.rev = r.rev + 1 /\ q.req = f
      /\ q.scope = r.scope /\ q.sel = r.sel /\ q.asked = r.asked /\ q.dec = r.dec /\ q.seen = r.seen
      /\ q.proposal = r.proposal /\ q.challenge = None /\ q.crev = r.rev /\ q.cver = version
  <2>1. IsRow(r)  BY <1>1 DEF Sound
  <2> QED BY <2>1 DEF IsRow, Fields
<1> HIDE DEF q
<1>5. f # None  BY WorkflowAssumption DEF WorkflowAssumption
<1>6. \E i \in issued : Shows(i, s, q) /\ i.rev = q.crev /\ i.ver = q.cver
  <2>1. PICK shown \in issued : /\ shown.sess = s /\ shown.rev = r.rev /\ shown.proposal = r.proposal
                                /\ shown = r.challenge /\ shown.ver = version
    BY DEF Confirm, NonceFits
  <2>2. shown.seen = r.seen
    BY <1>1, <2>1 DEF Sound, Shows, Confirm, NonceFits
  <2> QED BY <1>4, <2>1, <2>2 DEF Shows
<1>7. Sound(s, q, issued)
  BY <1>1, <1>3, <1>4, <1>5, <1>6 DEF Sound, States, Active, Editing
<1> QED BY <1>2, <1>4, <1>7

----------------------------------------------------------------------------
(* The steps that neither confirm nor apply.                               *)

AllCalm == \A t \in Sessions : Sound(t, sess'[t], issued') /\ Calm(sess[t], sess'[t])

LEMMA CalmOne ==
  ASSUME WInv, NEW s \in Sessions, NEW q, Sound(s, q, issued'), Calm(sess[s], q),
         sess' = [sess EXCEPT ![s] = q], issued \subseteq issued'
  PROVE  AllCalm /\ sess' = [t \in Sessions |-> sess'[t]]
<1>1. sess = [t \in Sessions |-> sess[t]]  BY DEF WInv, Tables
<1>2. sess' = [t \in Sessions |-> sess'[t]]  BY <1>1
<1>3. ASSUME NEW t \in Sessions PROVE Sound(t, sess'[t], issued') /\ Calm(sess[t], sess'[t])
  <2>1. CASE t = s
    <3>1. sess'[t] = q  BY <1>1, <2>1
    <3> QED BY <2>1, <3>1
  <2>2. CASE t # s
    <3>1. sess'[t] = sess[t]  BY <1>1, <2>2
    <3>2. Sound(t, sess[t], issued')  BY SoundGrows DEF WInv, Rows
    <3>3. Calm(sess[t], sess[t])  BY DEF Calm
    <3> QED BY <3>1, <3>2, <3>3
  <2> QED BY <2>1, <2>2
<1> QED BY <1>2, <1>3 DEF AllCalm

\* Requests and receipts outlive every such step.
LEMMA CalmKeeps ==
  ASSUME WInv, AllCalm
  PROVE  /\ OneSession'
         /\ \A t \in Sessions : sess[t].state = "APPLIED" => sess'[t] = sess[t]
         /\ \A t \in Sessions : sess'[t].scope \subseteq sess[t].scope
BY DEF WInv, AllCalm, Calm, OneSession

LEMMA CalmInv ==
  ASSUME WInv, AllCalm, Tables', UNCHANGED <<claim, gone>>,
         \A e \in Created : expense'[e] = expense[e],
         \A e \in Expenses : Live(e) => expense'[e] = "LIVE"
  PROVE  WInv'
<1>1. OneSession'  BY CalmKeeps
<1>2. Rows'
  BY CalmKeeps DEF WInv, Rows, AllCalm
<1>3. Bookings'
  <2>1. ASSUME NEW s \in Sessions, NEW o \in Observations, Present(<<s, o>>)'
        PROVE  (sess[s].state = "APPLIED" /\ (claim[o] = <<s, o>> \/ o \in gone))'
    <3>1. <<s, o>> \in Created  BY DEF Created
    <3>2. Present(<<s, o>>)  BY <2>1, <3>1 DEF Present
    <3> QED BY <3>2, CalmKeeps DEF WInv, Bookings
  <2> QED BY <2>1 DEF Bookings
<1>4. ClaimsAreBooked'
  <2>1. ASSUME NEW o \in Observations, claim'[o] # None
        PROVE  /\ o \notin gone' /\ expense'[claim'[o]] = "LIVE"
               /\ \E s \in Sessions : /\ sess'[s].state = "APPLIED" /\ o \in DOMAIN sess'[s].receipt
                                      /\ sess'[s].receipt[o] = claim'[o]
    <3>1. claim[o] \in Expenses  BY <2>1 DEF WInv, Tables
    <3>2. /\ o \notin gone /\ Live(claim[o])
          /\ \E s \in Sessions : /\ sess[s].state = "APPLIED" /\ o \in DOMAIN sess[s].receipt
                                 /\ sess[s].receipt[o] = claim[o]
      BY <2>1 DEF WInv, ClaimsAreBooked, Unclaimed
    <3> QED BY <3>1, <3>2, CalmKeeps
  <2> QED BY <2>1 DEF ClaimsAreBooked, Unclaimed, Live
<1> QED BY <1>1, <1>2, <1>3, <1>4 DEF WInv

\* Requests of the person, time, and the reaper change one row each.
LEMMA RequestCalm ==
  ASSUME WInv, NEW s \in Sessions,
         Edit(s) \/ Prepare(s) \/ Challenge(s) \/ Cancel(s) \/ ExecuteLate(s) \/ ExecuteReview(s) \/ Expire(s)
  PROVE  AllCalm /\ WInv'
<1> DEFINE Goal == \E q : sess' = [sess EXCEPT ![s] = q] /\ Sound(s, q, issued') /\ Calm(sess[s], q)
<1>1. /\ UNCHANGED <<expense, claim, gone, version, usage, ocr, page>> /\ issued \subseteq issued'
      /\ Challenge(s) \/ issued' = issued
  BY DEF Edit, Prepare, Challenge, Cancel, ExecuteLate, ExecuteReview, Expire, world, retention
<1>2. Sound(s, sess[s], issued)  BY DEF WInv, Rows
<1>3. Goal
  <2>1. CASE Edit(s)  BY <2>1, EditRow DEF Edit
  <2>2. CASE Prepare(s)  BY <2>2, PrepareRow DEF Prepare
  <2>3. CASE Challenge(s)  BY <2>3, ChallengeRow
  <2>4. CASE Cancel(s)
    <3>1. sess' = [sess EXCEPT ![s] = Closed(sess[s])] /\ issued' = issued /\ sess[s].state \in Active
      BY <2>4 DEF Cancel
    <3>2. Sound(s, Closed(sess[s]), issued) /\ Calm(sess[s], Closed(sess[s]))
      BY <1>2, <3>1, ClosedSound
    <3> QED BY <3>1, <3>2
  <2>5. CASE ExecuteLate(s)
    <3>1. sess' = [sess EXCEPT ![s] = Closed(sess[s])] /\ issued' = issued /\ sess[s].state \in Active
      BY <2>5 DEF ExecuteLate, Executing, Active
    <3>2. Sound(s, Closed(sess[s]), issued) /\ Calm(sess[s], Closed(sess[s]))
      BY <1>2, <3>1, ClosedSound
    <3> QED BY <3>1, <3>2
  <2>6. CASE ExecuteReview(s)
    <3> DEFINE q == [sess[s] EXCEPT !.state = "REVIEW_REQUIRED", !.rev = sess[s].rev + 1, !.challenge = None]
    <3>1. /\ sess' = [sess EXCEPT ![s] = q] /\ issued' = issued
          /\ sess[s].state = "CONFIRMED" /\ sess[s].rev < MaxRev
      BY <2>6 DEF ExecuteReview, Executing
    <3>2. Sound(s, q, issued) /\ Calm(sess[s], q)
      BY <1>2, <3>1, ReviewSound
    <3> QED BY <3>1, <3>2
  <2>7. CASE Expire(s)
    <3> DEFINE q == [sess[s] EXCEPT !.late = TRUE]
    <3>1. sess' = [sess EXCEPT ![s] = q] /\ issued' = issued /\ sess[s].state \in Active
      BY <2>7 DEF Expire
    <3>2. Sound(s, q, issued) /\ Calm(sess[s], q)
      BY <1>2, <3>1, LateSound
    <3> QED BY <3>1, <3>2
  <2> QED BY <2>1, <2>2, <2>3, <2>4, <2>5, <2>6, <2>7
<1>4. AllCalm /\ sess' = [t \in Sessions |-> sess'[t]]
  BY <1>1, <1>3, CalmOne
<1>5. Tables'
  BY <1>1, <1>4 DEF WInv, Tables
<1> QED BY <1>1, <1>4, <1>5, CalmInv DEF Live

LEMMA ReapCalm ==
  ASSUME WInv, NEW s \in Sessions, Reap(s)
  PROVE  AllCalm /\ WInv'
<1> DEFINE q == IF Expired(s) THEN Closed(sess[s]) ELSE sess[s]
<1>1. /\ UNCHANGED <<expense, claim, gone, version, usage, ocr, issued>> /\ page' \subseteq page
      /\ sess' = [sess EXCEPT ![s] = q]
  BY DEF Reap, world
<1>2. Sound(s, sess[s], issued)  BY DEF WInv, Rows
<1>3. Sound(s, q, issued) /\ Calm(sess[s], q)
  <2>1. CASE Expired(s)
    BY <1>2, <2>1, ClosedSound DEF Expired
  <2>2. CASE ~Expired(s)
    BY <1>2, <2>2 DEF Calm
  <2> QED BY <2>1, <2>2
<1> HIDE DEF q
<1>4. AllCalm /\ sess' = [t \in Sessions |-> sess'[t]]
  BY <1>1, <1>3, CalmOne
<1>5. Tables'
  BY <1>1, <1>4 DEF WInv, Tables
<1> QED BY <1>1, <1>4, <1>5, CalmInv DEF Live

\* Registrations, revocations, retention dates and the pages of the reaper.
LEMMA OutsideCalm ==
  ASSUME WInv,
         \/ \E e \in External : Register(e)
         \/ \E o \in Scanned : BecomesDue(o)
         \/ Revoke \/ TakePage
  PROVE  AllCalm /\ WInv'
<1>1. UNCHANGED <<sess, claim, gone, issued, usage>>
  BY DEF Register, BecomesDue, Revoke, TakePage, world, retention
<1>2. AllCalm
  BY <1>1 DEF AllCalm, Calm, WInv, Rows
<1>3. /\ \A e \in Created : expense'[e] = expense[e]
      /\ \A e \in Expenses : Live(e) => expense'[e] = "LIVE"
      /\ expense' \in [Expenses -> {"ABSENT", "LIVE", "DELETED"}]
  <2>1. expense \in [Expenses -> {"ABSENT", "LIVE", "DELETED"}]  BY DEF WInv, Tables
  <2>2. CASE expense' = expense  BY <2>1, <2>2 DEF Live, Expenses
  <2>3. ASSUME NEW e \in External, Register(e)
        PROVE  /\ \A c \in Created : expense'[c] = expense[c]
               /\ \A x \in Expenses : Live(x) => expense'[x] = "LIVE"
               /\ expense' \in [Expenses -> {"ABSENT", "LIVE", "DELETED"}]
    <3>1. e \notin Created  BY WorkflowAssumption DEF WorkflowAssumption
    <3> QED BY <2>1, <2>3, <3>1 DEF Register, Live, Expenses
  <2> QED BY <2>2, <2>3 DEF BecomesDue, Revoke, TakePage, world
<1>4. version' \in 0 .. MaxVersion
  <2>1. version \in 0 .. MaxVersion /\ MaxVersion \in Nat
    BY WorkflowAssumption DEF WorkflowAssumption, WInv, Tables
  <2> QED BY <2>1 DEF Register, BecomesDue, Revoke, TakePage
<1>5. ocr' \in [Scanned -> {"HELD", "DUE", "PURGED"}] /\ page' \subseteq Sessions
  BY DEF WInv, Tables, Register, BecomesDue, Revoke, TakePage, retention
<1>6. Tables'
  BY <1>1, <1>3, <1>4, <1>5 DEF WInv, Tables
<1> QED BY <1>1, <1>2, <1>3, <1>6, CalmInv

\* A session that loses lines is sent back; its request, if any, is refused.
LEMMA DeleteCalm ==
  ASSUME WInv, NEW e \in Expenses, Delete(e)
  PROVE  AllCalm /\ WInv'
<1>1. /\ UNCHANGED <<issued, version, usage, ocr, page>> /\ Live(e)
      /\ expense' = [expense EXCEPT ![e] = "DELETED"]
      /\ claim' = [o \in Observations |-> IF o \in ClaimedBy(e) THEN None ELSE claim[o]]
      /\ gone' = gone \cup Disposed(e)
  BY DEF Delete, retention
<1>2. /\ expense \in [Expenses -> {"ABSENT", "LIVE", "DELETED"}] /\ gone \subseteq Observations
      /\ claim \in [Observations -> Expenses \cup {None}] /\ ClaimsAreBooked /\ Bookings
      /\ None \notin Expenses
  BY WorkflowAssumption DEF WorkflowAssumption, WInv, Tables
<1>3. ASSUME NEW t \in Sessions
      PROVE  /\ Sound(t, sess'[t], issued') /\ Calm(sess[t], sess'[t])
             /\ sess'[t].scope \cap Disposed(e) = {}
  <2>1. Sound(t, sess[t], issued)  BY DEF WInv, Rows
  <2>2. sess'[t] = IF sess[t].state \notin Active THEN sess[t]
                   ELSE IF sess[t].docs \cap Retired(e) # {} THEN Without(sess[t], sess[t].scope)
                   ELSE IF sess[t].scope \cap Disposed(e) # {} THEN Without(sess[t], Disposed(e))
                   ELSE sess[t]
    BY DEF Delete
  <2>3. CASE sess'[t] = sess[t] /\ sess[t].scope \cap Disposed(e) = {}
    BY <1>1, <2>1, <2>3 DEF Calm
  <2>4. ASSUME NEW lost, sess[t].state \in Active, sess'[t] = Without(sess[t], lost),
               (sess[t].scope \ lost) \cap Disposed(e) = {}
        PROVE  /\ Sound(t, sess'[t], issued') /\ Calm(sess[t], sess'[t])
               /\ sess'[t].scope \cap Disposed(e) = {}
    <3>1. /\ Sound(t, Without(sess[t], lost), issued) /\ Calm(sess[t], Without(sess[t], lost))
          /\ Without(sess[t], lost).scope = sess[t].scope \ lost
      BY <2>1, <2>4, WithoutSound
    <3> QED BY <1>1, <2>4, <3>1
  <2>5. CASE sess[t].state \notin Active
    <3>1. sess[t].scope = {}  BY <2>1, <2>5 DEF Sound
    <3> QED BY <2>2, <2>3, <2>5, <3>1
  <2>6. CASE sess[t].state \in Active /\ sess[t].docs \cap Retired(e) # {}
    BY <2>2, <2>4, <2>6
  <2>7. CASE sess[t].state \in Active /\ sess[t].docs \cap Retired(e) = {}
    BY <2>2, <2>3, <2>4, <2>7
  <2> QED BY <2>5, <2>6, <2>7
<1>4. AllCalm  BY <1>3 DEF AllCalm
<1>5. OneSession'  BY <1>4, CalmKeeps
<1>6. Rows'
  BY <1>1, <1>3, <1>4, CalmKeeps DEF Rows, WInv
<1>7. Tables'
  <2>1. Disposed(e) \subseteq Observations  BY DEF Disposed, ClaimedBy, Held
  <2>2. sess' = [t \in Sessions |-> sess'[t]]  BY DEF Delete
  <2> QED BY <1>1, <1>2, <2>1, <2>2 DEF WInv, Tables
<1>8. Bookings'
  <2>1. ASSUME NEW s \in Sessions, NEW o \in Observations, Present(<<s, o>>)'
        PROVE  (sess[s].state = "APPLIED" /\ (claim[o] = <<s, o>> \/ o \in gone))'
    <3>1. <<s, o>> \in Expenses  BY DEF Created, Expenses
    <3>2. Present(<<s, o>>)
      BY <1>1, <1>2, <2>1, <3>1 DEF Present, Live
    <3>3. sess[s].state = "APPLIED" /\ (claim[o] = <<s, o>> \/ o \in gone)
      BY <1>2, <3>2 DEF Bookings
    <3>4. sess'[s].state = "APPLIED"  BY <1>4, <3>3, CalmKeeps
    <3>5. claim'[o] = <<s, o>> \/ o \in gone'
      BY <1>1, <3>3 DEF ClaimedBy, Disposed
    <3> QED BY <3>4, <3>5
  <2> QED BY <2>1 DEF Bookings
<1>9. ClaimsAreBooked'
  <2>1. ASSUME NEW o \in Observations, claim'[o] # None
        PROVE  /\ o \notin gone' /\ expense'[claim'[o]] = "LIVE"
               /\ \E s \in Sessions : /\ sess'[s].state = "APPLIED" /\ o \in DOMAIN sess'[s].receipt
                                      /\ sess'[s].receipt[o] = claim'[o]
    <3>1. o \notin ClaimedBy(e) /\ claim'[o] = claim[o] /\ claim[o] # None
      BY <1>1, <2>1
    <3>2. claim[o] # e /\ claim[o] \in Expenses
      BY <1>2, <3>1 DEF ClaimedBy
    <3>3. /\ o \notin gone /\ Live(claim[o])
          /\ \E s \in Sessions : /\ sess[s].state = "APPLIED" /\ o \in DOMAIN sess[s].receipt
                                 /\ sess[s].receipt[o] = claim[o]
      BY <1>2, <3>1 DEF ClaimsAreBooked, Unclaimed
    <3>4. o \notin Disposed(e)
      <4>1. DocOf[o] \notin Retired(e)
        BY <3>1, <3>2 DEF Retired
      <4> QED BY <3>1, <4>1 DEF Disposed, Held
    <3>5. expense'[claim'[o]] = "LIVE"
      BY <1>1, <1>2, <3>1, <3>2, <3>3 DEF Live
    <3>6. o \notin gone'  BY <1>1, <3>3, <3>4
    <3> QED BY <1>4, <3>1, <3>3, <3>5, <3>6, CalmKeeps
  <2> QED BY <2>1 DEF ClaimsAreBooked, Unclaimed, Live
<1> QED BY <1>4, <1>5, <1>6, <1>7, <1>8, <1>9 DEF WInv

LEMMA RetentionCalm ==
  ASSUME WInv, NEW s \in Sessions, RetentionEnds(s)
  PROVE  AllCalm /\ WInv'
<1> DEFINE lost == {o \in Due(s) : Unclaimed(o)}
<1>1. /\ UNCHANGED <<expense, claim, issued, version, usage, page>> /\ gone' = gone \cup lost
      /\ ocr' = [o \in Scanned |-> IF o \in Due(s) THEN "PURGED" ELSE ocr[o]]
  BY DEF RetentionEnds
<1>2. lost \subseteq Due(s) /\ Due(s) \subseteq Observations
  BY WorkflowAssumption DEF WorkflowAssumption, Due
<1>3. ASSUME NEW t \in Sessions
      PROVE  /\ Sound(t, sess'[t], issued') /\ Calm(sess[t], sess'[t])
             /\ sess'[t].scope \cap lost = {}
  <2>1. Sound(t, sess[t], issued)  BY DEF WInv, Rows
  <2>2. sess'[t] = IF sess[t].state \notin Active THEN sess[t]
                   ELSE IF t = s THEN Without(sess[t], Due(s))
                   ELSE IF sess[t].scope \cap lost # {} THEN Without(sess[t], lost)
                   ELSE sess[t]
    BY DEF RetentionEnds
  <2> HIDE DEF lost
  <2>3. CASE sess'[t] = sess[t] /\ sess[t].scope \cap lost = {}
    BY <1>1, <2>1, <2>3 DEF Calm
  <2>4. ASSUME NEW L, sess[t].state \in Active, sess'[t] = Without(sess[t], L), lost \subseteq L
        PROVE  /\ Sound(t, sess'[t], issued') /\ Calm(sess[t], sess'[t])
               /\ sess'[t].scope \cap lost = {}
    <3>1. /\ Sound(t, Without(sess[t], L), issued) /\ Calm(sess[t], Without(sess[t], L))
          /\ Without(sess[t], L).scope = sess[t].scope \ L
      BY <2>1, <2>4, WithoutSound
    <3> QED BY <1>1, <2>4, <3>1
  <2>5. CASE sess[t].state \notin Active
    <3>1. sess[t].scope = {}  BY <2>1, <2>5 DEF Sound
    <3> QED BY <2>2, <2>3, <2>5, <3>1
  <2>6. CASE sess[t].state \in Active /\ t = s
    BY <1>2, <2>2, <2>4, <2>6
  <2>7. CASE sess[t].state \in Active /\ t # s
    BY <2>2, <2>3, <2>4, <2>7
  <2> QED BY <2>5, <2>6, <2>7
<1>4. AllCalm  BY <1>3 DEF AllCalm
<1>5. OneSession'  BY <1>4, CalmKeeps
<1>6. Rows'
  <2> HIDE DEF lost
  <2> QED BY <1>1, <1>3, <1>4, CalmKeeps DEF Rows, WInv
<1>7. Tables'
  <2>1. sess' = [t \in Sessions |-> sess'[t]]  BY DEF RetentionEnds
  <2> QED BY <1>1, <1>2, <2>1 DEF WInv, Tables
<1>8. Bookings'
  BY <1>1, <1>4, CalmKeeps DEF WInv, Bookings, Present
<1>9. ClaimsAreBooked'
  BY <1>1, <1>4, CalmKeeps DEF WInv, ClaimsAreBooked, Unclaimed, Live
<1> QED BY <1>4, <1>5, <1>6, <1>7, <1>8, <1>9 DEF WInv

----------------------------------------------------------------------------
(* The confirmation and the booking.                                       *)

LEMMA ConfirmInv ==
  ASSUME WInv, NEW s \in Sessions, NEW f \in FinIds, Confirm(s, f)
  PROVE  WInv'
<1>1. PICK q : /\ sess' = [sess EXCEPT ![s] = q] /\ Sound(s, q, issued)
               /\ q.state = "CONFIRMED" /\ q.req = f /\ q.scope = sess[s].scope
  BY ConfirmRow
<1>2. UNCHANGED <<expense, claim, gone, issued, version, usage, ocr, page>>
  BY DEF Confirm, world, retention
<1>3. /\ sess = [t \in Sessions |-> sess[t]] /\ sess'[s] = q /\ sess' = [t \in Sessions |-> sess'[t]]
      /\ \A t \in Sessions : t # s => sess'[t] = sess[t]
  <2>1. sess = [t \in Sessions |-> sess[t]]  BY DEF WInv, Tables
  <2> QED BY <1>1, <2>1
<1>4. Tables'  BY <1>2, <1>3 DEF WInv, Tables
<1>5. Rows'  BY <1>1, <1>2, <1>3 DEF WInv, Rows
<1>6. sess[s].state # "APPLIED"  BY DEF Confirm, Ready
<1>7. OneSession'
  <2>1. \A t \in Sessions : sess[t].req # f  BY DEF Confirm, Unused
  <2> QED BY <1>1, <1>3, <2>1 DEF WInv, OneSession
<1>8. Bookings'
  BY <1>2, <1>3, <1>6 DEF WInv, Bookings, Present
<1>9. ClaimsAreBooked'
  BY <1>2, <1>3, <1>6 DEF WInv, ClaimsAreBooked, Unclaimed, Live
<1> QED BY <1>4, <1>5, <1>7, <1>8, <1>9 DEF WInv

\* What is booked for a line that settles is an expense of this session that is not
\* there yet, or one that is.
LEMMA BookingOf ==
  ASSUME WInv, NEW s \in Sessions, StillAsConfirmed(s), NEW o \in sess[s].sel
  PROVE  /\ o \in Observations /\ o \notin gone /\ claim[o] = None
         /\ \/ Booking(s)[o] = <<s, o>> /\ sess[s].dec[o].do \in Creates /\ CreateSettles(o, sess[s].dec[o].do)
            \/ /\ Booking(s)[o] = sess[s].dec[o].of /\ sess[s].dec[o].do = "KEEP"
               /\ Booking(s)[o] \in Created /\ Live(Booking(s)[o])
<1>1. Sound(s, sess[s], issued) /\ sess[s].scope \cap gone = {}  BY DEF WInv, Rows
<1>2. o \in Observations /\ o \notin gone  BY <1>1 DEF Sound
<1>3. claim[o] = None  BY DEF StillAsConfirmed, Bindable, Unclaimed
<1>4. Settles(o, sess[s].dec[o])  BY DEF StillAsConfirmed, IsReady, Questions
<1>5. Booking(s)[o] = IF sess[s].dec[o].do = "KEEP" THEN sess[s].dec[o].of ELSE <<s, o>>
  BY DEF Booking
<1>6. CASE sess[s].dec[o].do \in Creates /\ CreateSettles(o, sess[s].dec[o].do)
  BY <1>2, <1>3, <1>5, <1>6 DEF Creates
<1>7. CASE sess[s].dec[o].do = "KEEP" /\ KeepSettles(o, sess[s].dec[o].of)
  BY <1>2, <1>3, <1>5, <1>7 DEF KeepSettles
<1> QED BY <1>4, <1>6, <1>7 DEF Settles

LEMMA AppliedSound ==
  ASSUME WInv, NEW s \in Sessions, sess[s].state = "CONFIRMED", sess[s].rev < MaxRev
  PROVE  Sound(s, Applied(s), issued)
<1> DEFINE q == Applied(s)
<1>1. Sound(s, sess[s], issued)  BY DEF WInv, Rows
<1>2. /\ IsRow(q) /\ q.state = "APPLIED" /\ q.rev = sess[s].rev + 1 /\ q.req = sess[s].req
      /\ q.scope = {} /\ q.sel = {} /\ q.asked = {} /\ q.dec = Undecided
      /\ q.proposal = None /\ q.challenge = None
  BY <1>1, AppliedRow DEF Sound
<1>3. q.rev \in 0 .. MaxRev  BY <1>1, <1>2, WorkflowAssumption DEF WorkflowAssumption, Sound
<1> HIDE DEF q
<1>4. Sound(s, q, issued)
  BY <1>1, <1>2, <1>3, UndecidedType DEF Sound, States, Active, Editing
<1> QED BY <1>4 DEF q

LEMMA ContinuationSound ==
  ASSUME WInv, NEW s \in Sessions, NEW c
  PROVE  /\ Sound(c, Continuation(s), issued) /\ Continuation(s).scope \subseteq sess[s].scope
         /\ Continuation(s).req = None /\ Continuation(s).state = "DRAFT"
<1> DEFINE q == Continuation(s)
<1>1. Sound(s, sess[s], issued)  BY DEF WInv, Rows
<1>2. /\ IsRow(q) /\ q.state = "DRAFT" /\ q.rev = 1 /\ q.req = None
      /\ q.scope = Deferred(s) /\ q.sel = Deferred(s) \ Scanned /\ q.asked = sess[s].asked \cap Deferred(s)
      /\ q.dec = [o \in Observations |-> IF o \in Deferred(s) THEN sess[s].dec[o] ELSE Undecided[o]]
      /\ q.proposal = None /\ q.challenge = None
  BY ContinuationRow
<1>3. Deferred(s) \subseteq sess[s].scope  BY DEF Deferred
<1>4. q.dec \in [Observations -> Decisions]  BY <1>1, <1>2, UndecidedType DEF Sound
<1>5. 1 \in 0 .. MaxRev  BY WorkflowAssumption DEF WorkflowAssumption
<1> HIDE DEF q
<1>6. Sound(c, q, issued)
  BY <1>1, <1>2, <1>3, <1>4, <1>5 DEF Sound, States, Active, Editing
<1> QED BY <1>2, <1>3, <1>6 DEF q

\* The rows after a booking: the applied session, perhaps one continuation, and the rest.
LEMMA ApplyRows ==
  ASSUME WInv, NEW s \in Sessions, ExecuteApply(s)
  PROVE  /\ sess' = [t \in Sessions |-> sess'[t]] /\ sess'[s] = Applied(s)
         /\ \A t \in Sessions \ {s} :
              sess'[t] = sess[t] \/ (sess[t].state = "NONE" /\ sess'[t] = Continuation(s))
         /\ usage' \in [Scanned -> Sessions \cup {None}]
<1>1. sess = [t \in Sessions |-> sess[t]] /\ usage \in [Scanned -> Sessions \cup {None}]
  BY DEF WInv, Tables
<1>2. CASE Deferred(s) = {}
  <2>1. sess' = [sess EXCEPT ![s] = Applied(s)] /\ usage' = usage
    BY <1>2 DEF ExecuteApply
  <2> QED BY <1>1, <2>1
<1>3. CASE Deferred(s) # {}
  <2>1. PICK c \in Continuations :
          /\ sess[c].state = "NONE"
          /\ sess' = [sess EXCEPT ![s] = Applied(s), ![c] = Continuation(s)]
          /\ usage' = [o \in Scanned |-> IF usage[o] = s /\ DocOf[o] \in Continuation(s).docs
                                         THEN c ELSE usage[o]]
    BY <1>3 DEF ExecuteApply
  <2>2. c \in Sessions /\ c # s
    BY <2>1 DEF Sessions, ExecuteApply, Executing
  <2>3. /\ sess' = [t \in Sessions |-> sess'[t]] /\ sess'[s] = Applied(s) /\ sess'[c] = Continuation(s)
        /\ \A t \in Sessions : t # s /\ t # c => sess'[t] = sess[t]
    BY <1>1, <2>1, <2>2
  <2>4. usage' \in [Scanned -> Sessions \cup {None}]
    BY <1>1, <2>1, <2>2
  <2> QED BY <2>1, <2>3, <2>4
<1> QED BY <1>2, <1>3

LEMMA ApplyInv ==
  ASSUME WInv, NEW s \in Sessions, ExecuteApply(s)
  PROVE  WInv'
<1> DEFINE made == Booking(s)
           r == sess[s]
<1>1. /\ r.state = "CONFIRMED" /\ r.rev < MaxRev /\ StillAsConfirmed(s)
      /\ UNCHANGED <<gone, issued, version, ocr, page>>
      /\ expense' = [e \in Expenses |->
                       IF \E o \in r.sel : made[o] = <<s, o>> /\ e = <<s, o>> THEN "LIVE" ELSE expense[e]]
      /\ claim' = [o \in Observations |-> IF o \in r.sel THEN made[o] ELSE claim[o]]
  BY DEF ExecuteApply, Executing
<1>2. /\ sess' = [t \in Sessions |-> sess'[t]] /\ sess'[s] = Applied(s)
      /\ \A t \in Sessions \ {s} :
           sess'[t] = sess[t] \/ (sess[t].state = "NONE" /\ sess'[t] = Continuation(s))
      /\ usage' \in [Scanned -> Sessions \cup {None}]
  BY ApplyRows
<1>3. /\ Sound(s, r, issued) /\ r.scope \cap gone = {} /\ None \notin Expenses
      /\ expense \in [Expenses -> {"ABSENT", "LIVE", "DELETED"}]
      /\ claim \in [Observations -> Expenses \cup {None}]
  BY WorkflowAssumption DEF WorkflowAssumption, WInv, Rows, Tables
<1>4. ASSUME NEW o \in r.sel
      PROVE  /\ o \in Observations /\ o \notin gone /\ claim[o] = None
             /\ made[o] = <<s, o>> \/ (made[o] \in Created /\ Live(made[o]))
  BY <1>1, <1>4, BookingOf
<1>5. /\ Applied(s).state = "APPLIED" /\ Applied(s).receipt = made /\ Applied(s).req = r.req
      /\ Applied(s).scope = {} /\ DOMAIN made = r.sel
  BY <1>3, AppliedRow DEF Sound, Booking
<1> HIDE DEF made
<1>6. ASSUME NEW t \in Sessions, sess[t].state = "APPLIED" PROVE t # s /\ sess'[t] = sess[t]
  BY <1>1, <1>2, <1>6
<1>7. Tables'
  <2>1. expense' \in [Expenses -> {"ABSENT", "LIVE", "DELETED"}]
    BY <1>1, <1>3
  <2>2. ASSUME NEW o \in r.sel PROVE made[o] \in Expenses
    BY <1>4, <2>2 DEF Expenses, Created
  <2>3. claim' \in [Observations -> Expenses \cup {None}]
    BY <1>1, <1>3, <2>2
  <2> QED BY <1>1, <1>2, <2>1, <2>3 DEF WInv, Tables
<1>8. Rows'
  <2>1. ASSUME NEW t \in Sessions PROVE Sound(t, sess'[t], issued) /\ sess'[t].scope \cap gone = {}
    <3>1. CASE t = s
      BY <1>1, <1>2, <1>5, <3>1, AppliedSound
    <3>2. CASE t # s /\ sess'[t] = sess[t]
      BY <3>2 DEF WInv, Rows
    <3>3. CASE t # s /\ sess'[t] = Continuation(s)
      BY <1>3, <3>3, ContinuationSound
    <3> QED BY <1>2, <3>1, <3>2, <3>3
  <2> QED BY <1>1, <2>1 DEF Rows
<1>9. OneSession'
  <2>1. ASSUME NEW t \in Sessions PROVE sess'[t].req = sess[t].req
    <3>1. CASE t = s  BY <1>2, <1>5, <3>1
    <3>2. CASE t # s /\ sess'[t] = sess[t]  BY <3>2
    <3>3. CASE t # s /\ sess[t].state = "NONE" /\ sess'[t] = Continuation(s)
      <4>1. sess[t].req = None  BY <3>3 DEF WInv, Rows, Sound
      <4> QED BY <3>3, <4>1, ContinuationSound
    <3> QED BY <1>2, <3>1, <3>2, <3>3
  <2> QED BY <2>1 DEF WInv, OneSession
<1>10. Bookings'
  <2>1. ASSUME NEW t \in Sessions, NEW o \in Observations, Present(<<t, o>>)'
        PROVE  (sess[t].state = "APPLIED" /\ (claim[o] = <<t, o>> \/ o \in gone))'
    <3>1. <<t, o>> \in Expenses  BY DEF Created, Expenses
    <3>2. CASE Present(<<t, o>>)
      <4>1. sess[t].state = "APPLIED" /\ (claim[o] = <<t, o>> \/ o \in gone)
        BY <3>2 DEF WInv, Bookings
      <4>2. o \in r.sel => o \in gone
        BY <1>3, <1>4, <3>1, <4>1
      <4> QED BY <1>1, <1>4, <1>6, <4>1, <4>2
    <3>3. CASE ~Present(<<t, o>>)
      <4>1. \E l \in r.sel : made[l] = <<s, l>> /\ <<t, o>> = <<s, l>>
        BY <1>1, <2>1, <3>1, <3>3 DEF Present
      <4>2. t = s /\ o \in r.sel /\ made[o] = <<s, o>>
        BY <4>1
      <4> QED BY <1>1, <1>2, <1>5, <4>2
    <3> QED BY <3>2, <3>3
  <2> QED BY <2>1 DEF Bookings
<1>11. ClaimsAreBooked'
  <2>1. ASSUME NEW o \in Observations, claim'[o] # None
        PROVE  /\ o \notin gone' /\ expense'[claim'[o]] = "LIVE"
               /\ \E t \in Sessions : /\ sess'[t].state = "APPLIED" /\ o \in DOMAIN sess'[t].receipt
                                      /\ sess'[t].receipt[o] = claim'[o]
    <3>1. CASE o \in r.sel
      <4>1. claim'[o] = made[o] /\ o \notin gone'
        BY <1>1, <1>4, <3>1
      <4>2. expense'[made[o]] = "LIVE"
        <5>1. CASE made[o] = <<s, o>>
          <6>1. <<s, o>> \in Expenses  BY DEF Created, Expenses
          <6> QED BY <1>1, <3>1, <5>1, <6>1
        <5>2. CASE made[o] \in Created /\ Live(made[o])
          <6>1. made[o] \in Expenses /\ expense[made[o]] = "LIVE"  BY <5>2 DEF Expenses, Live
          <6> QED BY <1>1, <6>1
        <5> QED BY <1>4, <3>1, <5>1, <5>2
      <4>3. sess'[s].state = "APPLIED" /\ o \in DOMAIN sess'[s].receipt /\ sess'[s].receipt[o] = made[o]
        BY <1>2, <1>5, <3>1
      <4> QED BY <4>1, <4>2, <4>3
    <3>2. CASE o \notin r.sel
      <4>1. claim'[o] = claim[o] /\ claim[o] # None  BY <1>1, <2>1, <3>2
      <4>2. /\ o \notin gone /\ Live(claim[o])
            /\ \E t \in Sessions : /\ sess[t].state = "APPLIED" /\ o \in DOMAIN sess[t].receipt
                                   /\ sess[t].receipt[o] = claim[o]
        BY <4>1 DEF WInv, ClaimsAreBooked, Unclaimed
      <4>3. claim[o] \in Expenses /\ expense[claim[o]] = "LIVE"
        BY <1>3, <4>1, <4>2 DEF Live
      <4>4. expense'[claim[o]] = "LIVE"  BY <1>1, <4>3
      <4> QED BY <1>1, <1>6, <4>1, <4>2, <4>4
    <3> QED BY <3>1, <3>2
  <2> QED BY <2>1 DEF ClaimsAreBooked, Unclaimed, Live
<1> QED BY <1>7, <1>8, <1>9, <1>10, <1>11 DEF WInv

----------------------------------------------------------------------------
LEMMA InitWInv == Init => WInv
<1> SUFFICES ASSUME Init PROVE WInv
  OBVIOUS
<1>1. PICK docs \in Openings :
        /\ sess = [s \in Sessions |-> IF s \in Opened THEN Open(docs[s]) ELSE Blank]
        /\ usage \in {u \in [Scanned -> Opened \cup {None}] :
                        \A o \in Scanned : IF Holders(docs, o) = {} THEN u[o] = None
                                            ELSE u[o] \in Holders(docs, o)}
  BY DEF Init
<1>2. /\ expense = [e \in Expenses |-> "ABSENT"] /\ claim = [o \in Observations |-> None]
      /\ gone = {} /\ issued = {} /\ version = 0 /\ ocr = [o \in Scanned |-> "HELD"] /\ page = {}
  BY DEF Init
<1>3. ASSUME NEW s, NEW r, \/ r = Blank
                           \/ \E d : r = Open(d)
      PROVE  Sound(s, r, {}) /\ r.req = None
  <2> DEFINE Fresh == /\ IsRow(r) /\ r.state \in {"NONE", "DRAFT"} /\ r.rev \in {0, 1} /\ r.req = None
                      /\ r.scope \subseteq Observations /\ (r.state = "NONE" => r.scope = {})
                      /\ r.sel = {} /\ r.asked = {} /\ r.dec = Undecided
                      /\ r.proposal = None /\ r.challenge = None
  <2>1. Fresh
    <3>1. CASE r = Blank  BY <3>1, BlankRow
    <3>2. CASE \E d : r = Open(d)
      <4>1. PICK d : r = Open(d)  BY <3>2
      <4>2. UNION {Held(doc) : doc \in d} \subseteq Observations  BY DEF Held
      <4> QED BY <4>1, <4>2, OpenRow
    <3> QED BY <1>3, <3>1, <3>2
  <2>2. r.rev \in 0 .. MaxRev  BY <2>1, WorkflowAssumption DEF WorkflowAssumption
  <2> QED BY <2>1, <2>2, UndecidedType DEF Sound, States, Active, Editing
<1>4. Rows /\ OneSession
  <2>1. ASSUME NEW s \in Sessions PROVE Sound(s, sess[s], {}) /\ sess[s].req = None
    BY <1>1, <1>3
  <2> QED BY <1>2, <2>1 DEF Rows, OneSession
<1>5. Tables
  BY <1>1, <1>2, WorkflowAssumption DEF Tables, Sessions, WorkflowAssumption
<1>6. Bookings
  BY <1>2 DEF Bookings, Present, Created, Expenses
<1>7. ClaimsAreBooked
  BY <1>2 DEF ClaimsAreBooked, Unclaimed
<1> QED BY <1>4, <1>5, <1>6, <1>7 DEF WInv

\* Every step but a confirmation and a booking is calm.
LEMMA StepWInv ==
  ASSUME WInv, [Next]_vars
  PROVE  /\ WInv'
         /\ AllCalm \/ \E s \in Sessions : ExecuteApply(s) \/ \E f \in FinIds : Confirm(s, f)
<1>1. CASE UNCHANGED vars
  <2>1. UNCHANGED <<sess, expense, claim, gone, issued, version, usage, ocr, page>>
    BY <1>1 DEF vars, world, retention
  <2>2. AllCalm  BY <2>1 DEF WInv, Rows, AllCalm, Calm
  <2>3. Tables'  BY <2>1 DEF WInv, Tables
  <2> QED BY <2>1, <2>2, <2>3, CalmInv DEF Live
<1>2. ASSUME NEW s \in Sessions, Person(s) \/ Expire(s) \/ RetentionEnds(s)
      PROVE  WInv' /\ (AllCalm \/ ExecuteApply(s) \/ \E f \in FinIds : Confirm(s, f))
  BY <1>2, RequestCalm, RetentionCalm, ApplyInv, ConfirmInv DEF Person, Execute
<1>3. ASSUME NEW e \in Expenses, Delete(e) PROVE WInv' /\ AllCalm
  BY <1>3, DeleteCalm
<1>4. CASE Reaper
  BY <1>4, ReapCalm, OutsideCalm DEF Reaper
<1>5. CASE (\E e \in External : Register(e)) \/ (\E o \in Scanned : BecomesDue(o)) \/ Revoke
  BY <1>5, OutsideCalm
<1> QED
  BY <1>1, <1>2, <1>3, <1>4, <1>5 DEF Next

\* Drafts, bookings and claims agree after every deletion, expiry and purge: a
\* claimed line is one that a session has booked, and its expense is still there
\* (executeImportSession and the triggers of expenses and import_observations).
THEOREM ClaimsStaySound == Spec => []ClaimsAreSound
<1>1. WInv => ClaimsAreSound
  <2> SUFFICES ASSUME WInv PROVE ClaimsAreSound
    OBVIOUS
  <2>1. ASSUME NEW s \in Sessions
        PROVE  /\ sess[s].state \in States /\ sess[s].rev \in 0 .. MaxRev
               /\ sess[s].sel \subseteq sess[s].scope /\ sess[s].asked \subseteq sess[s].scope
               /\ sess[s].scope \subseteq Observations \ gone
               /\ \A o \in Observations : sess[s].dec[o] \in Decisions
               /\ sess[s].req \in FinIds \cup {None} /\ sess[s].challenge \in issued \cup {None}
    BY DEF WInv, Rows, Sound
  <2> QED BY <2>1 DEF WInv, Tables, TypeOK, ClaimsAreSound
<1> QED
  BY <1>1, InitWInv, StepWInv, PTL DEF Spec

----------------------------------------------------------------------------
(* What a booking does to the expenses.                                    *)

\* Only an execution creates the expense of a line; a deletion leaves its row.
LEMMA Lasting ==
  ASSUME WInv, [Next]_vars
  PROVE  \/ \A c \in Created : (Present(c))' <=> Present(c)
         \/ \E s \in Sessions : ExecuteApply(s)
<1>1. \/ UNCHANGED expense
      \/ \E e \in External : Register(e)
      \/ \E e \in Expenses : Delete(e)
      \/ \E s \in Sessions : ExecuteApply(s)
  BY DEF Next, vars, world, retention, Person, Execute, Edit, Prepare, Challenge, Cancel, Confirm,
         ExecuteLate, ExecuteReview, Expire, RetentionEnds, BecomesDue, Revoke, Reaper, TakePage, Reap
<1>2. expense \in [Expenses -> {"ABSENT", "LIVE", "DELETED"}] /\ Created \subseteq Expenses
  BY DEF WInv, Tables, Expenses
<1>3. CASE UNCHANGED expense
  BY <1>3 DEF Present
<1>4. ASSUME NEW e \in External, Register(e) PROVE \A c \in Created : (Present(c))' <=> Present(c)
  <2>1. e \notin Created  BY WorkflowAssumption DEF WorkflowAssumption
  <2> QED BY <1>2, <1>4, <2>1 DEF Register, Present
<1>5. ASSUME NEW e \in Expenses, Delete(e) PROVE \A c \in Created : (Present(c))' <=> Present(c)
  BY <1>2, <1>5 DEF Delete, Present, Live
<1> QED BY <1>1, <1>3, <1>4, <1>5

LEMMA OnlyAnExecutionApplies ==
  ASSUME WInv, [Next]_vars, NEW s \in Sessions, Applies(s)
  PROVE  ExecuteApply(s)
<1>1. ~AllCalm  BY DEF AllCalm, Calm, Applies
<1>2. ASSUME NEW t \in Sessions, NEW f \in FinIds, Confirm(t, f) PROVE FALSE
  <2>1. PICK q : sess' = [sess EXCEPT ![t] = q] /\ q.state = "CONFIRMED"
    BY <1>2, ConfirmRow
  <2>2. sess = [u \in Sessions |-> sess[u]]  BY DEF WInv, Tables
  <2> QED BY <2>1, <2>2 DEF Applies
<1>3. ASSUME NEW t \in Sessions, ExecuteApply(t), t # s PROVE FALSE
  <2>1. sess'[s] = sess[s] \/ sess'[s] = Continuation(t)
    BY <1>3, ApplyRows
  <2>2. Continuation(t).state = "DRAFT"  BY ContinuationRow
  <2> QED BY <2>1, <2>2 DEF Applies
<1> QED BY <1>1, <1>2, <1>3, StepWInv

\* The booking is the proposal of the page whose challenge was confirmed.
LEMMA BookedStep ==
  ASSUME WInv, NEW s \in Sessions, ExecuteApply(s)
  PROVE  WasShown(s)
<1> DEFINE r == sess[s]
<1>1. /\ r.state = "CONFIRMED" /\ r.cver = version
      /\ Proposal(s, r.crev) = r.proposal /\ Facts(s) = r.seen
  BY DEF ExecuteApply, Executing, StillAsConfirmed
<1>2. PICK i \in issued : Shows(i, s, r) /\ i.rev = r.crev /\ i.ver = r.cver
  BY <1>1 DEF WInv, Rows, Sound
<1>3. sess'[s] = Applied(s) /\ Applied(s).receipt = Booking(s)
  <2>1. IsRow(sess[s])  BY DEF WInv, Rows, Sound
  <2> QED BY <2>1, ApplyRows, AppliedRow
<1>4. i.proposal.lines = [o \in r.sel |-> r.dec[o]]
  BY <1>1, <1>2 DEF Shows, Proposal
<1>5. DOMAIN Booking(s) = r.sel
  BY DEF Booking
<1>6. ASSUME NEW o \in r.sel
      PROVE  Booking(s)[o] =
               IF i.proposal.lines[o].do = "KEEP" THEN i.proposal.lines[o].of ELSE <<s, o>>
  BY <1>4, <1>6 DEF Booking
<1>7. DOMAIN i.proposal.lines = r.sel  BY <1>4
<1>8. /\ i.sess = s /\ i.ver = version /\ i.rev = r.crev /\ i.seen = Facts(s)
  BY <1>1, <1>2 DEF Shows
<1>9. \A o \in DOMAIN i.proposal.lines :
        sess'[s].receipt[o] = IF i.proposal.lines[o].do = "KEEP" THEN i.proposal.lines[o].of ELSE <<s, o>>
  BY <1>3, <1>6, <1>7
<1>10. DOMAIN sess'[s].receipt = DOMAIN i.proposal.lines
  BY <1>3, <1>5, <1>7
<1> QED BY <1>8, <1>9, <1>10 DEF WasShown

\* Nothing is booked that was not shown: the page whose challenge was confirmed had
\* the decisions, claims and matches that hold when the lines are booked, and the
\* login has not been revoked in between (challenge, confirm and execute).
THEOREM BookingsWereShown == Spec => BookedAsShown
<1>1. WInv /\ [Next]_vars => [\A s \in Sessions : Applies(s) => WasShown(s)]_vars
  <2> SUFFICES ASSUME WInv, [Next]_vars PROVE \A s \in Sessions : Applies(s) => WasShown(s)
    OBVIOUS
  <2> QED BY OnlyAnExecutionApplies, BookedStep
<1> QED BY <1>1, InitWInv, StepWInv, PTL DEF Spec, BookedAsShown

\* The expense of a line is created by the execution of its session, of a line
\* whose decision settles.
LEMMA CreatedStep ==
  ASSUME WInv, [Next]_vars, NEW s \in Sessions, NEW o \in Observations, Creation(s, o)
  PROVE  CreateSettles(o, sess[s].dec[o].do)
<1>1. <<s, o>> \in Created /\ <<s, o>> \in Expenses  BY DEF Created, Expenses
<1>2. PICK t \in Sessions : ExecuteApply(t)
  BY <1>1, Lasting DEF Creation, Present
<1> DEFINE made == Booking(t)
<1>3. /\ StillAsConfirmed(t)
      /\ expense' = [e \in Expenses |->
                       IF \E l \in sess[t].sel : made[l] = <<t, l>> /\ e = <<t, l>> THEN "LIVE" ELSE expense[e]]
  BY <1>2 DEF ExecuteApply
<1> HIDE DEF made
<1>4. PICK l \in sess[t].sel : made[l] = <<t, l>> /\ <<s, o>> = <<t, l>>
  BY <1>1, <1>3 DEF Creation
<1>5. t = s /\ l = o  BY <1>4
<1>6. ~Live(made[o])  BY <1>4, <1>5 DEF Creation, Live
<1> QED BY <1>3, <1>4, <1>5, <1>6, BookingOf DEF made

\* A line is never booked as a new expense beside one that the application could
\* recognise: not beside an installment family, a deleted match or a strong identity
\* key, and beside a natural key only where the person accepted it (the preparation
\* and the matching that the execution repeats).
THEOREM NothingIsBookedTwice == Spec => NoSilentDuplicates
<1> DEFINE Recognised(s, o) ==
      \A e \in Expenses :
         Present(e) /\ PurchaseAt(e) = PurchaseOf[o] =>
           /\ PurchaseOf[o] \notin Installments
           /\ Key(e) # "STRONG"
           /\ Key(e) = "NATURAL" => Live(e) /\ sess[s].dec[o].do = "ANYWAY"
<1>1. WInv /\ [Next]_vars =>
        [\A s \in Sessions, o \in Observations : Creation(s, o) => Recognised(s, o)]_vars
  <2> SUFFICES ASSUME WInv, [Next]_vars, NEW s \in Sessions, NEW o \in Observations, Creation(s, o)
               PROVE  Recognised(s, o)
    OBVIOUS
  <2>1. CreateSettles(o, sess[s].dec[o].do)  BY CreatedStep
  <2>2. ASSUME NEW e \in Expenses, Present(e), PurchaseAt(e) = PurchaseOf[o]
        PROVE  /\ PurchaseOf[o] \notin Installments
               /\ Key(e) # "STRONG"
               /\ Key(e) = "NATURAL" => Live(e) /\ sess[s].dec[o].do = "ANYWAY"
    <3>1. PurchaseOf[o] \notin Installments
      BY <2>1, <2>2 DEF CreateSettles, Kin
    <3>2. Key(e) \in {"STRONG", "NATURAL"} => e \in Keyed(o)
      BY <2>2 DEF Key, Keyed
    <3> QED BY <2>1, <3>1, <3>2 DEF CreateSettles
  <2> QED BY <2>2
<1> QED BY <1>1, InitWInv, StepWInv, PTL DEF Spec, NoSilentDuplicates

----------------------------------------------------------------------------
(* The sessions implement what is promised of a financial request.         *)

\* What a row makes of its request, and the lines it books.
RowStatus(r) ==
  CASE r.state = "CONFIRMED" -> "CONFIRMED" [] r.state = "APPLIED" -> "APPLIED" [] OTHER -> "REFUSED"
RowLines(s, r) ==
  CASE r.state = "CONFIRMED" -> CreatesIn(r.proposal.lines)
    [] r.state = "APPLIED" -> {o \in DOMAIN r.receipt : r.receipt[o] = <<s, o>>}
    [] OTHER -> {}

\* The request of session s alone.
LEMMA OneRow ==
  ASSUME NEW f \in FinIds, NEW s \in Sessions, OfRequest(f) = {s}
  PROVE  RequestStatus[f] = RowStatus(sess[s]) /\ RequestContent[f] = RowLines(s, sess[s])
<1>1. RequestStatus[f] = RowStatus(sess[s])
  BY DEF RequestStatus, RowStatus
<1>2. LinesOf(s) = RowLines(s, sess[s])
  BY DEF LinesOf, RowLines
<1>3. RequestContent[f] = UNION {LinesOf(t) : t \in OfRequest(f)}
  BY DEF RequestContent
<1>4. UNION {LinesOf(t) : t \in {s}} = LinesOf(s)
  OBVIOUS
<1> QED BY <1>1, <1>2, <1>3, <1>4

LEMMA OneRowNext ==
  ASSUME NEW f \in FinIds, NEW s \in Sessions, OfRequest(f)' = {s}
  PROVE  RequestStatus'[f] = RowStatus(sess'[s]) /\ RequestContent'[f] = RowLines(s, sess'[s])
<1>1. RequestStatus'[f] = RowStatus(sess'[s])
  BY DEF RequestStatus, RowStatus
<1>2. LinesOf(s)' = RowLines(s, sess'[s])
  BY DEF LinesOf, RowLines
<1>3. RequestContent'[f] = UNION {LinesOf(t)' : t \in OfRequest(f)'}
  BY DEF RequestContent
<1>4. UNION {LinesOf(t)' : t \in {s}} = LinesOf(s)'
  OBVIOUS
<1> QED BY <1>1, <1>2, <1>3, <1>4

LEMMA NoRow ==
  ASSUME NEW f \in FinIds
  PROVE  /\ OfRequest(f) = {} => RequestStatus[f] = "UNKNOWN" /\ RequestContent[f] = {}
         /\ OfRequest(f)' = {} => RequestStatus'[f] = "UNKNOWN" /\ RequestContent'[f] = {}
BY DEF RequestStatus, RequestContent

LEMMA AtMostOne ==
  ASSUME OneSession, NEW f \in FinIds
  PROVE  OfRequest(f) = {} \/ \E s \in Sessions : OfRequest(f) = {s} /\ sess[s].req = f
<1>1. CASE OfRequest(f) # {}
  <2>1. PICK s \in Sessions : sess[s].req = f  BY <1>1 DEF OfRequest
  <2>2. f # None  BY WorkflowAssumption DEF WorkflowAssumption
  <2>3. \A t \in OfRequest(f) : t = s  BY <2>1, <2>2 DEF OneSession, OfRequest
  <2>4. s \in OfRequest(f)  BY <2>1 DEF OfRequest
  <2> QED BY <2>1, <2>3, <2>4
<1> QED BY <1>1

\* The two tables are functions of the requests.
LEMMA RequestTables ==
  /\ RequestStatus = [f \in FinIds |-> RequestStatus[f]]
  /\ RequestContent = [f \in FinIds |-> RequestContent[f]]
  /\ RequestStatus' = [f \in FinIds |-> RequestStatus'[f]]
  /\ RequestContent' = [f \in FinIds |-> RequestContent'[f]]
BY DEF RequestStatus, RequestContent

LEMMA InitRequests == Init => Requests!Init
<1> SUFFICES ASSUME Init PROVE Requests!Init
  OBVIOUS
<1>1. \A s \in Sessions : sess[s].req = None
  <2>1. PICK docs \in Openings : sess = [s \in Sessions |-> IF s \in Opened THEN Open(docs[s]) ELSE Blank]
    BY DEF Init
  <2> QED BY <2>1, BlankRow, OpenRow
<1>2. \A f \in FinIds : OfRequest(f) = {}
  BY <1>1, WorkflowAssumption DEF WorkflowAssumption, OfRequest
<1>3. \A f \in FinIds : RequestStatus[f] = "UNKNOWN" /\ RequestContent[f] = {}
  BY <1>2, NoRow
<1>4. \A e \in Created : ~Present(e)
  BY DEF Init, Present, Expenses
<1>5. RequestBookings = {}
  BY <1>4 DEF RequestBookings
<1> QED BY <1>3, <1>5, RequestTables DEF Requests!Init

\* In a calm step a confirmed request may be refused, and nothing else happens.
LEMMA CalmRequest ==
  ASSUME WInv, AllCalm, NEW f \in FinIds
  PROVE  \/ RequestStatus'[f] = RequestStatus[f] /\ RequestContent'[f] = RequestContent[f]
         \/ RequestStatus[f] = "CONFIRMED" /\ RequestStatus'[f] = "REFUSED" /\ RequestContent'[f] = {}
<1>1. \A s \in Sessions : sess'[s].req = sess[s].req
  BY DEF AllCalm, Calm
<1>2. OfRequest(f)' = OfRequest(f)
  BY <1>1 DEF OfRequest
<1>3. CASE OfRequest(f) = {}
  BY <1>2, <1>3, NoRow
<1>4. ASSUME NEW s \in Sessions, OfRequest(f) = {s}
      PROVE  \/ RequestStatus'[f] = RequestStatus[f] /\ RequestContent'[f] = RequestContent[f]
             \/ RequestStatus[f] = "CONFIRMED" /\ RequestStatus'[f] = "REFUSED" /\ RequestContent'[f] = {}
  <2> DEFINE r == sess[s]
             q == sess'[s]
  <2>1. /\ RequestStatus[f] = RowStatus(r) /\ RequestContent[f] = RowLines(s, r)
        /\ RequestStatus'[f] = RowStatus(q) /\ RequestContent'[f] = RowLines(s, q)
    BY <1>2, <1>4, OneRow, OneRowNext
  <2>2. Calm(r, q)  BY DEF AllCalm
  <2> HIDE DEF r, q
  <2>3. CASE r.state = "APPLIED"
    BY <2>1, <2>2, <2>3 DEF Calm
  <2>4. CASE r.state = "CONFIRMED" /\ q.state = "CONFIRMED"
    BY <2>1, <2>2, <2>4 DEF Calm, RowStatus, RowLines
  <2>5. CASE r.state = "CONFIRMED" /\ q.state # "CONFIRMED"
    <3>1. q.state # "APPLIED"  BY <2>2, <2>5 DEF Calm
    <3> QED BY <2>1, <2>5, <3>1 DEF RowStatus, RowLines
  <2>6. CASE r.state \notin {"CONFIRMED", "APPLIED"}
    <3>1. q.state \notin {"CONFIRMED", "APPLIED"}  BY <2>2, <2>6 DEF Calm
    <3> QED BY <2>1, <2>6, <3>1 DEF RowStatus, RowLines
  <2> QED BY <2>3, <2>4, <2>5, <2>6
<1>5. OneSession  BY DEF WInv
<1> QED BY <1>3, <1>4, <1>5, AtMostOne

LEMMA CalmRefines ==
  ASSUME WInv, AllCalm, \A c \in Created : (Present(c))' <=> Present(c)
  PROVE  Requests!Refuse \/ UNCHANGED <<RequestStatus, RequestContent, RequestBookings>>
<1>1. RequestBookings' = RequestBookings
  <2>1. \A s \in Sessions : sess'[s].req = sess[s].req
    BY DEF AllCalm, Calm
  <2>2. \A e \in Created : e[1] \in Sessions
    BY DEF Created
  <2> QED BY <2>1, <2>2 DEF RequestBookings
<1> DEFINE refused == {f \in FinIds : RequestStatus[f] = "CONFIRMED" /\ RequestStatus'[f] = "REFUSED"}
<1>2. ASSUME NEW f \in FinIds
      PROVE  /\ RequestStatus'[f] = IF f \in refused THEN "REFUSED" ELSE RequestStatus[f]
             /\ RequestContent'[f] = IF f \in refused THEN {} ELSE RequestContent[f]
  BY CalmRequest
<1>3. refused \in SUBSET Requests!Refusable
  BY DEF Requests!Refusable
<1> HIDE DEF refused
<1>4. /\ RequestStatus' = [f \in FinIds |-> IF f \in refused THEN "REFUSED" ELSE RequestStatus[f]]
      /\ RequestContent' = [f \in FinIds |-> IF f \in refused THEN {} ELSE RequestContent[f]]
  BY <1>2, RequestTables
<1>5. CASE refused = {}
  BY <1>1, <1>4, <1>5, RequestTables
<1>6. CASE refused # {}
  <2>1. refused \in (SUBSET Requests!Refusable) \ {{}}  BY <1>3, <1>6
  <2> QED BY <1>1, <1>4, <2>1, Zenon DEF Requests!Refuse
<1> QED BY <1>5, <1>6

LEMMA ConfirmRefines ==
  ASSUME WInv, NEW s \in Sessions, NEW f \in FinIds, Confirm(s, f)
  PROVE  Requests!Confirm(f)
<1>1. PICK q : /\ sess' = [sess EXCEPT ![s] = q] /\ q.state = "CONFIRMED" /\ q.req = f
               /\ q.proposal = sess[s].proposal
  BY ConfirmRow
<1>2. /\ sess'[s] = q /\ \A t \in Sessions : t # s => sess'[t] = sess[t]
  <2>1. sess = [t \in Sessions |-> sess[t]]  BY DEF WInv, Tables
  <2> QED BY <1>1, <2>1
<1>3. /\ sess[s].req = None /\ sess[s].state # "APPLIED" /\ sess[s].proposal # None /\ f # None
      /\ \A t \in Sessions : sess[t].req # f
      /\ expense' = expense
  BY WorkflowAssumption DEF WorkflowAssumption, Confirm, Ready, Editable, Unused, world
<1> DEFINE lines == CreatesIn(q.proposal.lines)
<1>4. lines \in SUBSET Observations
  <2>1. DOMAIN q.proposal.lines \subseteq Observations
    BY <1>1, <1>3 DEF WInv, Rows, Sound
  <2> QED BY <2>1 DEF CreatesIn
<1>5. OfRequest(f) = {} /\ OfRequest(f)' = {s}
  BY <1>1, <1>2, <1>3 DEF OfRequest
<1>6. RequestStatus[f] = "UNKNOWN"
  BY <1>5, NoRow
<1>7. RequestStatus'[f] = "CONFIRMED" /\ RequestContent'[f] = lines
  <2>1. RequestStatus'[f] = RowStatus(q) /\ RequestContent'[f] = RowLines(s, q)
    BY <1>2, <1>5, OneRowNext
  <2> QED BY <1>1, <2>1 DEF RowStatus, RowLines
<1>8. ASSUME NEW g \in FinIds, g # f
      PROVE  RequestStatus'[g] = RequestStatus[g] /\ RequestContent'[g] = RequestContent[g]
  <2>1. g # None  BY WorkflowAssumption DEF WorkflowAssumption
  <2>2. OfRequest(g)' = OfRequest(g)
    BY <1>1, <1>2, <1>3, <1>8, <2>1 DEF OfRequest
  <2>3. CASE OfRequest(g) = {}
    BY <2>2, <2>3, NoRow
  <2>4. ASSUME NEW t \in Sessions, OfRequest(g) = {t}, sess[t].req = g
        PROVE  RequestStatus'[g] = RequestStatus[g] /\ RequestContent'[g] = RequestContent[g]
    <3>1. sess'[t] = sess[t]  BY <1>2, <1>3, <2>1, <2>4
    <3> QED BY <2>2, <2>4, <3>1, OneRow, OneRowNext
  <2> QED BY <2>3, <2>4, AtMostOne DEF WInv
<1> HIDE DEF lines
<1>9. /\ RequestStatus' = [RequestStatus EXCEPT ![f] = "CONFIRMED"]
      /\ RequestContent' = [RequestContent EXCEPT ![f] = lines]
  BY <1>7, <1>8, RequestTables
<1>10. RequestBookings' = RequestBookings
  <2>1. ASSUME NEW e \in Created
        PROVE  /\ (Present(e))' <=> Present(e)
               /\ Present(e) => sess'[e[1]].req = sess[e[1]].req
    <3>1. PICK t \in Sessions, o \in Observations : e = <<t, o>>  BY DEF Created
    <3>2. Present(e) => sess[t].state = "APPLIED"  BY <3>1 DEF WInv, Bookings
    <3> QED BY <1>2, <1>3, <3>1, <3>2 DEF Present
  <2> QED BY <2>1 DEF RequestBookings
<1> QED BY <1>4, <1>6, <1>9, <1>10 DEF Requests!Confirm

LEMMA BookingsOf ==
  \A p : p \in RequestBookings <=>
    \E t \in Sessions, o \in Observations : Present(<<t, o>>) /\ p = <<sess[t].req, o>>
<1>1. ASSUME NEW p, p \in RequestBookings
      PROVE  \E t \in Sessions, o \in Observations : Present(<<t, o>>) /\ p = <<sess[t].req, o>>
  <2>1. PICK e \in Created : Present(e) /\ p = <<sess[e[1]].req, e[2]>>
    BY <1>1 DEF RequestBookings
  <2>2. PICK t \in Sessions, o \in Observations : e = <<t, o>>
    BY DEF Created
  <2> QED BY <2>1, <2>2
<1>2. ASSUME NEW t \in Sessions, NEW o \in Observations, Present(<<t, o>>)
      PROVE  <<sess[t].req, o>> \in RequestBookings
  <2>1. <<t, o>> \in {c \in Created : Present(c)}  BY <1>2 DEF Created
  <2>2. <<t, o>>[1] = t /\ <<t, o>>[2] = o  OBVIOUS
  <2> QED BY <2>1, <2>2 DEF RequestBookings
<1> QED BY <1>1, <1>2

LEMMA ApplyRefines ==
  ASSUME WInv, NEW s \in Sessions, NEW f \in FinIds, sess[s].req = f, ExecuteApply(s)
  PROVE  Requests!Apply(f)
<1> DEFINE r == sess[s]
           made == Booking(s)
           lines == CreatesIn(r.proposal.lines)
<1>1. /\ r.state = "CONFIRMED" /\ r.rev < MaxRev /\ StillAsConfirmed(s)
      /\ expense' = [e \in Expenses |->
                       IF \E o \in r.sel : made[o] = <<s, o>> /\ e = <<s, o>> THEN "LIVE" ELSE expense[e]]
  BY DEF ExecuteApply, Executing
<1>2. /\ sess'[s] = Applied(s)
      /\ \A t \in Sessions \ {s} :
           sess'[t] = sess[t] \/ (sess[t].state = "NONE" /\ sess'[t] = Continuation(s))
  BY ApplyRows
<1>3. /\ Sound(s, r, issued) /\ r.req = f /\ None \notin FinIds \cup Expenses
  BY <1>1, WorkflowAssumption DEF WorkflowAssumption, WInv, Rows, Sound
<1>4. Applied(s).state = "APPLIED" /\ Applied(s).receipt = made /\ Applied(s).req = f /\ DOMAIN made = r.sel
  BY <1>3, AppliedRow DEF Sound, Booking
<1>5. ASSUME NEW o \in r.sel
      PROVE  o \in Observations /\ o \notin gone /\ claim[o] = None
  BY <1>1, <1>5, BookingOf
<1>6. lines = {o \in r.sel : made[o] = <<s, o>>}
  <2>1. r.proposal.lines = [o \in r.sel |-> r.dec[o]]
    BY <1>1 DEF StillAsConfirmed, Proposal
  <2>2. ASSUME NEW o \in r.sel PROVE r.dec[o].do \in Creates <=> made[o] = <<s, o>>
    <3>1. ~Present(<<s, o>>)  BY <1>1, <1>5 DEF WInv, Bookings
    <3>2. Live(made[o]) => made[o] # <<s, o>>  BY <3>1 DEF Live, Present
    <3>3. \/ made[o] = <<s, o>> /\ r.dec[o].do \in Creates
          \/ r.dec[o].do = "KEEP" /\ Live(made[o])
      BY <1>1, BookingOf
    <3> QED BY <3>2, <3>3 DEF Creates
  <2> QED BY <2>1, <2>2 DEF CreatesIn
<1> HIDE DEF made, lines
<1>7. ASSUME NEW t \in Sessions PROVE sess'[t].req = sess[t].req
  <2>1. CASE t = s  BY <1>2, <1>4, <2>1
  <2>2. CASE t # s /\ sess'[t] = sess[t]  BY <2>2
  <2>3. CASE t # s /\ sess[t].state = "NONE" /\ sess'[t] = Continuation(s)
    <3>1. sess[t].req = None  BY <2>3 DEF WInv, Rows, Sound
    <3> QED BY <2>3, <3>1, ContinuationSound
  <2> QED BY <1>2, <2>1, <2>2, <2>3
<1>8. \A g \in FinIds : OfRequest(g)' = OfRequest(g)
  BY <1>7 DEF OfRequest
<1>9. OfRequest(f) = {s}
  BY <1>3, AtMostOne DEF WInv, OfRequest
<1>10. RequestStatus[f] = "CONFIRMED" /\ RequestContent[f] = lines
  <2>1. RequestStatus[f] = RowStatus(r) /\ RequestContent[f] = RowLines(s, r)
    BY <1>3, <1>9, OneRow
  <2> QED BY <1>1, <2>1 DEF RowStatus, RowLines, lines
<1>11. RequestStatus'[f] = "APPLIED" /\ RequestContent'[f] = lines
  <2>1. OfRequest(f)' = {s}  BY <1>3, <1>8, <1>9
  <2>2. RequestStatus'[f] = RowStatus(Applied(s)) /\ RequestContent'[f] = RowLines(s, Applied(s))
    BY <1>2, <1>3, <2>1, OneRowNext
  <2> QED BY <1>4, <1>6, <2>2 DEF RowStatus, RowLines
<1>12. ASSUME NEW g \in FinIds, g # f
       PROVE  RequestStatus'[g] = RequestStatus[g] /\ RequestContent'[g] = RequestContent[g]
  <2>1. CASE OfRequest(g) = {}
    BY <1>8, <2>1, NoRow
  <2>2. ASSUME NEW t \in Sessions, OfRequest(g) = {t}, sess[t].req = g
        PROVE  RequestStatus'[g] = RequestStatus[g] /\ RequestContent'[g] = RequestContent[g]
    <3>1. t # s  BY <1>12, <2>2
    <3>2. sess[t].state # "NONE"  BY <1>3, <2>2 DEF WInv, Rows, Sound
    <3>3. sess'[t] = sess[t]  BY <1>2, <3>1, <3>2
    <3> QED BY <1>8, <2>2, <3>3, OneRow, OneRowNext
  <2> QED BY <2>1, <2>2, AtMostOne DEF WInv
<1>13. RequestStatus' = [RequestStatus EXCEPT ![f] = "APPLIED"] /\ RequestContent' = RequestContent
  BY <1>10, <1>11, <1>12, RequestTables
<1>14. ASSUME NEW o \in lines, NEW g \in FinIds PROVE <<g, o>> \notin RequestBookings
  <2>1. o \in r.sel  BY <1>6
  <2>2. ASSUME NEW t \in Sessions, Present(<<t, o>>) PROVE FALSE
    <3>1. <<t, o>> \in Expenses  BY <1>5, <2>1 DEF Created, Expenses
    <3> QED BY <1>3, <1>5, <2>1, <2>2, <3>1 DEF WInv, Bookings
  <2> QED BY <2>2 DEF RequestBookings, Created
<1>15. RequestBookings' = RequestBookings \cup ({f} \X lines)
  <2>1. ASSUME NEW t \in Sessions, NEW o \in Observations
        PROVE  (Present(<<t, o>>))' <=> Present(<<t, o>>) \/ (t = s /\ o \in lines)
    <3>1. <<t, o>> \in Expenses  BY DEF Created, Expenses
    <3> QED BY <1>1, <1>6, <3>1 DEF Present
  <2>2. \A p : p \in RequestBookings <=>
          \E t \in Sessions, o \in Observations : Present(<<t, o>>) /\ p = <<sess[t].req, o>>
    BY BookingsOf
  <2>3. \A p : p \in RequestBookings' <=>
          \E t \in Sessions, o \in Observations : (Present(<<t, o>>))' /\ p = <<sess'[t].req, o>>
    <3>1. (\A p : p \in RequestBookings <=>
             \E t \in Sessions, o \in Observations : Present(<<t, o>>) /\ p = <<sess[t].req, o>>)'
      BY BookingsOf, PTL
    <3> QED BY <3>1
  <2>4. lines \subseteq Observations  BY <1>5, <1>6
  <2>5. ASSUME NEW p \in RequestBookings' PROVE p \in RequestBookings \cup ({f} \X lines)
    <3>1. PICK t \in Sessions, o \in Observations : (Present(<<t, o>>))' /\ p = <<sess[t].req, o>>
      BY <1>7, <2>3
    <3> QED BY <2>1, <2>2, <3>1
  <2>6. ASSUME NEW p \in RequestBookings PROVE p \in RequestBookings'
    <3>1. PICK t \in Sessions, o \in Observations : Present(<<t, o>>) /\ p = <<sess[t].req, o>>
      BY <2>2
    <3> QED BY <1>7, <2>1, <2>3, <3>1
  <2>7. ASSUME NEW o \in lines PROVE <<f, o>> \in RequestBookings'
    BY <1>7, <2>1, <2>3, <2>4
  <2> QED BY <2>5, <2>6, <2>7
<1> QED BY <1>3, <1>10, <1>13, <1>14, <1>15, Zenon DEF Requests!Apply

\* A financial request is applied or refused once, books exactly the lines that were
\* confirmed, and no line is booked by two requests, whatever is repeated, deleted or
\* expires (import_sessions_financial_request_key, execute and the observations'
\* claims).
THEOREM SessionsImplementRequests == Spec => ImplementsFinancialRequests
<1>1. WInv /\ [Next]_vars =>
        [Requests!Next]_<<RequestStatus, RequestContent, RequestBookings>>
  <2> SUFFICES ASSUME WInv, [Next]_vars
               PROVE  Requests!Next \/ UNCHANGED <<RequestStatus, RequestContent, RequestBookings>>
    OBVIOUS
  <2>1. CASE \E s \in Sessions : ExecuteApply(s)
    <3>1. PICK s \in Sessions : ExecuteApply(s)  BY <2>1
    <3>2. sess[s].req \in FinIds
      BY <3>1, WorkflowAssumption DEF WorkflowAssumption, WInv, Rows, Sound, ExecuteApply, Executing
    <3> QED BY <3>1, <3>2, ApplyRefines DEF Requests!Next
  <2>2. CASE \E s \in Sessions, f \in FinIds : Confirm(s, f)
    BY <2>2, ConfirmRefines DEF Requests!Next
  <2>3. CASE AllCalm /\ ~\E s \in Sessions : ExecuteApply(s)
    <3>1. \A c \in Created : (Present(c))' <=> Present(c)  BY <2>3, Lasting
    <3> QED BY <2>3, <3>1, CalmRefines DEF Requests!Next
  <2> QED BY <2>1, <2>2, <2>3, StepWInv
<1> QED
  BY <1>1, InitWInv, InitRequests, StepWInv, PTL DEF Spec, ImplementsFinancialRequests, Requests!Spec
=============================================================================
