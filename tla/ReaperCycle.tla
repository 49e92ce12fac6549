---------------------------- MODULE ReaperCycle ----------------------------
(***************************************************************************)
(* One scope under the reaper (vault-reaper.ts): each cycle may spend      *)
(* Limit on it.  It erases aged provider text, closes late sessions, then  *)
(* purges temporary files and stored documents with what the closings left *)
(* of the limit.                                                           *)
(*                                                                         *)
(* Rows are named by their rank in the order the pages are read in.  How   *)
(* one purge works, and what other clients do meanwhile, is ImportVault's; *)
(* here a purge succeeds, finds nothing to do, or cannot drain.            *)
(*                                                                         *)
(* Two transactions of a cycle may be refused by the database, and then    *)
(* are in every cycle: the closing of a session whose document went        *)
(* through OCR (Unreleasable), and the end of the retention of what OCR    *)
(* read once the session has a financial request (Unerasable).             *)
(***************************************************************************)
EXTENDS Naturals, FiniteSets, FiniteSetsExt

CONSTANTS
  Ids,          \* ranks of the sessions, their uploads and their documents
  Limit,        \* rows a cycle may take of a scope
  HeldFiles,    \* uploads with a descriptor that is never closed
  HeldDocs,     \* stored documents with a descriptor that is never closed
  MaxMishaps    \* bound on cycles that end early and on documents that come back

ASSUME ReaperAssumption ==
  /\ Ids \subseteq Nat /\ IsFiniteSet(Ids)
  /\ HeldFiles \subseteq Ids /\ HeldDocs \subseteq Ids
  /\ Limit \in Nat \ {0} /\ MaxMishaps \in Nat
  /\ Cardinality(HeldFiles) + Cardinality(HeldDocs) < Limit

VARIABLES
  sess,     \* session: OPEN, LATE (its deadline passed) or CLOSED
  file,     \* temporary file: NONE, RESERVED, LAPSED (lease over) or PENDING
  doc,      \* stored document: NONE, ATTACHED, FREE or PURGED
  text,     \* OCR usage of the document: NONE, KEPT with the text that was read, DUE
            \* (the text has aged), or PURGED: a usage row with no text, or none left
  requested,\* sessions with a financial request
  phase,    \* where the cycle is
  page,     \* rows of the current page still to be handled
  left,     \* what is left of the limit
  mishaps

rows  == <<sess, file, doc, text, requested>>
cycle == <<phase, page, left>>
reaperVars == <<rows, cycle, mishaps>>

\* The first n of the set S in key order (take: limit, orderBy).
Page(n, S) == {x \in S : Cardinality({y \in S : y < x}) < n}

DueFiles == {i \in Ids : file[i] \in {"LAPSED", "PENDING"}}
DueDocs  == {i \in Ids : doc[i] = "FREE"}
LateSessions == {i \in Ids : sess[i] = "LATE"}

\* Every session is open and has reserved an upload; the reaper sees neither yet.
ReaperInit ==
  /\ sess = [i \in Ids |-> "OPEN"]
  /\ file = [i \in Ids |-> "RESERVED"]
  /\ doc  = [i \in Ids |-> "NONE"]
  /\ text = [i \in Ids |-> "NONE"]
  /\ requested = {}
  /\ phase = "IDLE" /\ page = {} /\ left = Limit
  /\ mishaps = 0

----------------------------------------------------------------------------
(* What the database refuses.                                              *)

\* Releasing the last reference of a document that no booking claims deletes the row of
\* the attachment, which the usage row of an OCR attempt forbids: the transaction is
\* rolled back.
Unreleasable(i) == doc[i] = "ATTACHED" /\ text[i] # "NONE"

\* The end of retention clears the hash of an active session's proposal, which a check
\* refuses once the session has a financial request.
Unerasable(i) == text[i] = "DUE" /\ sess[i] # "CLOSED" /\ i \in requested

\* A late session is closed without a booking.
Unclosable(i) == sess[i] = "LATE" /\ Unreleasable(i)

----------------------------------------------------------------------------
(* What happens to the scope outside the reaper.                           *)

Outside == UNCHANGED <<cycle, mishaps>>

LeaseLapses(i) ==
  /\ file[i] = "RESERVED"
  /\ file' = [file EXCEPT ![i] = "LAPSED"]
  /\ UNCHANGED <<sess, doc, text, requested>> /\ Outside

\* finalize: the file becomes the stored document, or a copy of one to be removed.
Finalize(i) ==
  /\ sess[i] = "OPEN" /\ file[i] = "RESERVED"
  /\ \/ file' = [file EXCEPT ![i] = "NONE"] /\ doc' = [doc EXCEPT ![i] = "ATTACHED"]
     \/ file' = [file EXCEPT ![i] = "PENDING"] /\ UNCHANGED doc
  /\ UNCHANGED <<sess, text, requested>> /\ Outside

\* A provider reads the document, or fails to: either way the attempt is on record.
OcrAttempt(i) ==
  /\ sess[i] = "OPEN" /\ doc[i] = "ATTACHED" /\ text[i] = "NONE"
  /\ \E t \in {"KEPT", "PURGED"} : text' = [text EXCEPT ![i] = t]
  /\ UNCHANGED <<sess, file, doc, requested>> /\ Outside

TextAges(i) ==
  /\ text[i] = "KEPT"
  /\ text' = [text EXCEPT ![i] = "DUE"]
  /\ UNCHANGED <<sess, file, doc, requested>> /\ Outside

\* A request of the session, also one that only looks at it, ends the retention first.
UserLooks(i) ==
  /\ text[i] = "DUE" /\ sess[i] # "CLOSED" /\ ~Unerasable(i)
  /\ text' = [text EXCEPT ![i] = "PURGED"]
  /\ UNCHANGED <<sess, file, doc, requested>> /\ Outside

\* Confirmation of lines that OCR read; nothing here depends on the others.  The
\* request stays with the session when it goes back to review.
Confirm(i) ==
  /\ sess[i] = "OPEN" /\ text[i] = "KEPT" /\ i \notin requested
  /\ requested' = requested \cup {i}
  /\ UNCHANGED <<sess, file, doc, text>> /\ Outside

DeadlinePasses(i) ==
  /\ sess[i] = "OPEN"
  /\ sess' = [sess EXCEPT ![i] = "LATE"]
  /\ UNCHANGED <<file, doc, text, requested>> /\ Outside

\* What the end of a session does to its rows, if nothing refuses it.
Closing(i) ==
  /\ sess' = [sess EXCEPT ![i] = "CLOSED"]
  /\ file' = [file EXCEPT ![i] = IF @ = "NONE" THEN "NONE" ELSE "PENDING"]
  /\ doc'  = [doc EXCEPT ![i] = IF @ = "ATTACHED" THEN "FREE" ELSE @]

\* The user cancels it, applies it without OCR, or asks for the execution of one that
\* is late, which expires it.
CloseSession(i) ==
  /\ sess[i] # "CLOSED" /\ ~Unreleasable(i)
  /\ Closing(i)
  /\ UNCHANGED <<text, requested>> /\ Outside

\* A booking of lines that OCR read claims the document, and its attachment stays.
Apply(i) ==
  /\ sess[i] = "OPEN" /\ i \in requested /\ text[i] = "KEPT"
  /\ Closing(i)
  /\ text' = [text EXCEPT ![i] = "PURGED"]
  /\ requested' = requested \ {i}
  /\ Outside

\* Another session attaches the document of a closed one again ...
Reattach(i) ==
  /\ doc[i] = "FREE" /\ mishaps < MaxMishaps
  /\ doc' = [doc EXCEPT ![i] = "ATTACHED"]
  /\ mishaps' = mishaps + 1
  /\ UNCHANGED <<sess, file, text, requested, cycle>>

\* ... and lets it go.
Detach(i) ==
  /\ doc[i] = "ATTACHED" /\ sess[i] = "CLOSED"
  /\ doc' = [doc EXCEPT ![i] = "FREE"]
  /\ UNCHANGED <<sess, file, text, requested>> /\ Outside

----------------------------------------------------------------------------
(* The cycle.                                                              *)

ReadPage(p, S) == phase' = p /\ page' = S
Rest == phase' = "IDLE" /\ page' = {} /\ left' = Limit

\* runCycle starts with a page of aged provider text.
BeginCycle ==
  /\ phase = "IDLE"
  /\ ReadPage("TEXT", Page(Limit, {i \in Ids : text[i] = "DUE"}))
  /\ UNCHANGED <<rows, left, mishaps>>

AtRow(p, i)  == phase = p /\ page # {} /\ i = Min(page)
Handle(p, i) == AtRow(p, i) /\ page' = page \ {i} /\ UNCHANGED phase
Handled(p)   == phase = p /\ page = {}

\* The row whose turn it is is refused ...
RowRefused ==
  \/ \E i \in Ids : AtRow("TEXT", i) /\ Unerasable(i)
  \/ \E i \in Ids : AtRow("EXPIRE", i) /\ Unclosable(i)

\* ... and the cycle ends there, in this one and in every later one.
Throw == Rest /\ UNCHANGED <<rows, mishaps>>

\* purgeAgedOcrContent: the text leaves draft, observations and extraction together,
\* unless the row was scrubbed since.
EraseText(i) ==
  \/ AtRow("TEXT", i) /\ Unerasable(i) /\ Throw
  \/ /\ Handle("TEXT", i) /\ ~Unerasable(i)
     /\ text' = [text EXCEPT ![i] = IF @ = "DUE" THEN "PURGED" ELSE @]
     /\ UNCHANGED <<sess, file, doc, requested, left, mishaps>>

ReadLate ==
  /\ Handled("TEXT")
  /\ ReadPage("EXPIRE", Page(left, LateSessions))
  /\ UNCHANGED <<rows, left, mishaps>>

\* The row is read again under the writer lock; unless the closing is refused, it used
\* up one of the limit, needed or not.
Expire(i) ==
  \/ AtRow("EXPIRE", i) /\ Unclosable(i) /\ Throw
  \/ /\ Handle("EXPIRE", i) /\ ~Unclosable(i)
     /\ left' = left - 1
     /\ IF sess[i] = "LATE" THEN Closing(i) ELSE UNCHANGED <<sess, file, doc>>
     /\ UNCHANGED <<text, requested, mishaps>>

\* Mutant: documents have their turn only when no file is left.
ReadFilesOrDocs ==
  /\ Handled("EXPIRE")
  /\ \/ left = 0 /\ Rest
     \/ /\ left > 0 /\ ReadPage("FILES", Page(left, DueFiles))
        /\ left' = IF DueFiles = {} THEN left ELSE 0
  /\ UNCHANGED <<rows, mishaps>>

ReadFiles ==
  /\ Handled("EXPIRE")
  /\ \/ left = 0 /\ Rest
     \/ /\ left > 0 /\ ReadPage("FILES", Page(left, DueFiles))
        /\ left' = left - Cardinality(page')
  /\ UNCHANGED <<rows, mishaps>>

\* A file whose descriptor is held is fenced but stays; the capture has marked it.
PurgeFile(i) ==
  /\ Handle("FILES", i)
  /\ file' = [file EXCEPT ![i] =
                IF i \notin DueFiles THEN @ ELSE IF i \in HeldFiles THEN "PENDING" ELSE "NONE"]
  /\ UNCHANGED <<sess, doc, text, requested, left, mishaps>>

ReadDocs ==
  /\ Handled("FILES")
  /\ \/ left = 0 /\ Rest
     \/ left > 0 /\ ReadPage("DOCS", Page(left, DueDocs)) /\ UNCHANGED left
  /\ UNCHANGED <<rows, mishaps>>

\* Mutant: the document is purged as it was read.
PurgeDocAsRead(i) ==
  /\ Handle("DOCS", i)
  /\ doc' = [doc EXCEPT ![i] = IF i \in HeldDocs THEN @ ELSE "PURGED"]
  /\ UNCHANGED <<sess, file, text, requested, left, mishaps>>

\* The capture looks again for an attached reference.
PurgeDoc(i) ==
  /\ Handle("DOCS", i)
  /\ doc' = [doc EXCEPT ![i] = IF i \in DueDocs \ HeldDocs THEN "PURGED" ELSE @]
  /\ UNCHANGED <<sess, file, text, requested, left, mishaps>>

EndCycle == Handled("DOCS") /\ Rest /\ UNCHANGED <<rows, mishaps>>

\* A step throws (a lost gate, a storage error, a write conflict) or the process dies.
Fail ==
  /\ phase # "IDLE" /\ mishaps < MaxMishaps
  /\ mishaps' = mishaps + 1
  /\ Rest /\ UNCHANGED rows

Cycle ==
  \/ BeginCycle \/ ReadLate \/ ReadFiles \/ ReadDocs \/ EndCycle \/ Fail
  \/ \E i \in Ids : EraseText(i) \/ Expire(i) \/ PurgeFile(i) \/ PurgeDoc(i)

Others ==
  \E i \in Ids :
    \/ LeaseLapses(i) \/ Finalize(i) \/ OcrAttempt(i) \/ TextAges(i) \/ UserLooks(i)
    \/ Confirm(i) \/ DeadlinePasses(i) \/ CloseSession(i) \/ Apply(i)
    \/ Reattach(i) \/ Detach(i)

ReaperSpec == ReaperInit /\ [][Cycle \/ Others]_reaperVars

----------------------------------------------------------------------------

\* Every variable stays in its domain.
ReaperTypeOK ==
  /\ sess \in [Ids -> {"OPEN", "LATE", "CLOSED"}]
  /\ file \in [Ids -> {"NONE", "RESERVED", "LAPSED", "PENDING"}]
  /\ doc \in [Ids -> {"NONE", "ATTACHED", "FREE", "PURGED"}]
  /\ text \in [Ids -> {"NONE", "KEPT", "DUE", "PURGED"}]
  /\ requested \subseteq Ids
  /\ phase \in {"IDLE", "TEXT", "EXPIRE", "FILES", "DOCS"}
  /\ page \subseteq Ids
  /\ left \in 0..Limit
  /\ mishaps \in 0..MaxMishaps

\* A page may be stale when its rows are handled: what was attached again since is not
\* purged, and a session somebody else closed since is not closed a second time (its
\* document, which another session may hold by now, stays as it is).
StalePagesDoNoHarm ==
  [][\A i \in Ids :
       /\ doc'[i] = "PURGED" => doc[i] \in {"FREE", "PURGED"}
       /\ Cycle /\ sess[i] = "CLOSED" /\ doc[i] = "ATTACHED" => doc'[i] = "ATTACHED"]_reaperVars

\* Rows that cannot be purged keep their place at the head of the page, and closings
\* come out of the same limit; as long as they do not fill it, every other row has its
\* turn: late sessions close, aged text goes, files and documents nobody needs are
\* erased.  What a refusal stands in front of is excepted, and waits for ever: the end
\* of a retention that is refused holds up everything of the scope but older text, a
\* session that cannot close what comes after it in the cycle.
NothingIsPassedOver ==
  \A i \in Ids :
    /\ (text[i] = "DUE") ~> (text[i] = "PURGED" \/ \E j \in Ids : j <= i /\ Unerasable(j))
    /\ (sess[i] = "LATE") ~> \/ sess[i] = "CLOSED"
                             \/ \E j \in Ids : Unerasable(j) \/ (j <= i /\ Unclosable(j))
    /\ i \notin HeldFiles =>
         ((file[i] = "PENDING") ~> (file[i] = "NONE" \/ \E j \in Ids : Unerasable(j) \/ Unclosable(j)))
    /\ i \notin HeldDocs =>
         ((doc[i] = "FREE") ~> (doc[i] # "FREE" \/ \E j \in Ids : Unerasable(j) \/ Unclosable(j)))
=============================================================================
