# Formal models of reformaflow

TLA+ models of the parts of reformaflow where order, failure and concurrency
matter: the guided import of financial documents from the upload to the booked
expense, the vault that keeps the documents, the retention job, the processes that
share the vault, the settlement of card invoices and of expenses across projects,
and the recovery window of a deployment. Paths below are relative to the
repository root.

Contents: [1 The system](#1-the-system) ·
[2 The modules](#2-the-modules-and-the-code) · [3 The runs](#3-the-runs) ·
[4 Fairness](#4-fairness) · [5 The proofs](#5-the-proofs) ·
[6 Findings](#6-where-code-and-documents-disagree) ·
[7 Not modelled](#7-what-is-not-modelled) · [8 Plan](#8-plan)

## 1 The system

reformaflow is a NestJS API over SQLite (Prisma), a Next.js application and a
shared domain package. Much of the API is CRUD in one transaction per request and
read-only projections. What is hard lives in the guided import, where database
rows, files and open descriptors have to agree and some steps (OCR, execute) must
never happen twice; in the settlement of invoices and expenses, where long
sequences of legal operations must leave copies of the same fact in agreement; and
in the scripts that keep two processes from one database.

| Component | State it keeps | Operations | Talks to | What is hard | What makes it correct |
|---|---|---|---|---|---|
| Import vault (`vault/import-upload.service.ts`, `vault-storage.ts`, `vault-purger.ts`, `vault-fd-registry.ts`, `completed-retention.ts`) | attachment and artifact rows; directories `t/<ref>` and trash names; registry of open descriptors, fences | reserve, claim, stream, finalize, download, capture, fence, drain, erase, complete, release | triggers, workflow, reaper | three stores changed in separate steps; crash between any two; two uploads of one document; purge against upload and download | attached documents have their bytes; nothing is erased under a descriptor; no orphan bytes; everything due is erased |
| Retirement triggers (`prisma/migrations/20261010100000_*`) | artifact rows, tombstones | retire, finalize, invalidate sessions | every transaction that touches attachments or observations | order in which the last claim, attachment and byte go | nothing stays half retired; tombstones are final; confirmed sessions hold live documents |
| OCR retention (`ocr/pdf-ocr-retention.ts`, FK migration `20261013233000_*`) | OCR usage rows, extraction in the artifact | attempt, review, end of retention | artifact state, session state | a content deadline next to purges and cancels of shared documents | content goes at its deadline, cancel always works |
| Retention scheduler (`vault/vault-retention.scheduler.ts`) | cursor, running flag (memory) | page, run cycle, advance, wrap | reaper | full last page, new scopes behind the cursor, failures, restarts | every scope is served again and again while its cycles can succeed |
| Reaper (`vault/vault-reaper.ts`) | none of its own | expire sessions, end retention, purge due keys | workflow rows, purger | page limits, items that keep failing | everything due is taken eventually, unless the database refuses something in front of it |
| Session workflow (`import-session.service.ts`, `import-session-workflow.service.ts`, `import-session.writer.ts`) | session row, revision, request ids | create, edit, prepare, confirm, cancel, execute, continuation | vault, financial writers | retried requests with an unknown outcome, stale revisions | execute applies once; what was confirmed is what is applied |
| Analysis and parse leases (`import-session.extraction.service.ts`, `raw-executions.ts`) | parse generation and lease, in-memory executions | claim, heartbeat, finish, fail, recover | artifact rows | late result of a lost lease | only the current generation writes |
| PDF OCR attempts and budget (`ocr/pdf-ocr-budget.ts`, `pdf-ocr-state.ts`) | usage rows, daily counters | consent, reserve, call, reconcile | model provider | a call with an unknown outcome must not be repeated | at most one attempt; budgets never exceeded |
| Vault boot, lock and probe (`vault-boot.ts`, `vault-lock.ts`, `vault-probe.ts`) | boot verdict, lock, runtime | boot once with a deadline, recheck, revoke | everything in the vault | a late boot, a lost lock in the middle of an erasure | one process at a time uses the vault |
| Byte quotas (`vault/import-upload.service.ts`) | none of its own: sums over reservations, pending purges and artifacts | admit a reservation | vault, purges | a check at the reservation only; bytes change shape afterwards | neither the charge nor the disk outgrows a limit; the quota comes back unless its release is refused |
| Card invoices (`credit-card/card-invoice-settlement.service.ts`, `monthly-overview.service.ts`, `expense.service.ts`) | purchases with cash-flow entries, payments, the trail of imported payments | pay, import, undo, edit, liquidate | bank statements, expenses | an undo that chooses before its transaction; two copies of "paid" | nothing is left paid by a payment that is gone; an undo is exact |
| Conciliation (`conciliacao`, `additive-settlement.ts`) | fundings with proofs, mirrors, allocations | fund, settle, share out, undo, link | expenses | every operation guards against every other | balances hold, undo stays possible, plans come back |
| Quiesce (`deploy/quiesce`) | files on a volume, a process group, a deadline | publish, claim, run, kill, restore | Node, database | deaths of any process at any point; restarts of the machine | Node and a command never share the database; Node comes back |
| Expenses, recurrences, bank accounts | rows | CRUD, propagation | all projections | one transaction each | row-level rules |
| Auth, users, tenants | users, session version | login, revoke, administer | every request | a token that outlives its revocation; two administrators at once | revoked tokens are refused; one administrator is left |
| Agent, journeys, receipts, plants, projections, web, domain, scripts | rows or none | CRUD, calls of external services, views | | little concurrency | |

The full list with the status of each component is in `PROJECT.json`; its `hazards`
name, line by line, what is hard to test and the properties that cover it.

The processes that interleave in the import are HTTP requests (uploads, downloads,
analyses, session commands, deletions of expenses), the purges they or the reaper
start, the minute cron, and the end of the process. Node.js runs one step at a
time, but every `await` (a transaction, a file-system call, a provider) is a point
where another process goes on. Transactions of one tenant are serial:
`import-session.writer.ts` takes the tenant row lock first. All of SQLite's
transactions are serial, so in every module one transaction is one action.

## 2 The modules and the code

| Module | What it is |
|---|---|
| `ImportVault` | the vault, the triggers, the session states as far as documents depend on them, OCR usage rows and the end of retention |
| `DocumentCustody` | what the vault promises, in 60 lines: bytes are kept while held, condemned once, erased after the last holder and reader |
| `ImportVaultCustody` | the refinement mapping from `ImportVault` to `DocumentCustody` |
| `ImportQuota` | the byte quotas of several sessions, users and tenants |
| `DocumentAnalysis` | parse leases, publication of lines, the OCR attempt |
| `OcrBudget` | the daily budget of OCR attempts |
| `Tenancy` | users and tenants, for the two modules with limits |
| `ImportSessionWorkflow` | draft, proposal, challenge, confirmation, execution, continuation |
| `FinancialRequests` | what a financial request promises; `ImportSessionWorkflow` implements it |
| `ReaperCycle` | one scope under the reaper: pages, limits, stale rows |
| `RetentionScheduler` | the keyset rotation of the retention job over scopes |
| `RetentionJob` | the rotation composed with the reaper's cycle of one scope |
| `VaultGate` | launches of the API, the lock, the boot, rechecks, stop and drain |
| `CardInvoices` | one card: purchases, manual and imported payments, their undos |
| `CrossProjectSettlement` | fundings, settlements by installment, rateios, links |
| `Quiesce` | the migration-recovery window: op-wrap, watchdog, supervisor, chain |
| `MC...` | the small instances TLC checks |
| `...Proofs` | theorems and their proofs; `LimitsProofs` holds those of `OcrBudget` and of `ImportQuota`, `ApiProcessProofs` those of `VaultGate` and of `RetentionJob` |

The components touch in few places, and each module keeps what it needs of its
neighbour in the abstraction the neighbour justifies. `ImportVault` and
`DocumentAnalysis` see a session as a state and a revision; what happens inside is
`ImportSessionWorkflow`. `DocumentAnalysis` starts with attached documents, because
`ImportVault` shows that an attached document has its bytes, and sees a purge only
as the moment that withdraws the lease. `ImportQuota` sees an upload or a purge as
two steps (file, then row), the order that `ImportVault` spells out. In `VaultGate`
an upload is an entry, some file operations and a close. `RetentionJob` composes
two modules directly.

### ImportVault: state

| Variable | Code |
|---|---|
| `ref` | `import_session_artifacts`: `state`, `uploadGeneration` (`gen`), `sessionId`, `artifactId`, whether `tempBytes` is set (`temp`), whether `tempPurgePendingAt` is set (`pending`), whether `uploadLeaseExpiresAt` lies ahead (`lease`) |
| `art` | `import_artifacts`: `state`, hash (`doc`), `storageKey` (`key`), whether `parserVersion` is an OCR one (`ocr`) |
| `claimed` | artifacts with an observation that a live expense or receipt claims |
| `sess` | `import_sessions.state` |
| `usage` | `import_ocr_usages` row of the attachment and its `contentPurgedAt` |
| `disk`, `trash` | directory `t/<ref>` and the names a purge moved it to |
| `up`, `rd` | where each upload and download request is (`uploadWithOutcome`, `writeClaim`, the finalize loop, `readOriginal`) |
| `purge` | `PurgeCoordinator.run` per key, with its captured directory |
| `leaked` | registry entries whose close was uncertain; they stay until the restart |
| `reaper` | the key whose purge the reaper awaits |

Each database transaction is one action. `Commit(R, A, C, F)` is the end of every
transaction that can retire a document: given rows `R`, `A` and claims `C` as the
statements leave them, it applies the triggers (sweep released attachments
without temporary bytes, retire artifacts nobody links, delete finished
tombstones) and refuses to commit when a swept attachment is still referenced by
an OCR usage row (the RESTRICT foreign key). File-system calls and registry
operations are actions of their own.

Abstractions, each chosen so that the properties cannot tell the difference:

- `ANALYZING`, `EXTRACTED` and `FAILED` artifacts behave as `RAW_READY` for the
  vault and are one state; `DRAFT` stands for the upload-editable states,
  `CONFIRMED` for `READY` and `CONFIRMED`, `CLOSED` for cancelled and expired.
  `UPLOADED` is a state no code writes.
- `uploadGeneration` is capped at 3 (`GenCap`): reserved is 1, claimed is 2, and
  every later value only means "superseded".
- Clocks are nondeterministic: a lease or a session expires at any time. Two
  facts about times are kept because properties depend on them. An edit moves the
  session's expiry past the deadline of every OCR usage it already has (`usage`
  becomes `REVIEWED`), and the reaper ends aged OCR retention before it expires
  sessions. That holds as long as at most 64 usages of a scope are due in a cycle.
- A rename or removal that was not yet synced and is lost in a crash is the crash
  one step earlier; only the content of an unsynced file is lost separately.
- An upload or download that passed the recheck may still open its file after a
  purge has aborted it: the code looks at the abort signal before and after the
  `open`, not during it. `CHECKED` stands for that window; only the drain keeps
  the purge from erasing under the descriptor.
- One purge per key: a second request joins the one in flight, so both are one.
  The reaper awaits its purges one by one.
- One tenant and one owner project; attachment ids are directory names, so
  `t/<ref>` and `R:<ref>`, `A:<artifact>` are the ids themselves.
- The transfer of an attachment to a retired artifact is refused by a trigger
  that no run can reach: a confirmed session only holds live documents
  (`ConfirmedDocumentsAreLive`).
- The end of OCR retention is a transaction of its own here; it also runs inside
  reads and cancels of the session, which adds no interleaving.

### ImportVault: actions

| Actions | Code |
|---|---|
| `OpenSession`, `Confirm`, `Edit`, `Cancel`, `Expire`, `Apply` | session service and workflow; `Apply` is execute with or without a continuation (`completed-retention.ts` for the attachments) |
| `DeleteLastClaim` | an expense or receipt is deleted; triggers retire the document and send attached sessions to review |
| `Reserve`, `Claim`, `EnterUpload`, `RecheckUpload`, `OpenBlob`, `StreamDone` | reservation, claim, `writeClaim` under the registry entry |
| `FinalizeAdopt`, `FinalizeShare`, `FinalizeBlocked` | the three answers of finalize: the bytes become the original, the document is already stored, the document is being purged |
| `UploadPurges`, `JoinPurge`, `PurgeNotEligible` | the blocked upload asks for the purge and retries |
| `UploadStops`, `SelfFence`, `LeaseExpires` | failure of an upload and its clean-up |
| `AdmitRead`, `EnterRead`, `RecheckRead`, `OpenRead`, `EndRead` | a download |
| `ReaperPurges`, `Fence`, `Drained`, `DrainTimeout`, `Match`, `Rename`, `RemoveTrash`, `Complete` | the steps of `PurgeCoordinator.run` and `eraseCaptured` |
| `OcrAttempt`, `RetentionEnds` | OCR usage rows, end of their retention |
| `Crash`, `PurgeFails`, `UncertainUploadClose`, `UncertainReadClose`, `SelfFenceFails` | mishaps, at most `MaxMishaps` |

### ImportQuota

| Variable | Code |
|---|---|
| `ref` | `import_session_artifacts`: state, session, document, artifact, temporary key, pending purge, order of releases |
| `art` | `import_artifacts`, one per tenant and document: state, home of the file, verified bytes |
| `files` | directories that hold a file |
| `open` | sessions that are not closed |

`Reserve` is the transaction of the reservation with its four sums
(`ImportUploadService.quota`), `Write` and `Fail` the stream, `Finalize` adopts the
file, or shares the stored document and leaves the copy for its purge, `Close`
and `Continue` end a session with or without a continuation, and a purge is three
steps: capture, erase the file, complete the row. Who pays for a stored document
(`Payers`) follows the code: everybody attached to it, or else the last to leave.
A release, or the completion of a purge after it, is rolled back when it would delete
an attachment with an OCR usage row (`Refusable`, `ForgetRefusable`, over the documents
that OCR may have read, `Scanned`). The module does not follow OCR: there such a
transaction happens, or does nothing, as a rolled-back one does.

### DocumentAnalysis

| Variable | Code |
|---|---|
| `sess`, `ref`, `pending` | session state and revision; attachments; `scope.pendingAttachmentIds` |
| `art` | `import_artifacts`: state, `parseGeneration`, lease holder, whether the lease is live, who extracted |
| `consent` | the consent of each attachment in `ocrJson` |
| `usage` | the `import_ocr_usages` row of each run: outcome and session |
| `run` | where an analysis is and what it captured (session, revision, generation, verdict), and whether it is in `raw-executions` |
| `sent` | history: generation requests that left the process |

An analysis is `Admit` (lease, generation), `Enter` (in-memory execution), `Parse`,
`Attempt` (usage row and budget), `BeforeGeneration` (the check right before
sending), `Dispatch`, `Answer`, `Publish`; or from anywhere `Fail`, `Reconcile`,
`Cleanup`. `Replay` answers a repeated consent from the stored extraction.
`TransactionFails` and `Crash` are mishaps. `Session` holds what happens to the
session meanwhile. A document's parsed lines are one unit; the parsers are
abstracted to "has text" and "has none".

### OcrBudget

`usage[i]` is the row of attempt `i` with its day, outcome and charge; `process[i]`
the request that makes it; `taken[i]` what the provider took (history). `ReserveBudget`
is `reservePdfOcrBudget`, `Exhausted` its refusal, `EndsUnsent` and `EndsSent` the
settlements of `reconcilePdfOcrBudget`, `Stops` the loss of the process, `Midnight`
the day. A call is charged to the day of its reservation, so a calendar day may
see more calls than its limit when attempts outlive midnight; the property counts by
reservation day.

### ImportSessionWorkflow

| Variable | Code |
|---|---|
| `sess` | `import_sessions`: state, revision, scope, selection, decisions, proposal, challenge, financial request id, receipt, and whether it is late |
| `expense` | expenses that sessions create or others register |
| `claim`, `gone` | `import_observations`: who claims a line; lines deleted with their document |
| `issued` | challenges a client was ever given |
| `version` | the person's `sessionVersion` |
| `usage`, `ocr` | OCR usages with the session that holds them; whether their content is held, due or purged |
| `page` | late sessions the reaper has read and not handled |

`Edit` covers edits and answers, `Prepare` the proposal with its questions,
`Challenge` the nonce, `Confirm` the financial request. `Execute` is one of
`ExecuteLate` (the session expired), `ExecuteReview` (something changed: back to
review) and `ExecuteApply` (booking, release or continuation). `Delete` removes an
expense with all its triggers, `Register` is any other way an expense comes to be,
`Revoke` raises the session version, `BecomesDue`, `RetentionEnds`, `TakePage`,
`Reap` and `Expire` are retention. `Facts` is what the card batch looks at: claims,
family members and identity keys of matching expenses. Purchases in one payment
that were read from two documents have no common key and are not recognised as
duplicates by the code; in the module only expenses from elsewhere carry keys.

### ReaperCycle, RetentionScheduler and RetentionJob

Sessions, temporary files, stored documents and aged provider text are ranks in the
order the pages are read (`sess`, `file`, `doc`, `text`; `requested` are the sessions
with a financial request). `text` is the usage row of an OCR attempt: none, its text
kept, due, or purged (the row stays). `phase`, `page` and `left`
are where `runCycle` is, the rest of its page and of its limit. A purge succeeds,
finds nothing to do or cannot drain (`HeldFiles`, `HeldDocs`). A held descriptor is
modelled as outliving restarts, which is pessimistic.

Two transactions of a cycle may be refused, and are again in every later cycle until
somebody changes the rows: the closing of a late session whose attachment has a usage
row (`Unclosable`; a cancel is refused for the same reason, `Unreleasable`), and the
erasure of due text in a session with a financial request (`Unerasable`). The cycle
ends there (`Throw`), with its rows as they were. `OcrAttempt`, `TextAges`,
`UserLooks` (a request of the session ends due retention first), `Confirm` and `Apply`
are how sessions come to be in these states.

A scope is its rank in key order. `Start` takes the page of scopes after the
cursor, `Serve` ends a cycle that succeeded, `Fail` one that threw, met a stale
capture or an unfinished purge (which ends the pass in front of the scope),
`Finish` wraps the cursor when the page was short, `Restart` loses it. In
`RetentionJob` the cycle of scope `Mine` is `ReaperCycle`'s and decides by its own
outcome (`RowRefused`, an undrained purge, a mishap) between `Serve` and `Fail`; the
cycles of other scopes are one step.

### VaultGate

| Variable | Code |
|---|---|
| `path`, `holder`, `replaced` | the file at `VAULT_DIR/.lock`, the owner of each inode's flock, replacements of the file (the kernel's part) |
| `fd`, `stage` | descriptor 9 and how far a launch is (`docker-entrypoint.sh`, `vault-startup.ts`) |
| `gate` | `VaultBootHandle`: `PENDING`, `ON`, `OFF` |
| `proof` | the lock facts being collected (`vault-lock.ts`, `vault-probe.ts`) |
| `registry` | `VaultFdRegistry`: open, draining, drained, timed out |
| `work` | uploads, reads and erasures: asking for a recheck, inside, in a system call, done |

`Prepare`, `Open`, `Flock`, `Launch`, `GiveUp` are the launcher; `ReadPath`,
`ReadOwner`, `Decide`, `Probe`, `Answer`, `CheckFails` one proof, shared by everybody
who asks while it runs; `BootTimeout`, `Serve`, `Terminate`, `Drain`,
`DrainTimeout`, `Exit`, `Crash` the life of a process; `Ask`, `Enter`, `Begin`,
`End`, `Close` a piece of work; `Replace` somebody who replaces the file. An
erasure takes no lease of the registry, so `DRAINED` says nothing of it: only the
lock that is held until the process exits does (`SoleUser`). A recheck has no
timeout of its own, so nothing is promised of one whose kernel call hangs.

### CardInvoices

| Variable | Code |
|---|---|
| `purchase` | an expense on the card: status, due months, price, `paidParcelas` (`parts`, `whole`), status of its cash-flow entries (`paid`), copies that payPlanned left |
| `payment` | the expense of a payment: live or gone, invoice key, stamped number of trail rows |
| `ledger` | active rows of the trail of imported settlements |
| `undo`, `liquidate` | what an undo, or `payPlanned`, read before its transaction |
| `by` | history: the payment that last paid an installment |

`PayInvoice` and `ImportStatement` select the invoice, flip entries and write trail
rows; `UndoRead`, `UndoCommit`, `UndoRefused` are the two halves of
`undoInvoicePayment`; `UndoImport` is the revert of an import batch;
`EditPurchase` joins the edits that touch entries (status of an installment,
re-planning, date, removal), each with its guard; `PayPlannedRead` and
`PayPlannedCommit` are `payPlanned`. One card with closing and due days, one payment
per bank statement, a constant tolerance; the queries of `UndoRead` are one step.
A manual payment without a key may be removed while other installments it paid stay
paid (`PaidForAReason` excepts them), and a manually paid installment that is moved
to another month escapes the undo: both are what the code does.

### CrossProjectSettlement

| Variable | Code |
|---|---|
| `expense`, `cash` | rows of expenses; their cash-flow entries with generation and funding |
| `funding` | additive settlements with their proofs of source and target |
| `legacy` | settlements that replace the planned value and make the debit a mirror |
| `share` | allocations of rateios, with the plan a target had |
| `planned` | history: that plan, kept independently |

`ApplyParcelaFunding`, `UndoParcelaFunding` (`additive-settlement.ts`),
`SettleTargetParcela`, `UnsettleBySource`, `RatearSource`, `UnratearSource`,
`LinkCrossProject`, `UnlinkCrossProject` (`conciliacao.service.ts`), `Update`,
`SetParcelaStatus`, `UpdateInstallmentDate`, `Remove`
(`expense.service.ts`). Installments of an expense have equal prices and a debit is a
single payment; a funding's debit is not itself settled and the siblings of settled
installments are not toggled (section 6 tells what the code does then); the real
value a caller gives may differ from the mirror's.

### Quiesce

| Variable | Code |
|---|---|
| `now`, `deadline`, `file`, `pointer` | the clock; the files of the volume; `manifest.current` |
| `asked`, `client` | requests, and the `op-wrap.sh` processes that publish them |
| `watchdog`, `sup`, `group`, `job` | `watchdog.sh`, its supervisor, the living processes of the chain and what they do |
| `faults`, `acked`, `settled`, `ran`, `complete`, `restored` | bound and history |

Each step of a script that another process could see is an action. The lock shared
by Node and the chain is inherited: it is free when the supervisor's and the
chain's processes are gone. `Tick` waits for everything that is due; one tick is
longer than the polling interval and the short sleeps. Reuse of process groups, the
form of signals, a failing `mv` of `REQUEST` and the effects of the commands on the
database are not modelled; dry runs of both kinds share one pointer. When op-wrap or
the watchdog dies between `REQUEST` and `RUN`, later publications are refused until
the deadline: nothing is lost, so no property speaks of it.

### Names of mutants

Operators whose comment starts with "Mutant:" are not part of the model. Each is
a plausible mistake in the definition below it (`PROJECT.json` pairs them), and
puts the properties to the test: with the mistake, TLC finds the property broken.

### Grouped properties

A module's invariants are stated one by one, each with the behaviour it is about,
and then joined: `FilesAreSafe`, for example, is the conjunction of five that relate
rows, directories and descriptors (`StoredIsWhole`, `NoOrphanBytes`,
`NoEraseUnderDescriptor`, `EraseNeverAnomalous`, `CapturesStayFresh`). Configurations
name the conjunctions. `AttachedHasBytes` stands alone, because the code keeps it only
as long as no document has been through OCR (section 6).

## 3 The runs

Symmetry is used only for names the code hands out in any order (artifact ids,
request names, nonces, the two sessions a person opens), and never with liveness.
Deadlock is checked in `retention` only: elsewhere ids are finite and the system may
come to rest.

| Run | Question | Instance |
|---|---|---|
| `vault` | Are rows, directories, descriptors and purges ever out of step? Limits on uploads, a document once per session, settled retirement, final tombstones, and the refinement of `DocumentCustody` | two users with a session each and a continuation, three uploads of one scanned document, two artifact ids, two downloads, one mishap |
| `vault_progress` | Are uploads answered and bytes erased, although uploads wait for purges and purges for uploads? Does an attached document have its bytes? | two uploads of a document that needs no OCR, one artifact id, two write attempts, one mishap |
| `quota` | Do rows and files stay within all limits, and does the quota come back, unless a refused release stands in the way? | three users in two tenants, four sessions, three uploads of documents of 2 and 3 bytes, one of which OCR may have read; limits 4, 4, 5, 6 |
| `analysis` | One writer per document, one call of the provider per attachment, rows that tell the truth, nothing left behind | two sessions with one scanned document, three analyses of which two ask for OCR, two user edits, one mishap or one continuation |
| `budget` | Does what the provider took stay within three limits in four units? | four attempts, two users, two tenants, two days |
| `workflow` | Is what is booked what was shown, once, without silent duplicates? Does the workflow implement `FinancialRequests`? | two sessions, one continuation, three lines in three documents, two purchases, two expenses from elsewhere |
| `workflow_ocr_deadline` | Expected violation, section 6 | one session with one scanned line |
| `retention` | Which scopes, and which due rows of a scope, are served, and what waits behind a refusal? | two scopes with pages of one; two sessions with uploads, documents and OCR text, a limit of two, one descriptor never closed, any number of refused closings and erasures, one failed cycle, one restart |
| `gate` | Does one process use the vault? Do boots and stops end, quietly? | two launches, two lock files, an upload and an erasure with one operation each, one replacement |
| `card` | Are installments paid for a reason and undos exact? | purchases in two installments and in one, from a statement and by hand; two manual and two imported payments; two undos, one liquidation |
| `settlement` | Do fundings, settlements, rateios and edits keep each other's facts? | three debits, two expenses of two installments, two request keys |
| `quiesce` | Does a recovery window keep Node and commands apart, keep every request, and end? | two operators, two requests, an apply of two commands, deadline at 6, one fault |

Why these bounds are enough for the cases that matter:

- `vault`: two attachments of one document already produce every relation between
  uploads that the code distinguishes: first and second, adopt, share, blocked,
  duplicate, rematerialization of a purged artifact. The third is the continuation's.
  Two artifact ids let a document be retired and stored again under a new row. The
  slot limit is production's 2 (`IMPORT_SESSION_LIMITS.concurrentUploadsPerTenant`), as is
  `writeAttempts` 3; the liveness run uses 2, one retry being enough to meet a second
  purge. One mishap at any step: recovery has no memory of earlier mishaps other than
  rows and directories, which other steps leave behind as well.
  At most two uploads coexist here, so only the limit of a user can be exceeded by a
  mistake; for the tenant's, `UploadsStayWithinLimits` is proved for any number.
- `quota`: each of the four limits refuses a reservation that the others admit.
- `analysis`: the second session finds the first one's lease, result, or failure;
  the first one's second request meets its own first.
- `budget`: tokens bind a user, pages a tenant, bytes everybody, and a settlement
  gives enough back for one more call, on either side of midnight.
- `workflow`: an id of a financial request is presented by two sessions; two lines
  tell of one purchase in installments; a purchase has a weak and a strong key
  elsewhere. `MaxRev` is above what a person needs to confirm twice.
- `retention`: a full, a short and an exactly full page of scopes; a closing that
  uses up the limit; one row at the head of the page that never drains; a refused row
  before and behind one that is not, in the scope in front and with a scope behind
  it. The cfg's
  limit is greater than the number of held descriptors, which is the assumption under
  which rows are not passed over: with as many of them as the limit (64 in
  production) the pages would be full of them.
- `gate`: old and new process of a deploy; an inode of each.
- `card`: an invoice that is closed by one payment, by another one too, or by none.
- `settlement`: a debit funds two installments of two expenses; an installment is
  funded by two debits.
- `quiesce`: a second request is published during every phase of the first, and the
  first may run into the deadline.

The `CONSTRAINT Case` of some runs says which things are not combined in one
behaviour, to keep the instance small. Each combination that is left out is of
parts that touch only through rows that stay combined:

- `vault`: the continuation's upload `r3` with a second user's session; OCR with
  mishaps, with `r3`, or with the other download; mishaps or downloads with a
  continuation. Mishaps next to two uploads are also in `vault_progress`.
- `analysis`: a mishap or a continuation happens only while the second session does
  nothing.
- `workflow`: expenses from elsewhere and revoked logins appear with one session, not
  both of them; a session is late only with one document; when both sessions share the
  document nobody keeps an existing expense.
- `card`: edits with one manual and one imported payment; several payments, the
  liquidation, and the purchase by hand without edits, in the pairs the
  definition lists.
- `settlement`: a rateio not with a funding, which would have excluded it or been
  excluded by it (the guards between both are looked at when either comes first); an
  edit of a price not with a settlement.

## 4 Fairness

`vault_progress`: weak fairness of the steps the server takes by itself, that is, each
step of an admitted upload (`UploadRuns`), the passing of a lease, each step of a
purge in flight (`PurgeRuns`; a drain has a timeout, so it is never blocked) and the
end of a download that was aborted. `ReaperPurges` is strongly fair per key: the
reaper scans due items in id order every minute and awaits one purge at a time, so
a key that stays due is taken, though it is not takeable while the reaper is busy;
`retention` examines that. Clients owe nothing. `StorageIsReclaimed` is stated about
all keys together: attachments are finite, so "all that is due is gone" says the
same as "each is erased".

`quota`: purges go on and sessions end, the latter because the reaper expires them, but
only while nothing obstructs it (`Unobstructed`). A cycle whose closing is refused ends
there, and so does each later one, so that nothing is owed to the other sessions
either; `QuotaIsGivenBack` is stated for behaviours that are unobstructed from some point on.

`retention`: weak fairness of the job, because the cron keeps firing and every
cycle ends or throws. Whether a cycle fails is not subject to fairness. Users owe
nothing: nobody has to cancel, confirm or look at a session. `NothingIsPassedOver` excepts
what comes after a refused row: behind an `Unerasable` text nothing of the scope but
older text, behind an `Unclosable` session nothing that comes later in the cycle.
`EveryScopeIsServed` excepts `Obstructed`, a row that waits for a descriptor that is
never closed or is refused, and says what happens then: if it lasts, the
cursor stays in front of the scope and no later scope is served.

`gate`: only timers fire (`TimerSpec`). That the kernel answers (`KernelAnswers`) is a
premise of `ReplacedFallsSilent` and of nothing else.

`quiesce`: the kernel schedules the watchdog and the supervisor and delivers
`timeout`'s signals; the clock goes on (strong, as it waits for what is due).
Operators and commands owe nothing: a command may hang. `NodeComesBack` needs the
configured `LOCK_WAIT` to exceed the command's time limit plus twice the kill time, as the
cfg's values do, and excepts the death of the watchdog or the supervisor and a
process that survives its kill.

`workflow_ocr_deadline`: time passes and the reaper's cycles come.

## 5 The proofs

Every theorem holds for all values of the constants that satisfy the module's
assumption. Where a theorem has a further hypothesis, this section names it.

### `ImportVaultProofs`

`VaultAssumption`: distinct ids, `None` different from them, each attachment with a
document and a home session, positive limits. The invariants come in layers, each
of which uses the ones before it.

`IInv` gives `TypeCorrect`, `DocumentHeldOnce` (`SessionHoldsDocumentOnce`) and
`TombstonesStay` (`TombstonesAreFinal`):

| Conjunct | Why it is needed |
|---|---|
| `TypeOK` | |
| `AttachedHasArtifact` | an admitted download captures `ref[r].art`, which is an artifact only if attached rows have one |
| `PurgeHasHome`, `ReadHasArtifact` (`ProcsBacked`) | a rename puts `<<key, directory>>` into the trash and an uncertain close leaks the artifact's key; both are typed only because what was captured stays captured |
| `LiveSessions` | a continuation is a session in state `NEW`; live rows are never in one, so what is handed over cannot meet a row of the same document |
| `SessionHoldsDocumentOnce` | |
| `RowsBacked` | a deleted row has no hash, no OCR content and no claim, so neither the end of OCR retention nor the deletion of a claim can revive it |

The argument about attachments goes through `RowsCarried`: all steps but `Reserve`,
`FinalizeAdopt`, `FinalizeShare` and `Apply` leave every live row in its session
and every attached row with its artifact. The argument about tombstones goes
through `CommitArtifacts`: the triggers at the end of a transaction retire or
delete only rows that exist and that no claim refers to, so it suffices to look
at the statements before them.

`FInv`, with `IInv`, gives `BytesStayOwned` and `FilesStaySafe` (`FilesAreSafe`):

| Conjunct | What it says |
|---|---|
| `Reservations`, `SoleOwners` | a reservation owns its directory; no two rows answer for one directory |
| `BytesOwned` | every directory on disk has a row that answers for it, and what is in the trash belongs to a purge that is due |
| `Streams`, `Reads` | an upload writes into a directory its row owns; a download past its recheck reads the artifact's own, whole original |
| `StoredIsWhole` | an artifact in a stored state has the whole file |
| `Purges` | what a purge captured is still what the row says, and past the drain nobody has the bytes open |

`UnmarkedDocumentsHaveBytes` is `Spec /\ []NoStaleMark => []AttachedHasBytes`, and
`AttachedDocumentsHaveBytes` is `[]AttachedHasBytes` from `Scanned = {}`. `NoStaleMark` (a purged
artifact has no OCR content) is the exact condition under which a document that is
shared has storage; section 6 tells when the code breaks it. With `Scanned = {}`, which
is also what the run assumes, it always holds.

`RetirementStaysClean` (`RetirementIsClean`) rests on `Linked` (what refers to an
artifact is attached, or released by a session that has ended; a confirmed session
refers to no retired artifact) and `Retired` (nothing is half retired, and nothing
retired has OCR content). `CommitRetires` shows that every transaction establishes
`Retired`, whatever its statements were.

`UploadsStayWithinLimits` (`UploadsWithinLimits`) rests on `Throttled`: an attachment keeps
its owner when it is handed over, and the uploads that have a claim or may write
(`Taken`) are within the limit, one per owner. All slots together are not: a failed
claim may enter the registry late, which is why the limit is stated of `Taken`.

`VaultImplementsCustody` (`ImplementsCustody`) is the refinement of `DocumentCustody`, with a
lemma for each action of the vault: which abstract step it is, or that it is a
stutter. `BlobStep` reduces each to what it does to the stored bytes and to the
sessions that hold them.

### `DocumentAnalysisProofs`

`AnalysesDoNotCollide` (`OnlyOnce`), `RowsTellTheTruth` (`ResultsAreTrue`), `AnalysesCleanUp`
(`NothingIsLeftBehind`), from one invariant with these parts: `Fences` (parse
generations only grow and no two runs were given the same one of a document, which
is why a run that lost its lease cannot pass the compare-and-set of another);
`Attempts` (an attachment has one usage row); `Billed` and `Admitted` (how far the usage
row is at each place of a run); `Drafts` (what could still be published is pending, so
its lines appear once); the truth of extraction, ledger and leases; and, as long as
nothing was lost, `Orderly`.

### `LimitsProofs`

Of `OcrBudget`: `BudgetTypes`; `ChargesAreTrue` (`ChargeIsTrue`): a charge covers what the call took and is
lowered only to what the provider reported. The strengthening relates a process
that has not sent to a row with its full charge. `SpendStaysWithinLimits`
(`SpendWithinLimits`): for any number of attempts, what the rows of a day reserve is
within every limit. The sum over a set of rows is counted by units: `Units` is the
set of pairs of a row and one of its units, its cardinality is the sum
(`SumIsUnits`), and changing one row changes it by the difference (`SumAdds`). The fold
that defines the sum picks elements one by one; `LeastSet` gives the induction over
finite sets that the argument needs from the well-founded ordering of subsets.

Of `ImportQuota`: `BytesStayWithinLimits` (`BytesWithinLimits`), for any number of users, tenants,
sessions, documents and sizes. What the run checks of the disk is not inductive: a
reservation looks at rows and writes its bytes later, and a purge erases a file before the
row that counts it. `QuotaInv` therefore bounds what the rows count (`QuotaLimits`: `Stored` of
each tenant and of all, and what each user pays for) and says where every file is
counted (`Custody`). `RefsAreSound`: a reference that still waits for its bytes or for their purge is
temporary, and one with a document has the one of its tenant and content.
`DocumentsAreSound`: a document that counts has a home, which is no longer temporary,
and its declared size, and nobody is attached to one that is being purged.
`FilesAreKnown`: a file is what a temporary reference waits for, or the home of a
document. TLC checked these parts on the run's instance before they were proved. A step
without a new temporary reference or a new document that counts lowers the sums
(`StoredStays`, `SpentStays`); an adoption moves bytes from the one sum to the other; a
reservation is what `Admits` allows. A user may come to pay for a document only as its
last holder, or as the last to leave it, who paid for it already: `EndedPayers` shows that
closing or continuing a session gives no user a document to pay for. `DiskIsStored`
counts each file where `FilesAreKnown` finds it, and no document twice, which bounds the
disk by the rows.

### `ImportSessionWorkflowProofs`

`ClaimsStaySound` (`ClaimsAreSound`), `BookingsWereShown` (`BookedAsShown`), `NothingIsBookedTwice`
(`NoSilentDuplicates`), `SessionsImplementRequests` (`ImplementsFinancialRequests`). `WInv` says of
each session's row, in every state, how proposal, confirmation, revision and what
the person saw are related (`Sound`); that a financial request is of one session
(`OneSession`); and that a line that was booked stays claimed until it is gone, and
a claim has its booking (`Bookings`, `ClaimsAreBooked`). A step confirms a request, applies one, or is
`AllCalm`: it does neither to any session. `ConfirmRefines` and `ApplyRefines` map the
first two to the abstract actions of that name, `CalmRefines` maps a calm step to `Refuse`,
for the requests whose sessions stop being confirmed, or to a stutter.

### `CardInvoicesProofs`

`InstallmentsStaySound` (`InstallmentsAreSound`), `TrailsStaySound` (`TrailIsSound`), `UndoesStayExact`
(`UndoesAreExact`). `IInv` has the parts `Typed`, `Purchased` (the entries of each
purchase are paid as its status says; a statement of the card comes as a whole),
`Trail` (a row of the trail tells of an installment that its payment paid, as it is, and
all of its rows are there), `Keyed` (only manual payments have a key, the month of the
undos that chose them) and `Credits` (what a payment with a key paid is on the invoice
of that key, what an imported one paid is in its trail). That `ImportStatement` finds no live row on the invoice it pays
follows from `Trail`, not from its guard. `LeastNumber`, that a set of numbers has a least
one, is the lemma behind the model's `First`.

### `CrossProjectSettlementProofs`

`KeysMoveMoneyOnce` (`KeysAreSpent`) and `NothingIsSettledAndShared` (`SettledOrShared`) hold without
hypotheses. `PlansAreGivenBack` (`PlansComeBack`) assumes `Separate`: no expense is both a
debit and a target. `SettlementsAreKept` (`SettlementsStand`) assumes `Separate`, `SettlesOnce` (a
debit settles one installment) and `Untoggled` (the status of a settled
expense's installments is not toggled by hand). `SharesAreKept` (`SharesStand`) assumes
`Separate` and `Divided` (the parts of a rateio are multiples of the number of the source's
installments, as the model has installments of equal price). The hypotheses name uses of the
operations, not properties of the states: section 6 tells what the code does for
those that are left out, and the run's instance satisfies all of them. The
invariants: `Books` (rows have their fields, request keys are unique,
fundings refer to expenses that exist, settlements and shares come from the
operations that make them, what is shared is alive), `Remembered` (a share remembers
the plan the target had), `AllStanding` (one settlement per installment, and each shows
the real value) and `Allotted` (an expense is shared out by one source; the parts of a
source sum up to it; the cash flow of a target is one entry of its price per
installment). Each operation is either shown to be `Quiet` for every allocation or
is the one that makes or ends it.
`FundingsAreKept` (`FundingsStand`) assumes `Apart`: no expense that funds, settles or is
shared out is itself paid for (section 6). Its invariant adds the types of rows,
entries and tables (`GoodExpenses`, `GoodTables`) and `Secure`, which TLC checked on the run's
instance before it was proved. `Secured` says of an active funding that its participants are as its
proofs say (`SourceStands`, `TargetStands`) and that its installment has the projections of
its fundings, the balance that remains, and nothing else (`Balanced`). That alone is not
inductive: an undo must leave behind an installment that can be funded again, and a
settlement of a sibling must not bring an entry that looks like a projection, so `Untagged`
says that an entry carries a key, or is hidden, only under a funding of its installment;
and `Context` refuses expenses that others link to, so `Mirrored` says that who links to a
participant is the mirror of a settlement of it. Every operation other than a funding
and its undo is shown to be `Calm`: it changes nothing that an active funding rests on, though it
may rebuild the cash flow of a target's other installments. `AmountAssumption` says of
amounts what requests are validated for. The sums are counted by units, as in
`LimitsProofs`; `SumRenamed` carries a sum along a bijection, from the parts that were asked for
to the rows that were written.

### `ApiProcessProofs`

Of `VaultGate`: `GateTypes`; `OneProcessUsesTheVault`, `Spec => []SoleUser`; `StopStays`, `Spec => StopIsFinal`;
`StopIsClean`, `Spec => []StoppedIsQuiet`. The inductive invariant says that a process past
the lock has the flock of the inode it opened (`Held`), that this is the inode at the
path until somebody replaces it (`Unreplaced`), that work is done only by processes past
the lock (`Busy`), and that a gate that is `OFF` has sealed its registry, which when
drained holds nobody (`SealedByStop`).

Of `RetentionJob`: `PagesStaySound` (`PagesAreSound`), for any number of scopes and rows and any
limits. `JobInv` adds to the types that, while late sessions are closed, the rest of
the page fits what is left of the limit (`ReaperInv`): each closing takes one of it, so that
the later pages never get a limit below zero. `PageIsBounded` says that a page of `n` has at
most `n` rows, since their ranks are different numbers below `n`; `NextIsAhead` that serving
the least scope of a page keeps the others ahead of the cursor.

### `QuiesceProofs`

`WindowIsKept`, `Spec => []WindowIsSafe`: Node never runs beside a process of a chain, and no
chain runs after its return, whatever dies when. Its invariant (`Armed`, `Alone`,
`Closed`) says who holds the lock at each place of the watchdog and the supervisor and
that the window cannot be armed again. `DeadlineIsFree` proves `ChainOverByDeadline` from
`Bounded` (`KillAfter <= Margin`) with the invariant `Punctual`, which bounds the time left
at each stage of a chain and holds as long as it is `Supervised`. `ManifestsAreComplete`
(`PointerIsComplete`) and `RequestsRunOnce` (`RequestsAreHonoured`) follow from `QInv`, which adds
what the files of the volume hold at each place of the processes that publish and
consume them (`Publishers`, `Volume`, `Underway`), and that the id of a request is new
(`Fresh`) and has one publisher (`Sole`).

### Only model-checked

- Liveness and ENABLED, which are beyond the prover: `NodeComesBack`, `EndsAreReached`,
  `ReplacedFallsSilent`, `NothingIsPassedOver`, `EveryScopeIsServed`, `QuotaIsGivenBack`,
  `StorageIsReclaimed`, `UploadsAreAnswered`.

Every other property of a passing run is stated by a theorem.

## 6 Where code and documents disagree

`workflow_ocr_deadline` shows one case with a trace. A `CONFIRMED` session whose OCR
content reaches its seventh day can be neither executed, cancelled nor expired:
`enforcePdfOcrRetention` (`ocr/pdf-ocr-retention.ts:223`) clears `proposal_hash`, which
`import_sessions_confirmation_tuple_check` refuses for a row with a financial
request, so every transaction that comes near rolls back, the reaper's included.
`docs/maria-ia.md:64` says that a pending draft expires after seven days.

The following were met while modelling. The models follow the code, and no run is
spent on them; where a property excepts one, its comment says so.

- After an OCR attempt, releasing the last reference of a document makes a trigger
  delete the attachment row, which the foreign key of the usage row forbids: cancel,
  expiry and execute roll back. `docs/maria-ia.md:62` says that cancelling closes the
  draft and releases its references. `ImportVault` and `ReaperCycle` keep the rollback,
  `ImportQuota` allows it, and `retention` shows what it stops: the reaper throws at the
  same session in every cycle, so later sessions, files and documents of the scope wait
  with it.
- The end of OCR retention (`enforcePdfOcrRetention`, `ocr/pdf-ocr-retention.ts:287`, and the
  reaper's `purgeAgedOcrContent`) writes `RAW_READY` over whatever state an artifact with OCR
  content is in, a purged one included: a completed purge (`vault-purger.ts:286`)
  leaves `parserVersion`, and no trigger or check forbids the write, although the trigger's
  message speaks of rematerialization first. `finalize` (`import-upload.service.ts:900`)
  then shares the row, which is neither `PURGING` nor `PURGED`, without looking at its
  storage key: a third upload of the document is attached to an artifact without
  bytes. TLC finds this behaviour of 46 states when `AttachedHasBytes` is put to the
  `vault` instance with a retained extraction; `UnmarkedDocumentsHaveBytes` (section 5) names
  what is missing.
- Closing the session that ran the OCR marks its usage row as purged while another
  session keeps the extraction, so nothing removes it at the deadline that
  `docs/732-direct-pdf-vertex-eval.md:46` promises.
- A token count over the limit is answered before provenance exists, and the ledger
  takes that outcome only with provenance: the settlement is refused and the row stays
  `ATTEMPTED` with its full charge (`import-session.extraction.service.ts:1242`).
- A single payment that a funding paid in full on its own date passes for a paid
  debit: if it has a bank account of a personal project, it may fund an expense in
  turn (`context`, `additive-settlement.ts:541`). Undoing the first funding looks at the fundings
  of the same source and of the same target (`:497`), not at those that its target pays,
  and so changes the source behind the second one's proof, which `undoParcelaFunding` then refuses
  for good. TLC finds it in three steps when an expense of the `settlement` instance is on
  both sides; the instance and `FundingsAreKept` leave it out.
- A scope whose cycle fails every time is tried again every minute and no later scope is
  served (`vault-retention.scheduler.ts:64`), while its comment says that the keyset
  "rotates fairly through scopes". A session that cannot be closed is enough. The
  second part of `EveryScopeIsServed` states it.
- A manual payment may come to stand beside the trail of an imported one on the same
  invoice, though `monthly-overview.service.ts:3795` says "os dois não coexistem".
- `undoInvoicePayment` undoes only when "EXATAMENTE UM" manual payment matches the
  invoice (`:3662`), but counts them outside of its transaction: a second payment
  that is registered before the transaction does not stop it.
- `payPlanned` reads the planned purchase before its transaction
  (`expense.service.ts:2636`): two requests liquidate it twice.
- A settlement by an expense of a third project strands a funding
  (`conciliacao.service.ts:395`); replacing the mirror on one installment removes the
  settlement of another one (`:432`, `:646`); toggling a sibling of a settled
  installment shows the planned value again (`expense.service.ts:2822`).

## 7 What is not modelled

Components that are CRUD, calculations without state, user interface or calls of
external services: the agent, journeys, receipts, plants and floor plans, the
dashboards, simulations, the web application, the domain package's types and
parsers, CI scripts. They are most of the repository's lines and have little for a
model checker to find; the parsers and matchers are single functions over strings
and dates for which reference definitions would repeat the code. `PROJECT.json`
gives the reason for each component.

Within modelled components: the content of documents, parsers, the provider's wire
format; the clean-up of terminal observations; native declarations and the fields
of a line other than its decision; allocations to target projects; documented
schedules, adjustments and shared purchases of an invoice, statements with several
payments; recurrences; the layout checks of the vault at start; several tenants,
except for quotas and budgets.

Each user's quota is exceeded for a while by copies that wait for their purge, which
`UserWithinLimit` leaves out. The reaper's progress is shown for closings and erasures
that are refused for ever, and for purges that fail a bounded number of times or wait for
a descriptor; a purge that throws in every cycle stops what is behind it as a refused
closing does, and is not modelled. In `ImportSessionWorkflow`, which is about bookings,
a release is never refused: a rolled-back transaction is a stutter there. A document that is attached and freed over and
over may be passed over each time.

## 8 Plan

1. Users and sessions: the last administrator, unique names, `sessionVersion` next to
   requests under way.
2. The restore of imported expenses, and recurrences with their propagation.
