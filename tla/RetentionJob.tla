---------------------------- MODULE RetentionJob ----------------------------
(***************************************************************************)
(* The retention job: the rotation of RetentionScheduler over the scopes,  *)
(* where the cycle of one scope, Mine, is the reaper's own (ReaperCycle).  *)
(* The rotation waits until that cycle is over, and how it ends decides    *)
(* whether the cursor moves.                                               *)
(***************************************************************************)
EXTENDS ReaperCycle

CONSTANTS
  Scopes,       \* the ranks of the scopes that may ever have a session
  Mine,         \* the scope whose cycle is spelled out
  ScopesPerCycle,
  MaxFailures,  \* bound on the failures of the other scopes' cycles
  MaxRestarts   \* bound on restarts of the process

ASSUME JobAssumption ==
  /\ Scopes \subseteq Nat \ {0} /\ IsFiniteSet(Scopes) /\ Mine \in Scopes
  /\ ScopesPerCycle \in Nat \ {0} /\ MaxFailures \in Nat /\ MaxRestarts \in Nat

VARIABLES
  known, after, running, queue, short, failures, restarts,  \* RetentionScheduler's
  drained   \* a purge of the cycle under way was not finished

rotation == <<known, after, running, queue, short, failures, restarts>>
jobVars  == <<reaperVars, rotation, drained>>

\* The cycle of Mine fails as often as the reaper says.
Rotation == INSTANCE RetentionScheduler WITH page <- queue, Stuck <- {Mine}

Turn == running /\ queue # {} /\ Rotation!NextScope = Mine

\* The row being handled has a descriptor that outlasts every drain.
Undrained ==
  \/ phase = "FILES" /\ page # {} /\ Min(page) \in DueFiles \cap HeldFiles
  \/ phase = "DOCS"  /\ page # {} /\ Min(page) \in DueDocs \cap HeldDocs

JobInit == ReaperInit /\ Rotation!Init /\ drained = FALSE

\* The reaper's cycle on Mine.  When it is over, the cursor passes the scope only if
\* the cycle did not throw and every purge was finished.
CycleOfMine ==
  /\ Turn /\ Cycle
  /\ drained' = (phase' # "IDLE" /\ (drained \/ Undrained))
  /\ IF phase' # "IDLE" THEN UNCHANGED rotation
     ELSE IF drained \/ RowRefused \/ mishaps' # mishaps THEN Rotation!Fail ELSE Rotation!Serve

\* Everything else of a pass, with the cycles of the other scopes in one step.
PassElsewhere ==
  /\ ~Turn /\ Rotation!Pass
  /\ UNCHANGED <<reaperVars, drained>>

JobRestart ==
  /\ Rotation!Restart
  /\ Rest /\ drained' = FALSE
  /\ UNCHANGED <<rows, mishaps>>

Clients ==
  \/ \E x \in Scopes : Rotation!NewScope(x) /\ UNCHANGED <<reaperVars, drained>>
  \/ Mine \in known /\ Others /\ UNCHANGED <<rotation, drained>>

Job == CycleOfMine \/ PassElsewhere

JobNext == Job \/ JobRestart \/ Clients

JobSpec == JobInit /\ [][JobNext]_jobVars

\* The cron keeps firing, and a pass keeps going whether its cycles fail or succeed.
JobFairSpec == JobSpec /\ WF_jobVars(Job)

----------------------------------------------------------------------------

\* Every variable stays in its domain, the page of scopes is bounded and lies ahead of
\* the cursor, and the reaper is at work only while it is the turn of its scope.
JobTypeOK ==
  /\ ReaperTypeOK /\ Rotation!TypeOK
  /\ drained \in BOOLEAN
  /\ phase # "IDLE" => Turn

\* A row of Mine waits for a descriptor that is never closed, or is refused by the
\* database in every cycle.
Obstructed ==
  \/ \E i \in HeldFiles : file[i] = "PENDING"
  \/ \E i \in HeldDocs : doc[i] = "FREE"
  \/ \E i \in Ids : Unerasable(i) \/ Unclosable(i)

\* "A bounded keyset rotates fairly through scopes" (vault-retention.scheduler.ts) only
\* as long as every cycle can succeed: then every scope with sessions is served again
\* and again, also when the page is exactly full, when scopes appear behind the cursor,
\* and after failed cycles and a restart.  Once something in Mine is refused or held for
\* good, the cursor stays in front of Mine, and no later scope is served any more.
EveryScopeIsServed ==
  /\ \A x \in Scopes : (x \in known) ~> (after = x \/ Obstructed)
  /\ <>[]Obstructed => <>[](after < Mine)

\* The pages of scopes and of rows are bounded, ahead of what was served, and harmless
\* when stale (vault-retention.scheduler.ts and vault-reaper.ts).
PagesAreSound == []JobTypeOK /\ StalePagesDoNoHarm
=============================================================================
