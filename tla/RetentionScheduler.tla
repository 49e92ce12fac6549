------------------------- MODULE RetentionScheduler -------------------------
(***************************************************************************)
(* Which scope (tenant and owner project) the retention job hands to the   *)
(* reaper next: every minute it takes the next page of scopes in key order *)
(* and runs one reaper cycle per scope (vault-retention.scheduler.ts).     *)
(*                                                                         *)
(* A scope is named by its rank in key order; 0 is the null cursor.  Here  *)
(* a cycle succeeds, or fails: it throws, or one of its purges is not      *)
(* finished.  RetentionJob puts the reaper's own cycle in its place.       *)
(***************************************************************************)
EXTENDS Naturals, FiniteSets, FiniteSetsExt

CONSTANTS
  Scopes,       \* the ranks of the scopes that may ever have a session
  ScopesPerCycle,
  Stuck,        \* scopes whose cycle may fail every time
  MaxFailures,  \* bound on the failures of the other scopes' cycles
  MaxRestarts   \* bound on restarts of the process

VARIABLES
  known,    \* scopes with an import session; sessions are never deleted
  after,    \* the cursor: the last scope served, 0 at the start of a rotation
  running,  \* a pass is under way
  page,     \* scopes of the pass still to serve
  short,    \* the page held fewer than ScopesPerCycle scopes
  failures, restarts

vars == <<known, after, running, page, short, failures, restarts>>

\* The first n of the set S in key order.
First(n, S) == {x \in S : Cardinality({y \in S : y < x}) < n}

Init ==
  /\ known = {}
  /\ after = 0
  /\ running = FALSE
  /\ page = {}
  /\ short = FALSE
  /\ failures = 0
  /\ restarts = 0

\* The first import session of a scope is created.
NewScope(x) ==
  /\ x \notin known
  /\ known' = known \cup {x}
  /\ UNCHANGED <<after, running, page, short, failures, restarts>>

\* The cron fires; a pass that is still running refuses the next one.
Start ==
  /\ ~running
  /\ running' = TRUE
  /\ page' = First(ScopesPerCycle, {x \in known : x > after})
  /\ short' = (Cardinality(page') < ScopesPerCycle)
  /\ UNCHANGED <<known, after, failures, restarts>>

NextScope == Min(page)

\* runCycle succeeds: the cursor moves past the scope.
Serve ==
  /\ running
  /\ page # {}
  /\ after' = NextScope
  /\ page' = page \ {NextScope}
  /\ UNCHANGED <<known, running, short, failures, restarts>>

\* runCycle throws, or one of its purges drained out or went stale: the pass ends
\* and the cursor stays in front of the scope.
Fail ==
  /\ running
  /\ page # {}
  /\ \/ NextScope \in Stuck /\ UNCHANGED failures
     \/ failures < MaxFailures /\ failures' = failures + 1
  /\ running' = FALSE
  /\ page' = {}
  /\ UNCHANGED <<known, after, short, restarts>>

\* Mutant: every page counts as the last one of the rotation.
FinishAlways ==
  /\ running
  /\ page = {}
  /\ running' = FALSE
  /\ after' = 0
  /\ UNCHANGED <<known, page, short, failures, restarts>>

\* The pass is over; a short page was the last one of the rotation.
Finish ==
  /\ running
  /\ page = {}
  /\ running' = FALSE
  /\ after' = IF short THEN 0 ELSE after
  /\ UNCHANGED <<known, page, short, failures, restarts>>

\* The process restarts: the cursor is not persisted.
Restart ==
  /\ restarts < MaxRestarts
  /\ restarts' = restarts + 1
  /\ running' = FALSE
  /\ page' = {}
  /\ after' = 0
  /\ UNCHANGED <<known, short, failures>>

Pass == Start \/ Serve \/ Fail \/ Finish

----------------------------------------------------------------------------

\* Every variable stays in its domain, and a pass serves a bounded page ("a bounded
\* keyset", vault-retention.scheduler.ts) that lies ahead of the cursor.
TypeOK ==
  /\ known \subseteq Scopes
  /\ after \in Scopes \cup {0}
  /\ running \in BOOLEAN
  /\ page \subseteq {x \in known : x > after}
  /\ Cardinality(page) <= ScopesPerCycle
  /\ short \in BOOLEAN
  /\ failures \in 0..MaxFailures
  /\ restarts \in 0..MaxRestarts
=============================================================================
