------------------------------ MODULE OcrBudget ------------------------------
(***************************************************************************)
(* The daily budget of the external OCR provider.                          *)
(*                                                                         *)
(* An attempt reserves, before anything is sent, one call, its pages, its  *)
(* bytes and the most tokens one call can take, against three limits at    *)
(* once: its user's, its tenant's and everybody's, each for the UTC day of *)
(* the reservation.  When the attempt ends, the tokens it really took      *)
(* replace the reserved ones if the provider reported them; an attempt     *)
(* whose outcome nobody saw keeps the full charge.                         *)
(*                                                                         *)
(* What leads to an attempt and how its outcome is found is                *)
(* DocumentAnalysis's; here any number of attempts run at once, each may   *)
(* die with its process, and days pass.                                    *)
(***************************************************************************)
EXTENDS Tenancy, Naturals, FiniteSets, Functions

CONSTANTS
  Attempts,     \* ids of usage rows
  TenantFor,    \* TenantFor[i]: the tenant that attempt i is made for
  ActorOf,      \* ActorOf[i]: the user who makes it (may act in two tenants)
  Pages, Bytes, \* of the document each attempt sends
  Reservation,  \* PDF_OCR_RESERVED_TOKEN_UNITS
  Takes,        \* the numbers of tokens a call that is sent may take
  Limit,        \* Limit[k][s]: PDF_OCR_DAILY_BUDGET_LIMITS
  MaxDay        \* bound on the days that pass

Kinds == {"calls", "pages", "bytes", "costUnits"}
Scopes == {"user", "tenant", "global"}

ASSUME BudgetAssumption ==
  /\ TenantFor \in [Attempts -> Tenants]
  /\ ActorOf \in [Attempts -> Users]
  /\ Pages \in [Attempts -> Nat]
  /\ Bytes \in [Attempts -> Nat]
  /\ Reservation \in Nat
  /\ Takes \subseteq 1..Reservation
  /\ Limit \in [Kinds -> [Scopes -> Nat]]
  /\ MaxDay \in Nat \ {0}

VARIABLES
  day,     \* today, in UTC
  usage,   \* the usage rows: usage[i] is the row of attempt i, NoRow before
  process, \* where the process that makes attempt i is
  taken    \* the tokens the provider took for attempt i

vars == <<day, usage, process, taken>>

----------------------------------------------------------------------------
(* Rows *)

\* PDF_OCR_USAGE_OUTCOME by what the settlement knows: DOCUMENTED stands for the
\* outcomes that come with the provider's own usage (SUCCEEDED, LIMIT_EXCEEDED,
\* DOCUMENT_UNREADABLE), SILENT for the rest.
Settlements == {"DOCUMENTED", "SILENT"}
Outcomes == {"NONE", "ATTEMPTED"} \cup Settlements

Amounts == [Kinds -> Nat]
Zero == [k \in Kinds |-> 0]
NoRow == [day |-> 0, outcome |-> "NONE", reserved |-> Zero]
Rows == {i \in Attempts : usage[i].outcome # "NONE"}

\* No number of tokens: the provider reported none.
Unreported == Reservation + 1

Need(i) == [k \in Kinds |-> CASE k = "calls" -> 1
                              [] k = "pages" -> Pages[i]
                              [] k = "bytes" -> Bytes[i]
                              [] k = "costUnits" -> Reservation]

\* Whether the row of j counts against i's limit of scope s.
Counts(j, i, s) ==
  /\ s \in {"user", "tenant"} => TenantFor[j] = TenantFor[i]
  /\ s = "user" => ActorOf[j] = ActorOf[i]

----------------------------------------------------------------------------
(* Behaviour *)

Init ==
  /\ day = 1
  /\ usage = [i \in Attempts |-> NoRow]
  /\ process = [i \in Attempts |-> "idle"]
  /\ taken = [i \in Attempts |-> 0]

Used(i, k, s) ==
  LET same == {j \in Rows : usage[j].day = day /\ Counts(j, i, s)}
  IN  SumFunction([j \in same |-> usage[j].reserved[k]])

\* Mutant: nobody looks at the global limit.
FitsNearby(i) ==
  \A s \in {"user", "tenant"}, k \in Kinds : Used(i, k, s) + Need(i)[k] <= Limit[k][s]

Fits(i) == \A s \in Scopes, k \in Kinds : Used(i, k, s) + Need(i)[k] <= Limit[k][s]

\* One writer transaction: all sums, then the row.
ReserveBudget(i) ==
  /\ process[i] = "idle"
  /\ Fits(i)
  /\ usage' = [usage EXCEPT ![i] =
       [day |-> day, outcome |-> "ATTEMPTED", reserved |-> Need(i)]]
  /\ process' = [process EXCEPT ![i] = "reserved"]
  /\ UNCHANGED <<day, taken>>

\* OCR_BUDGET_EXHAUSTED: no row is written.
Exhausted(i) ==
  /\ process[i] = "idle"
  /\ ~Fits(i)
  /\ process' = [process EXCEPT ![i] = "gone"]
  /\ UNCHANGED <<day, usage, taken>>

\* The generation request leaves the process.
Send(i) ==
  /\ process[i] = "reserved"
  /\ process' = [process EXCEPT ![i] = "sent"]
  /\ \E n \in Takes : taken' = [taken EXCEPT ![i] = n]
  /\ UNCHANGED <<day, usage>>

\* Mutant: what was not reported was not used.
ChargeNothing(u) == IF u = Unreported THEN 0 ELSE u

Charge(u) == IF u = Unreported THEN Reservation ELSE u

Settled(row, o, u) ==
  [row EXCEPT !.outcome = o, !.reserved["costUnits"] = Charge(u)]

\* The settlement checks its arguments and replaces an ATTEMPTED row only: a
\* documented outcome without the document is refused, and nothing changes.
Reconcile(i, o, u) ==
  /\ process' = [process EXCEPT ![i] = "gone"]
  /\ usage' = IF /\ usage[i].outcome = "ATTEMPTED"
                 /\ (o = "DOCUMENTED") <=> (u # Unreported)
              THEN [usage EXCEPT ![i] = Settled(@, o, u)]
              ELSE usage
  /\ UNCHANGED <<day, taken>>

EndsUnsent(i) ==
  /\ process[i] = "reserved"
  /\ \E o \in Settlements : Reconcile(i, o, Unreported)

EndsSent(i) ==
  /\ process[i] = "sent"
  /\ \/ Reconcile(i, "DOCUMENTED", taken[i])
     \/ Reconcile(i, "SILENT", Unreported)

\* The process stops, or the settlement's transaction fails.
Stops(i) ==
  /\ process[i] \in {"reserved", "sent"}
  /\ process' = [process EXCEPT ![i] = "gone"]
  /\ UNCHANGED <<day, usage, taken>>

Midnight ==
  /\ day < MaxDay
  /\ day' = day + 1
  /\ UNCHANGED <<usage, process, taken>>

Next ==
  \/ \E i \in Attempts :
       ReserveBudget(i) \/ Exhausted(i) \/ Send(i) \/ EndsUnsent(i) \/ EndsSent(i) \/ Stops(i)
  \/ Midnight

Spec == Init /\ [][Next]_vars

----------------------------------------------------------------------------
(* Properties *)

\* Every row and every process is well formed.
TypeOK ==
  /\ day \in 1..MaxDay
  /\ usage \in [Attempts -> [day: 0..MaxDay, outcome: Outcomes, reserved: Amounts]]
  /\ process \in [Attempts -> {"idle", "reserved", "sent", "gone"}]
  /\ taken \in [Attempts -> 0..Reservation]

\* What the provider was really given and really took, for the reservations
\* of one day, stays within all three limits: settlements that give tokens
\* back (reconcilePdfOcrBudget), attempts whose answer was lost and attempts
\* that outlive midnight included.
Really(j) ==
  IF taken[j] > 0
  THEN [Need(j) EXCEPT !["costUnits"] = taken[j]]
  ELSE Zero
SpendWithinLimits ==
  \A i \in Rows, s \in Scopes, k \in Kinds :
    LET same == {j \in Rows : usage[j].day = usage[i].day /\ Counts(j, i, s)}
    IN  SumFunction([j \in same |-> Really(j)[k]]) <= Limit[k][s]

\* A charge never falls below what the call took, and it falls below the full
\* reservation only to the number the provider itself reported: a refusal, a
\* stale request, a crash and an unknown outcome give nothing back.
ChargeIsTrue ==
  \A i \in Attempts :
    LET row == usage[i] IN
    /\ taken[i] > 0 => row.outcome # "NONE"
    /\ row.outcome # "NONE" =>
         /\ taken[i] <= row.reserved["costUnits"]
         /\ \/ row.reserved["costUnits"] = Reservation
            \/ /\ row.outcome = "DOCUMENTED"
               /\ row.reserved["costUnits"] = taken[i]
=============================================================================
