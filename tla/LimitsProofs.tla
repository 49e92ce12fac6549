--------------------------- MODULE LimitsProofs ---------------------------
(*************************************************************************)
(* The limits, for any number of users, tenants, rows and documents.     *)
(*                                                                       *)
(* OCR budget: a charge covers what the call took, tokens are given back *)
(* only against the provider's own report, and what is reserved for a    *)
(* day stays within every limit.                                         *)
(*                                                                       *)
(* Vault bytes: what a user, a tenant and the volume hold                *)
(* stays within the quotas, whoever ends up paying for a document.       *)
(*************************************************************************)
EXTENDS OcrBudget, ImportQuota, FiniteSetTheorems, WellFoundedInduction, TLAPS

\* A row keeps its full reservation until it is settled, and the process that
\* owns it is the only one that may send or settle.
TokensOf(i) == usage[i].reserved["costUnits"]
Owned ==
  \A i \in Attempts :
    /\ process[i] = "idle" => usage[i].outcome = "NONE" /\ taken[i] = 0
    /\ process[i] = "reserved" => usage[i].outcome = "ATTEMPTED" /\ taken[i] = 0
    /\ process[i] = "sent" => usage[i].outcome = "ATTEMPTED"
    /\ usage[i].outcome = "ATTEMPTED" => TokensOf(i) = Reservation
BudgetInv == TypeOK /\ ChargeIsTrue /\ Owned

LEMMA NeedIsAmounts ==
  ASSUME NEW i \in Attempts
  PROVE  Need(i) \in Amounts /\ Need(i)["costUnits"] = Reservation
BY BudgetAssumption DEF Need, Amounts, Kinds

LEMMA InitBudget == Init => BudgetInv
<1> SUFFICES ASSUME Init PROVE BudgetInv
  OBVIOUS
<1>1. NoRow \in [day: 0..MaxDay, outcome: Outcomes, reserved: Amounts]
  BY BudgetAssumption DEF NoRow, Outcomes, Amounts, Zero
<1>2. 1 \in 1..MaxDay
  BY BudgetAssumption
<1> QED
  BY <1>1, <1>2, BudgetAssumption DEF Init, BudgetInv, TypeOK, ChargeIsTrue, Owned, NoRow, TokensOf

\* The three ways in which a row, a process or a count of tokens changes.
LEMMA ReserveKeeps ==
  ASSUME BudgetInv, NEW i \in Attempts, ReserveBudget(i)
  PROVE  BudgetInv'
BY NeedIsAmounts, BudgetAssumption DEF BudgetInv, TypeOK, ChargeIsTrue, Owned, TokensOf, ReserveBudget, Outcomes, Settlements

LEMMA SendKeeps ==
  ASSUME BudgetInv, NEW i \in Attempts, Send(i)
  PROVE  BudgetInv'
BY BudgetAssumption DEF BudgetInv, TypeOK, ChargeIsTrue, Owned, TokensOf, Send, Outcomes, Settlements

LEMMA ReconcileKeeps ==
  ASSUME BudgetInv, NEW i \in Attempts, NEW o \in Settlements, NEW u \in Nat,
         u = Unreported \/ u = taken[i], process[i] \in {"reserved", "sent"},
         Reconcile(i, o, u)
  PROVE  BudgetInv'
<1>1. CASE usage' = usage
  BY <1>1, BudgetAssumption DEF BudgetInv, TypeOK, ChargeIsTrue, Owned, TokensOf, Reconcile
<1>2. CASE /\ usage[i].outcome = "ATTEMPTED"
           /\ (o = "DOCUMENTED") <=> (u # Unreported)
           /\ usage' = [usage EXCEPT ![i] = Settled(@, o, u)]
  <2>1. taken[i] \in 0..Reservation /\ Reservation \in Nat
    BY BudgetAssumption DEF BudgetInv, TypeOK
  <2>2. /\ Charge(u) \in Nat
        /\ taken[i] <= Charge(u)
        /\ Charge(u) = Reservation \/ (o = "DOCUMENTED" /\ Charge(u) = taken[i])
    BY <1>2, <2>1 DEF Charge, Unreported
  <2>3. /\ Settled(usage[i], o, u) \in [day: 0..MaxDay, outcome: Outcomes, reserved: Amounts]
        /\ Settled(usage[i], o, u).outcome = o
        /\ Settled(usage[i], o, u).reserved["costUnits"] = Charge(u)
    BY <2>2 DEF BudgetInv, TypeOK, Settled, Outcomes, Amounts, Kinds
  <2>4. usage' = [usage EXCEPT ![i] = Settled(usage[i], o, u)]
    BY <1>2
  <2> HIDE DEF Settled, Charge
  <2>5. TypeOK'
    BY <2>3, <2>4 DEF BudgetInv, TypeOK, Reconcile
  <2>6. ChargeIsTrue'
    BY <2>2, <2>3, <2>4 DEF BudgetInv, TypeOK, ChargeIsTrue, Reconcile, Settlements
  <2>7. Owned'
    BY <2>3, <2>4 DEF BudgetInv, TypeOK, Owned, TokensOf, Reconcile, Settlements
  <2> QED
    BY <2>5, <2>6, <2>7 DEF BudgetInv
<1> QED
  BY <1>1, <1>2 DEF Reconcile

LEMMA NextKeepsBudget == BudgetInv /\ [Next]_vars => BudgetInv'
<1> SUFFICES ASSUME BudgetInv, [Next]_vars PROVE BudgetInv'
  OBVIOUS
<1>1. ASSUME NEW i \in Attempts, ReserveBudget(i) PROVE BudgetInv'
  BY <1>1, ReserveKeeps
<1>2. ASSUME NEW i \in Attempts, Send(i) PROVE BudgetInv'
  BY <1>2, SendKeeps
<1>3. ASSUME NEW i \in Attempts, EndsUnsent(i) PROVE BudgetInv'
  <2>1. PICK o \in Settlements : Reconcile(i, o, Unreported)
    BY <1>3 DEF EndsUnsent
  <2> QED
    BY <1>3, <2>1, ReconcileKeeps, BudgetAssumption DEF EndsUnsent, Unreported
<1>4. ASSUME NEW i \in Attempts, EndsSent(i) PROVE BudgetInv'
  <2>1. taken[i] \in Nat /\ Unreported \in Nat
    BY BudgetAssumption DEF BudgetInv, TypeOK, Unreported
  <2>2. CASE Reconcile(i, "DOCUMENTED", taken[i])
    BY <1>4, <2>1, <2>2, ReconcileKeeps DEF EndsSent, Settlements
  <2>3. CASE Reconcile(i, "SILENT", Unreported)
    BY <1>4, <2>1, <2>3, ReconcileKeeps DEF EndsSent, Settlements
  <2> QED
    BY <1>4, <2>2, <2>3 DEF EndsSent
<1>5. ASSUME NEW i \in Attempts, Exhausted(i) \/ Stops(i) PROVE BudgetInv'
  BY <1>5 DEF BudgetInv, TypeOK, ChargeIsTrue, Owned, TokensOf, Exhausted, Stops
<1>6. CASE Midnight
  BY <1>6, BudgetAssumption DEF BudgetInv, TypeOK, ChargeIsTrue, Owned, TokensOf, Midnight
<1>7. CASE UNCHANGED vars
  BY <1>7 DEF BudgetInv, TypeOK, ChargeIsTrue, Owned, TokensOf, vars
<1> QED
  BY <1>1, <1>2, <1>3, <1>4, <1>5, <1>6, <1>7 DEF Next

\* Every row keeps its form (model ImportOcrUsage): no settlement leaves a
\* negative charge.
THEOREM BudgetTypes == Spec => []TypeOK
<1>1. BudgetInv => TypeOK
  BY DEF BudgetInv
<1> QED
  BY InitBudget, NextKeepsBudget, <1>1, PTL DEF Spec

\* What an attempt is charged covers what it took, and only a documented outcome
\* lowers the charge (reservePdfOcrBudget, reconcilePdfOcrBudget).
THEOREM ChargesAreTrue == Spec => []ChargeIsTrue
<1>1. BudgetInv => ChargeIsTrue
  BY DEF BudgetInv
<1> QED
  BY InitBudget, NextKeepsBudget, <1>1, PTL DEF Spec

----------------------------------------------------------------------------
(* Sums *)

\* The sum of a function over a finite set is counted by its units: f[x] of them for
\* each x.  What the sums of Functions are for every set follows from that, since a
\* smallest set on which two functions that add up differ does not exist.
Units(f, S) == UNION {{x} \X (1..f[x]) : x \in S}

LEMMA LeastSet ==
  ASSUME NEW S, IsFiniteSet(S), NEW C \in SUBSET SUBSET S, C # {}
  PROVE  \E s \in C : \A t \in C : ~(t \subseteq s /\ t # s)
<1>1. C \subseteq FiniteSubsetsOf(S)
  BY FS_Subset DEF FiniteSubsetsOf
<1>2. IsWellFoundedOn(StrictSubsetOrdering(S), FiniteSubsetsOf(S))
  BY FS_StrictSubsetOrderingWellFounded
<1>3. PICK X \in C : \A Y \in C : ~ (<<Y, X>> \in StrictSubsetOrdering(S))
  BY <1>1, <1>2, WFMin
<1> QED BY <1>3 DEF StrictSubsetOrdering

LEMMA UnitsFinite ==
  ASSUME NEW S, IsFiniteSet(S), NEW f, \A x \in S : f[x] \in Nat
  PROVE  IsFiniteSet(Units(f, S)) /\ Cardinality(Units(f, S)) \in Nat
<1> DEFINE C == {s \in SUBSET S : ~IsFiniteSet(Units(f, s))}
<1>1. ASSUME C # {} PROVE FALSE
  <2>0. C \in SUBSET SUBSET S
    OBVIOUS
  <2>1. PICK s \in C : \A t \in C : ~(t \subseteq s /\ t # s)
    <3> HIDE DEF C
    <3> QED BY <1>1, <2>0, LeastSet
  <2>2. s # {}
    <3>1. Units(f, {}) = {}  BY DEF Units
    <3> QED BY <3>1, FS_EmptySet
  <2>3. PICK x \in s : TRUE
    BY <2>2
  <2>4. IsFiniteSet(Units(f, s \ {x}))
    BY <2>1, <2>3
  <2>5. Units(f, s) = Units(f, s \ {x}) \cup ({x} \X (1..f[x]))
    BY <2>3 DEF Units
  <2>6. f[x] \in Nat
    BY <2>3
  <2>7. IsFiniteSet({x} \X (1..f[x]))
    <3>1. IsFiniteSet({x})
      BY FS_Singleton
    <3>2. IsFiniteSet(1..f[x])
      BY <2>6, FS_Interval
    <3> QED BY <3>1, <3>2, FS_Product
  <2>8. IsFiniteSet(Units(f, s \ {x}) \cup ({x} \X (1..f[x])))
    BY <2>4, <2>7, FS_Union
  <2> QED BY <2>1, <2>5, <2>8
<1> QED BY <1>1, FS_CardinalityType

LEMMA UnitsAdd ==
  ASSUME NEW S, IsFiniteSet(S), NEW f, \A x \in S : f[x] \in Nat, NEW x \in S
  PROVE  Cardinality(Units(f, S)) = f[x] + Cardinality(Units(f, S \ {x}))
<1> DEFINE A == {x} \X (1..f[x])
           B == Units(f, S \ {x})
<1>1. IsFiniteSet(A) /\ Cardinality(A) = f[x]
  <2>1. IsFiniteSet({x}) /\ Cardinality({x}) = 1
    BY FS_Singleton
  <2>2. IsFiniteSet(1..f[x]) /\ Cardinality(1..f[x]) = f[x]
    BY FS_Interval
  <2>3. IsFiniteSet(A) /\ Cardinality(A) = 1 * f[x]
    BY <2>1, <2>2, FS_Product
  <2> QED BY <2>3
<1>2. IsFiniteSet(B) /\ Cardinality(B) \in Nat
  <2>1. IsFiniteSet(S \ {x})
    BY FS_RemoveElement
  <2> QED BY <2>1, UnitsFinite
<1>3. Units(f, S) = A \cup B /\ A \cap B = {}
  BY DEF Units
<1>4. Cardinality(A \cap B) = 0
  BY <1>3, FS_EmptySet
<1> HIDE DEF A, B
<1>5. Cardinality(A \cup B) = Cardinality(A) + Cardinality(B) - Cardinality(A \cap B)
  BY <1>1, <1>2, FS_Union
<1>6. Cardinality(A \cup B) = f[x] + Cardinality(B)
  BY <1>1, <1>2, <1>4, <1>5
<1> QED BY <1>3, <1>6 DEF B

Adds(g, f, S) ==
  g = [s \in SUBSET S |-> IF s = {} THEN 0
                          ELSE LET x == CHOOSE x \in s : TRUE IN f[x] + g[s \ {x}]]

LEMMA SumIsUnits ==
  ASSUME NEW S, IsFiniteSet(S), NEW f, \A x \in S : f[x] \in Nat
  PROVE  SumFunctionOnSet(f, S) = Cardinality(Units(f, S))
<1> DEFINE u == [s \in SUBSET S |-> Cardinality(Units(f, s))]
<1>1. Adds(u, f, S)
  <2>1. ASSUME NEW s \in SUBSET S, s # {}
        PROVE  u[s] = LET x == CHOOSE x \in s : TRUE IN f[x] + u[s \ {x}]
    <3> DEFINE x == CHOOSE x \in s : TRUE
    <3>1. x \in s
      BY <2>1
    <3>2. IsFiniteSet(s) /\ \A y \in s : f[y] \in Nat
      BY FS_Subset
    <3> HIDE DEF x
    <3>3. u[s] = f[x] + u[s \ {x}]
      BY <3>1, <3>2, UnitsAdd
    <3> QED BY <3>3 DEF x
  <2>2. u[{}] = 0
    <3>1. Units(f, {}) = {}  BY DEF Units
    <3>2. u[{}] = Cardinality({})  BY <3>1
    <3> QED BY <3>2, FS_EmptySet
  <2>3. u = [s \in SUBSET S |-> u[s]]
    OBVIOUS
  <2> HIDE DEF u
  <2> QED BY <2>1, <2>2, <2>3 DEF Adds
<1>2. ASSUME NEW g, Adds(g, f, S) PROVE g[S] = u[S]
  <2> DEFINE C == {s \in SUBSET S : g[s] # u[s]}
  <2>1. ASSUME C # {} PROVE FALSE
    <3>0. C \in SUBSET SUBSET S
      OBVIOUS
    <3>1. PICK s \in C : \A t \in C : ~(t \subseteq s /\ t # s)
      <4> HIDE DEF C
      <4> QED BY <2>1, <3>0, LeastSet
    <3> HIDE DEF u
    <3>2. s # {}
      BY <1>1, <1>2 DEF Adds
    <3> DEFINE x == CHOOSE x \in s : TRUE
    <3>3. x \in s
      BY <3>2
    <3> HIDE DEF x
    <3>4. g[s \ {x}] = u[s \ {x}]
      BY <3>1, <3>3
    <3>5. g[s] = f[x] + g[s \ {x}]
      BY <3>2, <1>2 DEF Adds, x
    <3>6. u[s] = f[x] + u[s \ {x}]
      BY <3>2, <1>1 DEF Adds, x
    <3> QED BY <3>4, <3>5, <3>6
  <2> QED BY <2>1
<1>3. SumFunctionOnSet(f, S) = (CHOOSE g : Adds(g, f, S))[S]
  BY DEF SumFunctionOnSet, FoldFunctionOnSet, MapThenFoldSet, Adds
<1>4. Adds(CHOOSE g : Adds(g, f, S), f, S)
  BY <1>1
<1>5. (CHOOSE g : Adds(g, f, S))[S] = u[S]
  BY <1>2, <1>4
<1> QED BY <1>3, <1>5

\* What the proofs below use of sums.
LEMMA SumType ==
  ASSUME NEW S, IsFiniteSet(S), NEW f, \A x \in S : f[x] \in Nat
  PROVE  SumFunctionOnSet(f, S) \in Nat
BY SumIsUnits, UnitsFinite

LEMMA SumGrows ==
  ASSUME NEW T, IsFiniteSet(T), NEW S \in SUBSET T, NEW f, NEW g,
         \A x \in S : f[x] \in Nat /\ f[x] <= g[x],
         \A x \in T : g[x] \in Nat
  PROVE  SumFunctionOnSet(f, S) <= SumFunctionOnSet(g, T)
<1>1. IsFiniteSet(S)
  BY FS_Subset
<1>2. Units(f, S) \subseteq Units(g, T)
  <2> SUFFICES ASSUME NEW x \in S, NEW n \in 1..f[x] PROVE n \in 1..g[x]
    BY DEF Units
  <2> QED OBVIOUS
<1>3. IsFiniteSet(Units(g, T))
  BY UnitsFinite
<1>4. Cardinality(Units(f, S)) <= Cardinality(Units(g, T))
  BY <1>2, <1>3, FS_Subset
<1>5. SumFunctionOnSet(f, S) = Cardinality(Units(f, S))
  BY <1>1, SumIsUnits
<1>6. SumFunctionOnSet(g, T) = Cardinality(Units(g, T))
  BY SumIsUnits
<1> QED BY <1>4, <1>5, <1>6

LEMMA SumAdds ==
  ASSUME NEW S, IsFiniteSet(S), NEW x, x \notin S, NEW f, NEW g,
         \A y \in S : f[y] \in Nat /\ g[y] = f[y], g[x] \in Nat
  PROVE  SumFunctionOnSet(g, S \cup {x}) = g[x] + SumFunctionOnSet(f, S)
<1> DEFINE T == S \cup {x}
<1>1. IsFiniteSet(T)
  BY FS_AddElement
<1>2. x \in T /\ T \ {x} = S /\ \A y \in T : g[y] \in Nat
  OBVIOUS
<1>3. Units(g, S) = Units(f, S)
  BY DEF Units
<1> HIDE DEF T
<1>4. Cardinality(Units(g, T)) = g[x] + Cardinality(Units(g, T \ {x}))
  BY <1>1, <1>2, UnitsAdd
<1>5. SumFunctionOnSet(g, T) = Cardinality(Units(g, T))
  BY <1>1, <1>2, SumIsUnits
<1>6. SumFunctionOnSet(f, S) = Cardinality(Units(f, S))
  BY SumIsUnits
<1> QED BY <1>2, <1>3, <1>4, <1>5, <1>6 DEF T

----------------------------------------------------------------------------
(* The limits *)

\* The rows of i's day that count against i's limit of scope s.
Together(i, s) == {j \in Rows : usage[j].day = usage[i].day /\ Counts(j, i, s)}
Booked(i, k, s) == SumFunction([j \in Together(i, s) |-> usage[j].reserved[k]])

\* What is reserved for a day stays within the limits, only tokens are ever given
\* back, and there are finitely many rows.
Limited ==
  /\ IsFiniteSet(Rows)
  /\ \A i \in Rows, s \in Scopes, k \in Kinds : Booked(i, k, s) <= Limit[k][s]
  /\ \A i \in Rows, k \in Kinds \ {"costUnits"} : usage[i].reserved[k] = Need(i)[k]

LEMMA TogetherIsFinite ==
  ASSUME IsFiniteSet(Rows), NEW i, NEW s
  PROVE  IsFiniteSet(Together(i, s))
<1>1. Together(i, s) \subseteq Rows
  BY DEF Together
<1> QED BY <1>1, FS_Subset

LEMMA RowAmounts ==
  ASSUME TypeOK, NEW i \in Attempts
  PROVE  \A k \in Kinds : usage[i].reserved[k] \in Nat
<1>1. usage[i].reserved \in [Kinds -> Nat]
  BY DEF TypeOK, Amounts
<1> QED BY <1>1

\* Steps that give tokens back, or change no row.
LEMMA LoweredStaysLimited ==
  ASSUME TypeOK, TypeOK', Limited, Rows' = Rows,
         \A j \in Rows : /\ usage'[j].day = usage[j].day
                         /\ usage'[j].reserved["costUnits"] <= usage[j].reserved["costUnits"]
                         /\ \A k \in Kinds \ {"costUnits"} :
                              usage'[j].reserved[k] = usage[j].reserved[k]
  PROVE  Limited'
<1>1. IsFiniteSet(Rows)'
  BY DEF Limited
<1>2. \A i \in Rows', k \in Kinds \ {"costUnits"} : usage'[i].reserved[k] = Need(i)[k]
  BY DEF Limited
<1>3. ASSUME NEW i \in Rows, NEW s \in Scopes, NEW k \in Kinds
      PROVE  Booked(i, k, s)' <= Limit[k][s]
  <2> DEFINE S == Together(i, s)
             f == [j \in S |-> usage'[j].reserved[k]]
             g == [j \in S |-> usage[j].reserved[k]]
  <2>1. Together(i, s)' = S
    BY DEF Together
  <2>2. IsFiniteSet(S)
    BY TogetherIsFinite DEF Limited
  <2>3. ASSUME NEW j \in S PROVE f[j] \in Nat /\ g[j] \in Nat /\ f[j] <= g[j]
    <3>1. j \in Rows /\ j \in Attempts
      BY DEF Together, Rows
    <3>2. usage'[j].reserved[k] \in Nat /\ usage[j].reserved[k] \in Nat
      <4>1. usage'[j].reserved \in [Kinds -> Nat] /\ usage[j].reserved \in [Kinds -> Nat]
        BY <3>1 DEF TypeOK, Amounts
      <4> QED BY <4>1
    <3>3. usage'[j].reserved[k] <= usage[j].reserved[k]
      BY <3>1, <3>2
    <3> QED BY <3>2, <3>3
  <2>4. Booked(i, k, s)' = SumFunctionOnSet(f, S)
    BY <2>1 DEF Booked, SumFunction
  <2>5. Booked(i, k, s) = SumFunctionOnSet(g, S)
    BY DEF Booked, SumFunction
  <2> HIDE DEF S, f, g
  <2>6. SumFunctionOnSet(f, S) <= SumFunctionOnSet(g, S)
    BY <2>2, <2>3, SumGrows
  <2>7. SumFunctionOnSet(f, S) \in Nat /\ SumFunctionOnSet(g, S) \in Nat
    BY <2>2, <2>3, SumType
  <2>8. SumFunctionOnSet(g, S) <= Limit[k][s] /\ Limit[k][s] \in Nat
    BY <2>5, BudgetAssumption DEF Limited
  <2> QED BY <2>4, <2>6, <2>7, <2>8
<1> QED BY <1>1, <1>2, <1>3 DEF Limited

\* The reservation that fits: those that count together with it now are those it
\* looked at, and itself.
LEMMA ReserveStaysLimited ==
  ASSUME BudgetInv, Limited, NEW a \in Attempts, ReserveBudget(a), TypeOK'
  PROVE  Limited'
<1>1. a \notin Rows /\ usage' = [usage EXCEPT ![a] = [day |-> day, outcome |-> "ATTEMPTED", reserved |-> Need(a)]]
  BY DEF ReserveBudget, BudgetInv, Owned, Rows
<1>2. usage \in [Attempts -> [day: 0..MaxDay, outcome: Outcomes, reserved: Amounts]]
  BY DEF BudgetInv, TypeOK
<1>3. Rows' = Rows \cup {a}
  BY <1>1, <1>2 DEF Rows
<1>4. IsFiniteSet(Rows)'
  BY <1>3, FS_AddElement DEF Limited
<1>5. \A i \in Rows', k \in Kinds \ {"costUnits"} : usage'[i].reserved[k] = Need(i)[k]
  BY <1>1, <1>2, <1>3 DEF Limited, Rows
<1>6. ASSUME NEW i \in Rows', NEW s \in Scopes, NEW k \in Kinds
      PROVE  Booked(i, k, s)' <= Limit[k][s]
  <2> DEFINE S == {j \in Rows : usage[j].day = usage'[i].day /\ Counts(j, i, s)}
             g == [j \in Together(i, s)' |-> usage'[j].reserved[k]]
             f == [j \in S |-> usage[j].reserved[k]]
  <2>1. IsFiniteSet(S)
    <3>1. S \subseteq Rows  OBVIOUS
    <3> QED BY <3>1, FS_Subset DEF Limited
  <2>2. \A j \in Rows : usage'[j] = usage[j] /\ j \in Attempts
    BY <1>1, <1>2 DEF Rows
  <2>3. \A j \in S : f[j] \in Nat
    BY <2>2, RowAmounts DEF BudgetInv
  <2>4. Booked(i, k, s)' = SumFunctionOnSet(g, Together(i, s)')
    BY DEF Booked, SumFunction
  <2>5. CASE ~(usage'[i].day = day /\ Counts(a, i, s))
    <3>1. usage'[a].day = day
      BY <1>1, <1>2
    <3>2. Together(i, s)' = S
      BY <1>3, <2>2, <2>5, <3>1 DEF Together
    <3>3. Counts(i, i, s)
      BY DEF Counts
    <3>4. i # a
      BY <2>5, <3>1, <3>3
    <3>5. i \in Rows /\ usage'[i] = usage[i]
      BY <1>1, <1>2, <1>3, <3>4 DEF Rows
    <3>6. S = Together(i, s) /\ g = [j \in Together(i, s) |-> usage[j].reserved[k]]
      BY <3>2, <3>5, <2>2 DEF Together
    <3>7. Booked(i, k, s)' = Booked(i, k, s)
      BY <2>4, <3>2, <3>6 DEF Booked, SumFunction
    <3> QED BY <3>5, <3>7 DEF Limited
  <2>6. CASE usage'[i].day = day /\ Counts(a, i, s)
    <3>1. \A j \in Attempts : Counts(j, i, s) <=> Counts(j, a, s)
      BY <2>6 DEF Counts
    <3>2. S = {j \in Rows : usage[j].day = day /\ Counts(j, a, s)}
      BY <2>6, <3>1 DEF Rows
    <3>3. Used(a, k, s) = SumFunctionOnSet(f, S)
      BY <3>2 DEF Used, SumFunction
    <3>4. usage'[a].day = day /\ usage'[a].reserved = Need(a)
      BY <1>1, <1>2
    <3>5. Together(i, s)' = S \cup {a}
      BY <1>3, <2>2, <2>6, <3>4 DEF Together
    <3>6. \A j \in S : g[j] = f[j]
      BY <2>2, <3>5
    <3>7. g[a] = Need(a)[k] /\ g[a] \in Nat
      <4>1. Need(a) \in [Kinds -> Nat]
        BY NeedIsAmounts DEF Amounts
      <4> QED BY <3>4, <3>5, <4>1
    <3>8. a \notin S
      BY <1>1
    <3> HIDE DEF S, f, g
    <3>9. SumFunctionOnSet(g, S \cup {a}) = g[a] + SumFunctionOnSet(f, S)
      BY <2>1, <2>3, <3>6, <3>7, <3>8, SumAdds
    <3>10. SumFunctionOnSet(f, S) + Need(a)[k] <= Limit[k][s]
      BY <3>3 DEF ReserveBudget, Fits
    <3>11. SumFunctionOnSet(f, S) \in Nat /\ Limit[k][s] \in Nat
      BY <2>1, <2>3, SumType, BudgetAssumption
    <3> QED BY <2>4, <3>5, <3>7, <3>9, <3>10, <3>11
  <2> QED BY <2>5, <2>6
<1> QED BY <1>4, <1>5, <1>6 DEF Limited

LEMMA NextStaysLimited ==
  BudgetInv /\ BudgetInv' /\ Limited /\ [Next]_vars => Limited'
<1> SUFFICES ASSUME BudgetInv, BudgetInv', Limited, [Next]_vars PROVE Limited'
  OBVIOUS
<1>1. TypeOK /\ TypeOK'
  BY DEF BudgetInv
<1>2. CASE usage' = usage
  <2>1. Rows' = Rows
    BY <1>2 DEF Rows
  <2>2. \A j \in Rows : usage[j].reserved["costUnits"] \in Nat
    <3>1. Rows \subseteq Attempts /\ "costUnits" \in Kinds
      BY DEF Rows, Kinds
    <3> QED BY <1>1, <3>1, RowAmounts
  <2>3. \A j \in Rows : usage[j].reserved["costUnits"] <= usage[j].reserved["costUnits"]
    BY <2>2
  <2> QED BY <1>1, <1>2, <2>1, <2>3, LoweredStaysLimited
<1>3. ASSUME NEW a \in Attempts, ReserveBudget(a) PROVE Limited'
  BY <1>1, <1>3, ReserveStaysLimited
<1>4. ASSUME NEW i \in Attempts, NEW o \in Settlements, NEW u \in Nat,
             u = Unreported \/ u = taken[i], Reconcile(i, o, u), usage' # usage
      PROVE  Limited'
  <2>1. usage[i].outcome = "ATTEMPTED" /\ usage' = [usage EXCEPT ![i] = Settled(usage[i], o, u)]
    BY <1>4 DEF Reconcile
  <2>2. TokensOf(i) = Reservation /\ taken[i] \in 0..Reservation /\ Reservation \in Nat
    BY <2>1, BudgetAssumption DEF BudgetInv, Owned, TypeOK
  <2>3. Charge(u) <= TokensOf(i)
    BY <1>4, <2>2 DEF Charge, Unreported
  <2>4. usage \in [Attempts -> [day: 0..MaxDay, outcome: Outcomes, reserved: [Kinds -> Nat]]]
    BY <1>1 DEF TypeOK, Amounts
  <2>5. /\ Settled(usage[i], o, u).day = usage[i].day
        /\ Settled(usage[i], o, u).outcome = o
        /\ Settled(usage[i], o, u).reserved["costUnits"] = Charge(u)
        /\ \A k \in Kinds \ {"costUnits"} : Settled(usage[i], o, u).reserved[k] = usage[i].reserved[k]
    BY <2>4 DEF Settled, Kinds
  <2> HIDE DEF Settled, Charge
  <2>6. Rows' = Rows
    BY <2>1, <2>4, <2>5 DEF Rows, Settlements
  <2>7. ASSUME NEW j \in Rows
        PROVE  /\ usage'[j].day = usage[j].day
               /\ usage'[j].reserved["costUnits"] <= usage[j].reserved["costUnits"]
               /\ \A k \in Kinds \ {"costUnits"} : usage'[j].reserved[k] = usage[j].reserved[k]
    <3>1. j \in Attempts /\ usage[j].reserved["costUnits"] \in Nat
      BY <2>4 DEF Rows, Kinds
    <3>2. CASE j = i
      BY <2>1, <2>3, <2>4, <2>5, <3>2 DEF TokensOf
    <3>3. CASE j # i
      BY <2>1, <2>4, <3>1, <3>3
    <3> QED BY <3>2, <3>3
  <2> QED BY <1>1, <2>6, <2>7, LoweredStaysLimited
<1>5. ASSUME NEW i \in Attempts, EndsUnsent(i) \/ EndsSent(i), usage' # usage PROVE Limited'
  <2>1. taken[i] \in Nat /\ Unreported \in Nat
    BY BudgetAssumption DEF BudgetInv, TypeOK, Unreported
  <2>2. PICK o \in Settlements, u \in Nat : (u = Unreported \/ u = taken[i]) /\ Reconcile(i, o, u)
    BY <1>5, <2>1 DEF EndsUnsent, EndsSent, Settlements
  <2> QED BY <1>4, <1>5, <2>2
<1>6. ASSUME NEW i \in Attempts, Exhausted(i) \/ Send(i) \/ Stops(i) PROVE usage' = usage
  BY <1>6 DEF Exhausted, Send, Stops
<1>7. Midnight \/ UNCHANGED vars => usage' = usage
  BY DEF Midnight, vars
<1> QED BY <1>2, <1>3, <1>5, <1>6, <1>7 DEF Next

LEMMA SpendFollows ==
  ASSUME BudgetInv, Limited
  PROVE  SpendWithinLimits
<1> SUFFICES ASSUME NEW i \in Rows, NEW s \in Scopes, NEW k \in Kinds
             PROVE  SumFunction([j \in Together(i, s) |-> Really(j)[k]]) <= Limit[k][s]
  BY DEF SpendWithinLimits, Together
<1> DEFINE S == Together(i, s)
           f == [j \in S |-> Really(j)[k]]
           g == [j \in S |-> usage[j].reserved[k]]
<1>1. IsFiniteSet(S)
  BY TogetherIsFinite DEF Limited
<1>2. ASSUME NEW j \in S PROVE f[j] \in Nat /\ g[j] \in Nat /\ f[j] <= g[j]
  <2>1. j \in Rows /\ j \in Attempts
    BY DEF Together, Rows
  <2>2. usage[j].reserved[k] \in Nat /\ Need(j) \in [Kinds -> Nat]
    BY <2>1, RowAmounts, NeedIsAmounts DEF BudgetInv, Amounts
  <2>3. taken[j] \in Nat /\ taken[j] <= usage[j].reserved["costUnits"]
    BY <2>1 DEF BudgetInv, TypeOK, ChargeIsTrue, Rows
  <2>4. CASE taken[j] = 0
    <3>1. Really(j)[k] = 0
      BY <2>4 DEF Really, Zero
    <3> QED BY <2>2, <3>1
  <2>5. CASE taken[j] > 0 /\ k = "costUnits"
    <3>1. Really(j)[k] = taken[j]
      BY <2>2, <2>5 DEF Really, Kinds
    <3> QED BY <2>2, <2>3, <2>5, <3>1
  <2>6. CASE taken[j] > 0 /\ k # "costUnits"
    <3>1. Really(j)[k] = Need(j)[k]
      BY <2>2, <2>6 DEF Really
    <3>2. usage[j].reserved[k] = Need(j)[k]
      BY <2>1, <2>6 DEF Limited
    <3> QED BY <2>2, <3>1, <3>2
  <2> QED BY <2>3, <2>4, <2>5, <2>6
<1>3. SumFunction([j \in Together(i, s) |-> Really(j)[k]]) = SumFunctionOnSet(f, S)
  BY DEF SumFunction
<1>4. Booked(i, k, s) = SumFunctionOnSet(g, S)
  BY DEF Booked, SumFunction
<1> HIDE DEF S, f, g
<1>5. SumFunctionOnSet(f, S) <= SumFunctionOnSet(g, S)
  BY <1>1, <1>2, SumGrows
<1>6. SumFunctionOnSet(f, S) \in Nat /\ SumFunctionOnSet(g, S) \in Nat
  BY <1>1, <1>2, SumType
<1>7. SumFunctionOnSet(g, S) <= Limit[k][s] /\ Limit[k][s] \in Nat
  BY <1>4, BudgetAssumption DEF Limited
<1> QED BY <1>3, <1>5, <1>6, <1>7

\* What the provider really took for the reservations of one day stays within the
\* limits of the user, the tenant and everybody, whatever is given back, lost or
\* settled after midnight (reservePdfOcrBudget, reconcilePdfOcrBudget).
THEOREM SpendStaysWithinLimits == Spec => []SpendWithinLimits
<1>1. Init => Limited
  <2> SUFFICES ASSUME Init PROVE Limited
    OBVIOUS
  <2>1. Rows = {}
    BY DEF Init, Rows, NoRow
  <2> QED BY <2>1, FS_EmptySet DEF Limited
<1>2. BudgetInv /\ Limited => SpendWithinLimits
  BY SpendFollows
<1> QED
  BY InitBudget, NextKeepsBudget, NextStaysLimited, <1>1, <1>2, PTL DEF Spec
----------------------------------------------------------------------------
(* The byte quotas *)

RefRows == [state: {"NONE", "RESERVED", "ATTACHED", "RELEASED", "FAILED"},
            sess: Sessions \cup {None}, doc: Documents \cup {None},
            art: Artifacts \cup {None}, temp: BOOLEAN, pending: BOOLEAN, left: Nat]
ArtRows == [state: {"NONE", "STORED", "PURGING", "PURGED"}, home: Refs \cup {None}, bytes: Nat]

QuotaRows ==
  /\ ref \in [Refs -> RefRows]
  /\ art \in [Artifacts -> ArtRows]
  /\ files \subseteq Refs
  /\ open \subseteq Sessions

\* A reference is in a session, is written before it is attached, waits for the purge of
\* what it wrote, and points at the document of its own tenant and content.
RefsAreSound ==
  \A r \in Refs :
    /\ ref[r].state # "NONE" => ref[r].sess \in Sessions /\ ref[r].doc \in Documents
    /\ ref[r].state = "NONE" => ~ref[r].temp /\ ref[r].sess = None
    /\ ref[r].state = "RESERVED" => ref[r].temp /\ ~ref[r].pending
    /\ ref[r].pending => ref[r].temp
    /\ ref[r].art # None => ref[r].state \in {"ATTACHED", "RELEASED"} /\ ref[r].art = Target(r)

\* A document that counts has its own home and its own size, and one that is purged has
\* nobody attached.
DocumentsAreSound ==
  \A a \in Artifacts :
    /\ art[a].home = None <=> art[a].state \in {"NONE", "PURGED"}
    /\ art[a].home # None => /\ ref[art[a].home].art = a
                             /\ ~ref[art[a].home].temp
                             /\ art[a].bytes = Size[a[2]]
    /\ art[a].state # "STORED" => Attached(a) = {}

\* A file is what a reference still waits for, or the home of a document.
FilesAreKnown ==
  \A r \in files : ref[r].temp \/ (ref[r].art # None /\ art[ref[r].art].home = r)

StoredWithinLimits ==
  /\ Stored(Tenants) <= GlobalLimit
  /\ \A t \in Tenants : Stored({t}) <= TenantLimit

Custody == QuotaRows /\ RefsAreSound /\ DocumentsAreSound /\ FilesAreKnown
QuotaLimits == StoredWithinLimits /\ UserWithinLimit
QuotaInv == Custody /\ QuotaLimits

\* A sum over a part of a set and over the rest.
LEMMA SumSplit ==
  ASSUME NEW S, IsFiniteSet(S), NEW A \in SUBSET S, NEW f, \A x \in S : f[x] \in Nat
  PROVE  SumFunctionOnSet(f, S) = SumFunctionOnSet(f, A) + SumFunctionOnSet(f, S \ A)
<1> DEFINE U == Units(f, A)
           V == Units(f, S \ A)
<1>1. IsFiniteSet(A) /\ IsFiniteSet(S \ A)
  BY FS_Subset
<1>2. IsFiniteSet(U) /\ IsFiniteSet(V) /\ Cardinality(U) \in Nat /\ Cardinality(V) \in Nat
  BY <1>1, UnitsFinite
<1>3. Units(f, S) = U \cup V /\ U \cap V = {}
  BY DEF Units
<1>4. Cardinality(U \cap V) = 0
  BY <1>3, FS_EmptySet
<1>5. SumFunctionOnSet(f, A) = Cardinality(U) /\ SumFunctionOnSet(f, S \ A) = Cardinality(V)
  BY <1>1, SumIsUnits
<1>6. SumFunctionOnSet(f, S) = Cardinality(Units(f, S))
  BY SumIsUnits
<1> HIDE DEF U, V
<1>7. Cardinality(U \cup V) = Cardinality(U) + Cardinality(V) - Cardinality(U \cap V)
  BY <1>2, FS_Union
<1> QED BY <1>2, <1>3, <1>4, <1>5, <1>6, <1>7

\* A sum whose terms are found, each once, among those of another.
LEMMA SumAlong ==
  ASSUME NEW S, IsFiniteSet(S), NEW T, IsFiniteSet(T), NEW f, NEW g, NEW h,
         \A x \in S : h[x] \in T /\ f[x] \in Nat /\ g[h[x]] = f[x],
         \A x, y \in S : h[x] = h[y] => x = y,
         \A y \in T : g[y] \in Nat
  PROVE  SumFunctionOnSet(f, S) <= SumFunctionOnSet(g, T)
<1> DEFINE m == [p \in Units(f, S) |-> <<h[p[1]], p[2]>>]
<1>1. m \in Injection(Units(f, S), Units(g, T))
  <2>1. \A p \in Units(f, S) : p[1] \in S /\ p[2] \in 1..f[p[1]] /\ p = <<p[1], p[2]>>
    BY DEF Units
  <2>2. m \in [Units(f, S) -> Units(g, T)]
    <3> SUFFICES ASSUME NEW p \in Units(f, S) PROVE <<h[p[1]], p[2]>> \in Units(g, T)
      OBVIOUS
    <3>1. h[p[1]] \in T /\ p[2] \in 1..g[h[p[1]]]
      BY <2>1
    <3> QED BY <3>1 DEF Units
  <2>3. ASSUME NEW p \in Units(f, S), NEW q \in Units(f, S), m[p] = m[q] PROVE p = q
    <3>1. h[p[1]] = h[q[1]] /\ p[2] = q[2]
      BY <2>3
    <3> QED BY <2>1, <3>1
  <2> QED BY <2>2, <2>3 DEF Injection, IsInjective
<1> HIDE DEF m
<1>2. IsFiniteSet(Units(g, T))
  BY UnitsFinite
<1>3. Cardinality(Units(f, S)) <= Cardinality(Units(g, T))
  BY <1>1, <1>2, FS_Injection
<1> QED BY <1>3, SumIsUnits

\* A finite set of numbers has a largest one.
LEMMA LargestNumber ==
  ASSUME NEW S, IsFiniteSet(S)
  PROVE  S \subseteq Nat /\ S # {} => Max(S) \in S /\ \A n \in S : n <= Max(S)
<1> DEFINE C == {s \in SUBSET S : s # {} /\ \A m \in s : \E n \in s : ~(n <= m)}
<1>1. ASSUME C # {} PROVE S \subseteq Nat => FALSE
  <2>0. C \in SUBSET SUBSET S
    OBVIOUS
  <2>1. PICK s \in C : \A t \in C : ~(t \subseteq s /\ t # s)
    <3> HIDE DEF C
    <3> QED BY <1>1, <2>0, LeastSet
  <2> SUFFICES ASSUME S \subseteq Nat PROVE FALSE
    OBVIOUS
  <2>2. PICK x \in s : TRUE
    OBVIOUS
  <2>3. s \ {x} # {}
    <3>1. x \in Nat
      OBVIOUS
    <3>2. PICK n \in s : ~(n <= x)
      BY <2>2
    <3> QED BY <3>1, <3>2
  <2>4. PICK m \in s \ {x} : \A n \in s \ {x} : n <= m
    <3>1. s \ {x} \subseteq s /\ s \ {x} # s
      BY <2>2
    <3>2. s \ {x} \notin C
      <4> HIDE DEF C
      <4> QED BY <2>1, <3>1
    <3>3. s \ {x} \in SUBSET S
      OBVIOUS
    <3> QED BY <2>3, <3>2, <3>3
  <2>5. x \in Nat /\ m \in Nat /\ s \subseteq Nat
    OBVIOUS
  <2>6. CASE x <= m
    BY <2>4, <2>5, <2>6
  <2>7. CASE m <= x
    <3>1. \A n \in s : n <= x
      BY <2>4, <2>5, <2>7
    <3> QED BY <2>2, <3>1
  <2> QED BY <2>5, <2>6, <2>7
<1> SUFFICES ASSUME S \subseteq Nat, S # {} PROVE Max(S) \in S /\ \A n \in S : n <= Max(S)
  OBVIOUS
<1>2. \E m \in S : \A n \in S : n <= m
  BY <1>1
<1>3. Max(S) = CHOOSE x \in S : \A y \in S : x >= y
  BY DEF Max
<1>4. \E x \in S : \A y \in S : x >= y
  <2>1. PICK m \in S : \A n \in S : n <= m
    BY <1>2
  <2>2. \A n \in S : m >= n
    BY <2>1
  <2> QED BY <2>2
<1>5. Max(S) \in S /\ \A y \in S : Max(S) >= y
  BY <1>3, <1>4
<1> QED BY <1>5

\* What an account holds is a sum over references and one over documents.  It does not
\* grow when both lose members, or when a reference gives way to one document of its size.
LEMMA AccountShrinks ==
  ASSUME NEW S, IsFiniteSet(S), NEW A, IsFiniteSet(A), NEW S2 \in SUBSET S, NEW A2 \in SUBSET A,
         NEW f, NEW g, NEW f2, NEW g2,
         \A x \in S : f[x] \in Nat, \A y \in A : g[y] \in Nat,
         \A x \in S2 : f2[x] = f[x], \A y \in A2 : g2[y] = g[y],
         NEW n \in Nat, SumFunctionOnSet(f, S) + SumFunctionOnSet(g, A) <= n
  PROVE  SumFunctionOnSet(f2, S2) + SumFunctionOnSet(g2, A2) <= n
<1>1. IsFiniteSet(S2) /\ IsFiniteSet(A2)
  BY FS_Subset
<1>2. \A x \in S2 : f2[x] \in Nat /\ f2[x] <= f[x]
  OBVIOUS
<1>3. \A y \in A2 : g2[y] \in Nat /\ g2[y] <= g[y]
  OBVIOUS
<1>4. SumFunctionOnSet(f2, S2) <= SumFunctionOnSet(f, S)
  BY <1>2, SumGrows
<1>5. SumFunctionOnSet(g2, A2) <= SumFunctionOnSet(g, A)
  BY <1>3, SumGrows
<1>6. SumFunctionOnSet(f2, S2) \in Nat /\ SumFunctionOnSet(g2, A2) \in Nat
  BY <1>1, <1>2, <1>3, SumType
<1>7. SumFunctionOnSet(f, S) \in Nat /\ SumFunctionOnSet(g, A) \in Nat
  BY SumType
<1> QED BY <1>4, <1>5, <1>6, <1>7

LEMMA AccountGrows ==
  ASSUME NEW S, IsFiniteSet(S), NEW A, IsFiniteSet(A), NEW A2 \in SUBSET A, NEW r, r \notin S,
         NEW f, NEW g, NEW f2, NEW g2,
         \A x \in S : f[x] \in Nat, \A y \in A : g[y] \in Nat, f2[r] \in Nat,
         \A x \in S : f2[x] = f[x], \A y \in A2 : g2[y] = g[y],
         NEW n \in Nat, SumFunctionOnSet(f, S) + SumFunctionOnSet(g, A) + f2[r] <= n
  PROVE  SumFunctionOnSet(f2, S \cup {r}) + SumFunctionOnSet(g2, A2) <= n
<1>1. IsFiniteSet(A2)
  BY FS_Subset
<1>2. \A y \in A2 : g2[y] \in Nat /\ g2[y] <= g[y]
  OBVIOUS
<1>3. SumFunctionOnSet(f2, S \cup {r}) = f2[r] + SumFunctionOnSet(f, S)
  BY SumAdds
<1>4. SumFunctionOnSet(g2, A2) <= SumFunctionOnSet(g, A)
  BY <1>2, SumGrows
<1>5. SumFunctionOnSet(g2, A2) \in Nat
  BY <1>1, <1>2, SumType
<1>6. SumFunctionOnSet(f, S) \in Nat /\ SumFunctionOnSet(g, A) \in Nat
  BY SumType
<1> QED BY <1>3, <1>4, <1>5, <1>6

LEMMA AccountMoves ==
  ASSUME NEW S, IsFiniteSet(S), NEW A, IsFiniteSet(A), NEW r \in S, NEW a,
         NEW S2 \in SUBSET (S \ {r}), NEW A2 \in SUBSET (A \cup {a}),
         NEW f, NEW g, NEW f2, NEW g2,
         \A x \in S : f[x] \in Nat, \A y \in A : g[y] \in Nat,
         \A x \in S2 : f2[x] = f[x], \A y \in A2 \ {a} : g2[y] = g[y], a \in A2 => g2[a] = f[r],
         NEW n \in Nat, SumFunctionOnSet(f, S) + SumFunctionOnSet(g, A) <= n
  PROVE  SumFunctionOnSet(f2, S2) + SumFunctionOnSet(g2, A2) <= n
<1> DEFINE R == S \ {r}
           B == A2 \ {a}
<1>1. IsFiniteSet(R) /\ IsFiniteSet(S2) /\ B \subseteq A
  BY FS_Subset
<1>2. IsFiniteSet(B)
  BY <1>1, FS_Subset
<1>3. SumFunctionOnSet(f, R \cup {r}) = f[r] + SumFunctionOnSet(f, R)
  <2>1. r \notin R /\ (\A x \in R : f[x] \in Nat /\ f[x] = f[x]) /\ f[r] \in Nat
    OBVIOUS
  <2> HIDE DEF R
  <2> QED BY <1>1, <2>1, SumAdds
<1>4. R \cup {r} = S
  OBVIOUS
<1>5. \A x \in S2 : f2[x] \in Nat /\ f2[x] <= f[x]
  OBVIOUS
<1>6. \A y \in B : g2[y] \in Nat /\ g2[y] <= g[y]
  OBVIOUS
<1>7. \A x \in R : f[x] \in Nat
  OBVIOUS
<1>8. S2 \in SUBSET R /\ B \in SUBSET A
  BY <1>1
<1> HIDE DEF R
<1>9. SumFunctionOnSet(f2, S2) <= SumFunctionOnSet(f, R)
  BY <1>1, <1>5, <1>7, <1>8, SumGrows
<1>10. SumFunctionOnSet(f2, S2) \in Nat
  BY <1>1, <1>5, SumType
<1>11. SumFunctionOnSet(f, R) \in Nat
  BY <1>1, <1>7, SumType
<1>12. SumFunctionOnSet(g, A) \in Nat
  BY SumType
<1>13. SumFunctionOnSet(g2, A2) <= f[r] + SumFunctionOnSet(g, A) /\ SumFunctionOnSet(g2, A2) \in Nat
  <2>0. f[r] \in Nat
    OBVIOUS
  <2>1. SumFunctionOnSet(g2, B) <= SumFunctionOnSet(g, A) /\ SumFunctionOnSet(g2, B) \in Nat
    <3> HIDE DEF B
    <3>1. SumFunctionOnSet(g2, B) <= SumFunctionOnSet(g, A)
      BY <1>6, <1>8, SumGrows
    <3>2. SumFunctionOnSet(g2, B) \in Nat
      BY <1>2, <1>6, SumType
    <3> QED BY <3>1, <3>2
  <2>2. CASE a \in A2
    <3>1. A2 = B \cup {a} /\ a \notin B
      BY <2>2
    <3>2. g2[a] \in Nat /\ \A y \in B : g2[y] \in Nat /\ g2[y] = g2[y]
      BY <1>6, <2>0, <2>2
    <3>4. g2[a] = f[r]
      BY <2>2
    <3> HIDE DEF B
    <3>3. SumFunctionOnSet(g2, B \cup {a}) = g2[a] + SumFunctionOnSet(g2, B)
      BY <1>2, <3>1, <3>2, SumAdds
    <3> QED BY <1>12, <2>0, <2>1, <3>1, <3>3, <3>4
  <2>3. CASE a \notin A2
    <3>1. A2 = B
      BY <2>3
    <3> QED BY <1>12, <2>0, <2>1, <3>1
  <2> QED BY <2>2, <2>3
<1>14. f[r] \in Nat
  OBVIOUS
<1> QED BY <1>3, <1>4, <1>9, <1>10, <1>11, <1>12, <1>13, <1>14

\* The accounts of some tenants and of a user.
TenantRefs(ts) == {r \in Temporary : TenantAt(r) \in ts}
TenantDocs(ts) == {a \in Retained : a[1] \in ts}
UserRefs(u) == {r \in Temporary : UserOf(r) = u /\ ~ref[r].pending}
UserDocs(u) == {a \in Retained : u \in Payers(a)}
Spent(u)    == Sum(UserRefs(u), Reserved) + Sum(UserDocs(u), Verified)

LEMMA AccountTerms ==
  ASSUME Custody
  PROVE  /\ IsFiniteSet(Artifacts)
         /\ \A S \in SUBSET Temporary : IsFiniteSet(S) /\ \A r \in S : SizeOf(r) \in Nat
         /\ \A A \in SUBSET Retained : IsFiniteSet(A) /\ \A a \in A : art[a].bytes \in Nat
<1>1. IsFiniteSet(Artifacts)
  BY FS_Product, QuotaAssumption DEF Artifacts
<1>2. ASSUME NEW S \in SUBSET Temporary PROVE IsFiniteSet(S) /\ \A r \in S : SizeOf(r) \in Nat
  <2>1. S \subseteq Refs
    BY DEF Temporary
  <2>2. IsFiniteSet(S)
    BY <2>1, FS_Subset, QuotaAssumption
  <2>3. ASSUME NEW r \in S PROVE SizeOf(r) \in Nat
    <3>1. r \in Refs /\ ref[r].temp
      BY DEF Temporary
    <3>2. ref[r].doc \in Documents
      BY <3>1 DEF Custody, RefsAreSound
    <3> QED BY <3>2, QuotaAssumption DEF SizeOf
  <2> QED BY <2>2, <2>3
<1>3. ASSUME NEW A \in SUBSET Retained PROVE IsFiniteSet(A) /\ \A a \in A : art[a].bytes \in Nat
  <2>1. A \subseteq Artifacts
    BY DEF Retained
  <2>2. IsFiniteSet(A)
    BY <1>1, <2>1, FS_Subset
  <2>3. \A a \in A : art[a].bytes \in Nat
    BY <2>1 DEF Custody, QuotaRows, ArtRows
  <2> QED BY <2>2, <2>3
<1> QED BY <1>1, <1>2, <1>3

LEMMA StoredShrinks ==
  ASSUME Custody, NEW ts,
         TenantRefs(ts)' \subseteq TenantRefs(ts), TenantDocs(ts)' \subseteq TenantDocs(ts),
         \A x \in TenantRefs(ts)' : SizeOf(x)' = SizeOf(x),
         \A y \in TenantDocs(ts)' : art'[y].bytes = art[y].bytes,
         NEW n \in Nat, Stored(ts) <= n
  PROVE  Stored(ts)' <= n
<1> DEFINE S  == TenantRefs(ts)
           A  == TenantDocs(ts)
           S2 == TenantRefs(ts)'
           A2 == TenantDocs(ts)'
           f  == [x \in S |-> SizeOf(x)]
           g  == [y \in A |-> art[y].bytes]
           f2 == [x \in S2 |-> SizeOf(x)']
           g2 == [y \in A2 |-> art'[y].bytes]
<1>1. Stored(ts) = SumFunctionOnSet(f, S) + SumFunctionOnSet(g, A)
  BY DEF Stored, TenantRefs, TenantDocs, Sum, SumFunction, Reserved, Verified
<1>2. Stored(ts)' = SumFunctionOnSet(f2, S2) + SumFunctionOnSet(g2, A2)
  BY DEF Stored, TenantRefs, TenantDocs, Sum, SumFunction, Reserved, Verified
<1>3. /\ IsFiniteSet(S) /\ IsFiniteSet(A)
      /\ \A x \in S : f[x] \in Nat
      /\ \A y \in A : g[y] \in Nat
  BY AccountTerms DEF TenantRefs, TenantDocs
<1>4. /\ \A x \in S2 : f2[x] = f[x]
      /\ \A y \in A2 : g2[y] = g[y]
      /\ S2 \in SUBSET S /\ A2 \in SUBSET A
  OBVIOUS
<1>5. SumFunctionOnSet(f, S) + SumFunctionOnSet(g, A) <= n
  BY <1>1
<1> HIDE DEF S, A, S2, A2, f, g, f2, g2
<1> QED BY <1>2, <1>3, <1>4, <1>5, AccountShrinks

LEMMA SpentShrinks ==
  ASSUME Custody, NEW u,
         UserRefs(u)' \subseteq UserRefs(u), UserDocs(u)' \subseteq UserDocs(u),
         \A x \in UserRefs(u)' : SizeOf(x)' = SizeOf(x),
         \A y \in UserDocs(u)' : art'[y].bytes = art[y].bytes,
         NEW n \in Nat, Spent(u) <= n
  PROVE  Spent(u)' <= n
<1> DEFINE S  == UserRefs(u)
           A  == UserDocs(u)
           S2 == UserRefs(u)'
           A2 == UserDocs(u)'
           f  == [x \in S |-> SizeOf(x)]
           g  == [y \in A |-> art[y].bytes]
           f2 == [x \in S2 |-> SizeOf(x)']
           g2 == [y \in A2 |-> art'[y].bytes]
<1>1. Spent(u) = SumFunctionOnSet(f, S) + SumFunctionOnSet(g, A)
  BY DEF Spent, Sum, SumFunction, Reserved, Verified
<1>2. Spent(u)' = SumFunctionOnSet(f2, S2) + SumFunctionOnSet(g2, A2)
  BY DEF Spent, Sum, SumFunction, Reserved, Verified
<1>3. /\ IsFiniteSet(S) /\ IsFiniteSet(A)
      /\ \A x \in S : f[x] \in Nat
      /\ \A y \in A : g[y] \in Nat
  BY AccountTerms DEF UserRefs, UserDocs
<1>4. /\ \A x \in S2 : f2[x] = f[x]
      /\ \A y \in A2 : g2[y] = g[y]
      /\ S2 \in SUBSET S /\ A2 \in SUBSET A
  OBVIOUS
<1>5. SumFunctionOnSet(f, S) + SumFunctionOnSet(g, A) <= n
  BY <1>1
<1> HIDE DEF S, A, S2, A2, f, g, f2, g2
<1> QED BY <1>2, <1>3, <1>4, <1>5, AccountShrinks

LEMMA StoredGrows ==
  ASSUME Custody, NEW ts,
         NEW r, r \notin TenantRefs(ts), TenantRefs(ts)' = TenantRefs(ts) \cup {r},
         TenantDocs(ts)' \subseteq TenantDocs(ts), SizeOf(r)' \in Nat,
         \A x \in TenantRefs(ts) : SizeOf(x)' = SizeOf(x),
         \A y \in TenantDocs(ts)' : art'[y].bytes = art[y].bytes,
         NEW n \in Nat, Stored(ts) + SizeOf(r)' <= n
  PROVE  Stored(ts)' <= n
<1> DEFINE S  == TenantRefs(ts)
           A  == TenantDocs(ts)
           S2 == TenantRefs(ts)'
           A2 == TenantDocs(ts)'
           f  == [x \in S |-> SizeOf(x)]
           g  == [y \in A |-> art[y].bytes]
           f2 == [x \in S2 |-> SizeOf(x)']
           g2 == [y \in A2 |-> art'[y].bytes]
<1>1. Stored(ts) = SumFunctionOnSet(f, S) + SumFunctionOnSet(g, A)
  BY DEF Stored, TenantRefs, TenantDocs, Sum, SumFunction, Reserved, Verified
<1>2. Stored(ts)' = SumFunctionOnSet(f2, S2) + SumFunctionOnSet(g2, A2)
  BY DEF Stored, TenantRefs, TenantDocs, Sum, SumFunction, Reserved, Verified
<1>3. /\ IsFiniteSet(S) /\ IsFiniteSet(A)
      /\ \A x \in S : f[x] \in Nat
      /\ \A y \in A : g[y] \in Nat
  BY AccountTerms DEF TenantRefs, TenantDocs
<1>4. /\ \A x \in S : f2[x] = f[x]
      /\ f2[r] = SizeOf(r)'
      /\ \A y \in A2 : g2[y] = g[y]
      /\ S2 = S \cup {r} /\ r \notin S /\ A2 \in SUBSET A
  OBVIOUS
<1>5. SumFunctionOnSet(f, S) + SumFunctionOnSet(g, A) + f2[r] <= n
  BY <1>1, <1>4
<1>6. f2[r] \in Nat
  BY <1>4
<1> HIDE DEF S, A, S2, A2, f, g, f2, g2
<1> QED BY <1>2, <1>3, <1>4, <1>5, <1>6, AccountGrows

LEMMA SpentGrows ==
  ASSUME Custody, NEW u,
         NEW r, r \notin UserRefs(u), UserRefs(u)' = UserRefs(u) \cup {r},
         UserDocs(u)' \subseteq UserDocs(u), SizeOf(r)' \in Nat,
         \A x \in UserRefs(u) : SizeOf(x)' = SizeOf(x),
         \A y \in UserDocs(u)' : art'[y].bytes = art[y].bytes,
         NEW n \in Nat, Spent(u) + SizeOf(r)' <= n
  PROVE  Spent(u)' <= n
<1> DEFINE S  == UserRefs(u)
           A  == UserDocs(u)
           S2 == UserRefs(u)'
           A2 == UserDocs(u)'
           f  == [x \in S |-> SizeOf(x)]
           g  == [y \in A |-> art[y].bytes]
           f2 == [x \in S2 |-> SizeOf(x)']
           g2 == [y \in A2 |-> art'[y].bytes]
<1>1. Spent(u) = SumFunctionOnSet(f, S) + SumFunctionOnSet(g, A)
  BY DEF Spent, Sum, SumFunction, Reserved, Verified
<1>2. Spent(u)' = SumFunctionOnSet(f2, S2) + SumFunctionOnSet(g2, A2)
  BY DEF Spent, Sum, SumFunction, Reserved, Verified
<1>3. /\ IsFiniteSet(S) /\ IsFiniteSet(A)
      /\ \A x \in S : f[x] \in Nat
      /\ \A y \in A : g[y] \in Nat
  BY AccountTerms DEF UserRefs, UserDocs
<1>4. /\ \A x \in S : f2[x] = f[x]
      /\ f2[r] = SizeOf(r)'
      /\ \A y \in A2 : g2[y] = g[y]
      /\ S2 = S \cup {r} /\ r \notin S /\ A2 \in SUBSET A
  OBVIOUS
<1>5. SumFunctionOnSet(f, S) + SumFunctionOnSet(g, A) + f2[r] <= n
  BY <1>1, <1>4
<1>6. f2[r] \in Nat
  BY <1>4
<1> HIDE DEF S, A, S2, A2, f, g, f2, g2
<1> QED BY <1>2, <1>3, <1>4, <1>5, <1>6, AccountGrows

LEMMA StoredMoves ==
  ASSUME Custody, NEW ts,
         NEW r \in TenantRefs(ts), TenantRefs(ts)' \subseteq TenantRefs(ts) \ {r},
         NEW a, TenantDocs(ts)' \subseteq TenantDocs(ts) \cup {a},
         \A x \in TenantRefs(ts)' : SizeOf(x)' = SizeOf(x),
         \A y \in TenantDocs(ts)' \ {a} : art'[y].bytes = art[y].bytes,
         a \in TenantDocs(ts)' => art'[a].bytes = SizeOf(r),
         NEW n \in Nat, Stored(ts) <= n
  PROVE  Stored(ts)' <= n
<1> DEFINE S  == TenantRefs(ts)
           A  == TenantDocs(ts)
           S2 == TenantRefs(ts)'
           A2 == TenantDocs(ts)'
           f  == [x \in S |-> SizeOf(x)]
           g  == [y \in A |-> art[y].bytes]
           f2 == [x \in S2 |-> SizeOf(x)']
           g2 == [y \in A2 |-> art'[y].bytes]
<1>1. Stored(ts) = SumFunctionOnSet(f, S) + SumFunctionOnSet(g, A)
  BY DEF Stored, TenantRefs, TenantDocs, Sum, SumFunction, Reserved, Verified
<1>2. Stored(ts)' = SumFunctionOnSet(f2, S2) + SumFunctionOnSet(g2, A2)
  BY DEF Stored, TenantRefs, TenantDocs, Sum, SumFunction, Reserved, Verified
<1>3. /\ IsFiniteSet(S) /\ IsFiniteSet(A)
      /\ \A x \in S : f[x] \in Nat
      /\ \A y \in A : g[y] \in Nat
  BY AccountTerms DEF TenantRefs, TenantDocs
<1>4. /\ \A x \in S2 : f2[x] = f[x]
      /\ \A y \in A2 \ {a} : g2[y] = g[y]
      /\ a \in A2 => g2[a] = f[r]
      /\ r \in S /\ S2 \in SUBSET (S \ {r}) /\ A2 \in SUBSET (A \cup {a})
  OBVIOUS
<1>5. SumFunctionOnSet(f, S) + SumFunctionOnSet(g, A) <= n
  BY <1>1
<1> HIDE DEF S, A, S2, A2, f, g, f2, g2
<1> QED BY <1>2, <1>3, <1>4, <1>5, AccountMoves

LEMMA SpentMoves ==
  ASSUME Custody, NEW u,
         NEW r \in UserRefs(u), UserRefs(u)' \subseteq UserRefs(u) \ {r},
         NEW a, UserDocs(u)' \subseteq UserDocs(u) \cup {a},
         \A x \in UserRefs(u)' : SizeOf(x)' = SizeOf(x),
         \A y \in UserDocs(u)' \ {a} : art'[y].bytes = art[y].bytes,
         a \in UserDocs(u)' => art'[a].bytes = SizeOf(r),
         NEW n \in Nat, Spent(u) <= n
  PROVE  Spent(u)' <= n
<1> DEFINE S  == UserRefs(u)
           A  == UserDocs(u)
           S2 == UserRefs(u)'
           A2 == UserDocs(u)'
           f  == [x \in S |-> SizeOf(x)]
           g  == [y \in A |-> art[y].bytes]
           f2 == [x \in S2 |-> SizeOf(x)']
           g2 == [y \in A2 |-> art'[y].bytes]
<1>1. Spent(u) = SumFunctionOnSet(f, S) + SumFunctionOnSet(g, A)
  BY DEF Spent, Sum, SumFunction, Reserved, Verified
<1>2. Spent(u)' = SumFunctionOnSet(f2, S2) + SumFunctionOnSet(g2, A2)
  BY DEF Spent, Sum, SumFunction, Reserved, Verified
<1>3. /\ IsFiniteSet(S) /\ IsFiniteSet(A)
      /\ \A x \in S : f[x] \in Nat
      /\ \A y \in A : g[y] \in Nat
  BY AccountTerms DEF UserRefs, UserDocs
<1>4. /\ \A x \in S2 : f2[x] = f[x]
      /\ \A y \in A2 \ {a} : g2[y] = g[y]
      /\ a \in A2 => g2[a] = f[r]
      /\ r \in S /\ S2 \in SUBSET (S \ {r}) /\ A2 \in SUBSET (A \cup {a})
  OBVIOUS
<1>5. SumFunctionOnSet(f, S) + SumFunctionOnSet(g, A) <= n
  BY <1>1
<1> HIDE DEF S, A, S2, A2, f, g, f2, g2
<1> QED BY <1>2, <1>3, <1>4, <1>5, AccountMoves

\* Releases are numbered upwards.
LEMMA LaterIsLater ==
  ASSUME QuotaRows
  PROVE  Later \in Nat /\ \A r \in Refs : ref[r].left < Later
<1> DEFINE h == [r \in Refs |-> ref[r].left]
           L == {h[r] : r \in Refs}
<1>1. \A r \in Refs : h[r] \in Nat /\ h[r] = ref[r].left
  BY DEF QuotaRows, RefRows
<1>2. h \in Surjection(Refs, L)
  BY DEF Surjection
<1>3. {ref[r].left : r \in Refs} = L
  OBVIOUS
<1>4. L \subseteq Nat
  BY <1>1
<1> HIDE DEF h
<1>5. IsFiniteSet(L)
  <2> HIDE DEF L
  <2> QED BY <1>2, FS_Surjection, QuotaAssumption
<1> DEFINE M == L \cup {0}
<1>6. IsFiniteSet(M)
  <2> HIDE DEF L
  <2> QED BY <1>5, FS_AddElement
<1>7. M \subseteq Nat /\ M # {} /\ \A r \in Refs : h[r] \in M
  BY <1>4
<1>8. Later = 1 + Max(M)
  <2>1. M = {0} \cup {ref[r].left : r \in Refs}
    BY <1>3
  <2> HIDE DEF M
  <2> QED BY <2>1 DEF Later
<1> HIDE DEF M
<1>9. Max(M) \in M /\ \A n \in M : n <= Max(M)
  BY <1>6, <1>7, LargestNumber
<1>10. Max(M) \in Nat
  BY <1>7, <1>9
<1>11. ASSUME NEW r \in Refs PROVE ref[r].left < Later
  <2>1. h[r] <= Max(M) /\ h[r] \in Nat /\ h[r] = ref[r].left
    BY <1>1, <1>7, <1>9
  <2> QED BY <1>8, <1>10, <2>1
<1> QED BY <1>8, <1>10, <1>11

LEMMA RefOf ==
  ASSUME QuotaRows, NEW r \in Refs
  PROVE  /\ ref[r] \in RefRows
         /\ ref[r].art \in Artifacts \cup {None} /\ ref[r].left \in Nat
         /\ ref[r].temp \in BOOLEAN /\ ref[r].pending \in BOOLEAN
BY DEF QuotaRows, RefRows

\* What holds of the tenant and the document of a reference in use.
LEMMA TargetIsArtifact ==
  ASSUME Custody, NEW r \in Refs, ref[r].state # "NONE"
  PROVE  /\ ref[r].sess \in Sessions /\ ref[r].doc \in Documents
         /\ UserOf(r) \in Users /\ TenantAt(r) \in Tenants
         /\ Target(r) \in Artifacts /\ Target(r) # None
         /\ Target(r)[1] = TenantAt(r) /\ Size[Target(r)[2]] = SizeOf(r) /\ SizeOf(r) \in Nat
<1>1. ref[r].sess \in Sessions /\ ref[r].doc \in Documents
  BY DEF Custody, RefsAreSound
<1>2. UserOf(r) \in Users
  BY <1>1, QuotaAssumption DEF UserOf
<1>3. TenantAt(r) \in Tenants
  BY <1>2, QuotaAssumption DEF TenantAt
<1>4. Target(r) \in Tenants \X Documents /\ Target(r)[1] = TenantAt(r) /\ Target(r)[2] = ref[r].doc
  BY <1>1, <1>3 DEF Target
<1>5. None \notin Tenants \X Documents
  BY QuotaAssumption
<1>6. SizeOf(r) \in Nat /\ Size[Target(r)[2]] = SizeOf(r)
  BY <1>1, <1>4, QuotaAssumption DEF SizeOf
<1> QED BY <1>1, <1>2, <1>3, <1>4, <1>5, <1>6 DEF Artifacts

LEMMA DocumentOf ==
  ASSUME Custody, NEW a \in Artifacts
  PROVE  /\ a # None /\ art[a] \in ArtRows
         /\ art[a].home \in Refs \cup {None} /\ art[a].bytes \in Nat
<1>1. a # None
  BY QuotaAssumption DEF Artifacts
<1> QED BY <1>1 DEF Custody, QuotaRows, ArtRows

LEMMA InitIsCustody == QuotaInit => Custody
<1> SUFFICES ASSUME QuotaInit PROVE Custody
  OBVIOUS
<1>1. NoRef \in RefRows /\ NoArt \in ArtRows
  BY DEF NoRef, NoArt, RefRows, ArtRows
<1>2. QuotaRows
  BY <1>1 DEF QuotaInit, QuotaRows
<1>3. \A r \in Refs : ref[r].state = "NONE" /\ ref[r].sess = None /\ ~ref[r].temp /\ ~ref[r].pending /\ ref[r].art = None
  BY DEF QuotaInit, NoRef
<1>4. \A a \in Artifacts : art[a].state = "NONE" /\ art[a].home = None
  BY DEF QuotaInit, NoArt
<1>5. RefsAreSound
  BY <1>3 DEF RefsAreSound
<1>6. DocumentsAreSound
  BY <1>3, <1>4 DEF DocumentsAreSound, Attached, RefsOf
<1>7. FilesAreKnown
  BY DEF QuotaInit, FilesAreKnown
<1> QED BY <1>2, <1>5, <1>6, <1>7 DEF Custody

\* What a step may do to a reference without a change to what documents and files say of it.
RefStays(r) ==
  /\ ref'[r].art = ref[r].art
  /\ ref[r].state # "NONE" => /\ ref'[r].doc = ref[r].doc
                              /\ ref'[r].sess \in Sessions
                              /\ OwnerOf[ref'[r].sess] = OwnerOf[ref[r].sess]
  /\ ref'[r].state = "NONE" => ref'[r] = ref[r]
  /\ ref[r].state = "NONE" /\ ref'[r].state # "NONE" =>
       ref'[r].sess \in Sessions /\ ref'[r].doc \in Documents
  /\ ref'[r].state = "RESERVED" => ref'[r].temp /\ ~ref'[r].pending
  /\ ref'[r].pending => ref'[r].temp
  /\ ref'[r].state = "ATTACHED" => ref[r].state = "ATTACHED"
  /\ ref[r].state \in {"ATTACHED", "RELEASED"} => ref'[r].state \in {"ATTACHED", "RELEASED"}
  /\ ref'[r].temp => ref[r].temp \/ ref[r].art = None
  /\ ref[r].temp => ref'[r].temp \/ r \notin files

\* Steps that change a reference only.  The links of the references and their tenants stay.
LEMMA RefsStaySound ==
  ASSUME Custody, UNCHANGED <<art, files>>, QuotaRows',
         \A r \in Refs : RefStays(r)
  PROVE  Custody'
<1> USE DEF RefStays
<1>1. ASSUME NEW r \in Refs, ref[r].state # "NONE" PROVE Target(r)' = Target(r)
  BY <1>1 DEF Target, TenantAt, UserOf
<1>2. RefsAreSound'
  <2> SUFFICES ASSUME NEW r \in Refs
               PROVE  /\ ref'[r].state # "NONE" => ref'[r].sess \in Sessions /\ ref'[r].doc \in Documents
                      /\ ref'[r].state = "NONE" => ~ref'[r].temp /\ ref'[r].sess = None
                      /\ ref'[r].state = "RESERVED" => ref'[r].temp /\ ~ref'[r].pending
                      /\ ref'[r].pending => ref'[r].temp
                      /\ ref'[r].art # None =>
                           ref'[r].state \in {"ATTACHED", "RELEASED"} /\ ref'[r].art = Target(r)'
    BY DEF RefsAreSound
  <2>1. ref'[r].state # "NONE" => ref'[r].sess \in Sessions /\ ref'[r].doc \in Documents
    BY DEF Custody, RefsAreSound
  <2>2. ref'[r].art # None => ref'[r].state \in {"ATTACHED", "RELEASED"} /\ ref'[r].art = Target(r)'
    <3> SUFFICES ASSUME ref'[r].art # None
                 PROVE  ref'[r].state \in {"ATTACHED", "RELEASED"} /\ ref'[r].art = Target(r)'
      OBVIOUS
    <3>1. ref[r].art # None /\ ref'[r].art = ref[r].art
      OBVIOUS
    <3>2. ref[r].state \in {"ATTACHED", "RELEASED"} /\ ref[r].art = Target(r)
      BY <3>1 DEF Custody, RefsAreSound
    <3> QED BY <1>1, <3>1, <3>2
  <2>3. ref'[r].state = "NONE" => ~ref'[r].temp /\ ref'[r].sess = None
    BY DEF Custody, RefsAreSound
  <2> QED BY <2>1, <2>2, <2>3
<1>3. DocumentsAreSound'
  <2> SUFFICES ASSUME NEW a \in Artifacts
               PROVE  /\ art[a].home = None <=> art[a].state \in {"NONE", "PURGED"}
                      /\ art[a].home # None => /\ ref'[art[a].home].art = a
                                               /\ ~ref'[art[a].home].temp
                                               /\ art[a].bytes = Size[a[2]]
                      /\ art[a].state # "STORED" => Attached(a)' = {}
    BY DEF DocumentsAreSound
  <2>1. Attached(a)' \subseteq Attached(a)
    BY DEF Attached, RefsOf
  <2>2. art[a].home # None => /\ ref'[art[a].home].art = a
                              /\ ~ref'[art[a].home].temp
                              /\ art[a].bytes = Size[a[2]]
    <3> SUFFICES ASSUME art[a].home # None
                 PROVE  /\ ref'[art[a].home].art = a
                        /\ ~ref'[art[a].home].temp
                        /\ art[a].bytes = Size[a[2]]
      OBVIOUS
    <3>1. art[a].home \in Refs /\ a # None
      BY DocumentOf
    <3>2. ref[art[a].home].art = a /\ ~ref[art[a].home].temp /\ art[a].bytes = Size[a[2]]
      BY DEF Custody, DocumentsAreSound
    <3> QED BY <3>1, <3>2
  <2>3. /\ art[a].home = None <=> art[a].state \in {"NONE", "PURGED"}
        /\ art[a].state # "STORED" => Attached(a) = {}
    BY DEF Custody, DocumentsAreSound
  <2> QED BY <2>1, <2>2, <2>3
<1>4. FilesAreKnown'
  <2> SUFFICES ASSUME NEW r \in files
               PROVE  ref'[r].temp \/ (ref'[r].art # None /\ art[ref'[r].art].home = r)
    BY DEF FilesAreKnown
  <2>1. r \in Refs
    BY DEF Custody, QuotaRows
  <2>2. ref[r].temp \/ (ref[r].art # None /\ art[ref[r].art].home = r)
    BY DEF Custody, FilesAreKnown
  <2> QED BY <2>1, <2>2
<1> QED BY <1>2, <1>3, <1>4 DEF Custody

LEMMA ReserveIsCustody ==
  ASSUME Custody, NEW r \in Refs, NEW s \in Sessions, NEW d \in Documents, Reserve(r, s, d)
  PROVE  Custody' /\ SizeOf(r)' = Size[d] /\ UserOf(r)' = OwnerOf[s]
<1> DEFINE n == [NoRef EXCEPT !.state = "RESERVED", !.sess = s, !.doc = d, !.temp = TRUE]
<1>1. /\ n \in RefRows /\ n.state = "RESERVED" /\ n.sess = s /\ n.doc = d /\ n.art = None
      /\ n.temp = TRUE /\ n.pending = FALSE
  BY DEF NoRef, RefRows
<1>2. ref' = [ref EXCEPT ![r] = n] /\ ref[r].state = "NONE" /\ UNCHANGED <<art, files, open>>
  BY DEF Reserve
<1> HIDE DEF n
<1>3. ref \in [Refs -> RefRows] /\ ref[r].art = None /\ ~ref[r].temp
  BY <1>2 DEF Custody, QuotaRows, RefsAreSound
<1>4. ref'[r] = n /\ \A q \in Refs \ {r} : ref'[q] = ref[q]
  BY <1>2, <1>3
<1>5. QuotaRows'
  BY <1>1, <1>2, <1>3 DEF Custody, QuotaRows
<1>6. \A q \in Refs : /\ ref[q].state # "NONE" => ref[q].sess \in Sessions
                      /\ ref[q].state = "NONE" => ~ref[q].temp
                      /\ ref[q].state = "RESERVED" => ref[q].temp /\ ~ref[q].pending
                      /\ ref[q].pending => ref[q].temp
  BY DEF Custody, RefsAreSound
<1>7. Custody'
  <2>1. ASSUME NEW q \in Refs
        PROVE  RefStays(q)
    <3>1. CASE q = r
      BY <1>1, <1>2, <1>3, <1>4, <3>1 DEF RefStays
    <3>2. CASE q # r
      BY <1>4, <1>6, <3>2 DEF RefStays
    <3> QED BY <3>1, <3>2
  <2> QED BY <1>2, <1>5, <2>1, RefsStaySound
<1> QED BY <1>1, <1>4, <1>7 DEF SizeOf, UserOf

LEMMA WriteIsCustody ==
  ASSUME Custody, NEW r \in Refs, Write(r)
  PROVE  Custody'
<1>1. QuotaRows' /\ RefsAreSound' /\ DocumentsAreSound'
  BY DEF Custody, Write, QuotaRows, RefsAreSound, Target, TenantAt, UserOf, DocumentsAreSound, Attached, RefsOf
<1>2. ref[r].temp
  BY DEF Custody, Write, RefsAreSound
<1>3. FilesAreKnown'
  BY <1>2 DEF Custody, Write, FilesAreKnown
<1> QED BY <1>1, <1>3 DEF Custody

\* The purges and Fail change one reference and keep its session.
LEMMA FailIsCustody ==
  ASSUME Custody, NEW r \in Refs, Fail(r)
  PROVE  Custody'
<1>1. /\ ref' = [ref EXCEPT ![r].state = "FAILED", ![r].pending = TRUE] /\ ref[r].state = "RESERVED"
      /\ UNCHANGED <<art, files, open>>
  BY DEF Fail
<1>2. ref \in [Refs -> RefRows] /\ ref[r].temp
  BY <1>1 DEF Custody, QuotaRows, RefsAreSound
<1>3. /\ ref'[r].state = "FAILED" /\ ref'[r].pending = TRUE
      /\ ref'[r].temp = ref[r].temp /\ ref'[r].sess = ref[r].sess /\ ref'[r].doc = ref[r].doc
      /\ ref'[r].art = ref[r].art
      /\ \A q \in Refs \ {r} : ref'[q] = ref[q]
  BY <1>1, <1>2 DEF RefRows
<1>4. QuotaRows'
  <2>1. ref[r] \in RefRows
    BY <1>2
  <2>2. [ref[r] EXCEPT !.state = "FAILED", !.pending = TRUE] \in RefRows
    BY <2>1 DEF RefRows
  <2>3. ref' = [ref EXCEPT ![r] = [ref[r] EXCEPT !.state = "FAILED", !.pending = TRUE]]
    BY <1>1
  <2> QED
    BY <1>1, <1>2, <2>2, <2>3 DEF Custody, QuotaRows
<1>5. \A q \in Refs : /\ ref[q].state # "NONE" => ref[q].sess \in Sessions
                      /\ ref[q].state = "NONE" => ~ref[q].temp
                      /\ ref[q].state = "RESERVED" => ref[q].temp /\ ~ref[q].pending
                      /\ ref[q].pending => ref[q].temp
  BY DEF Custody, RefsAreSound
<1>6. ASSUME NEW q \in Refs
      PROVE  RefStays(q)
  <2>1. CASE q = r
    BY <1>1, <1>2, <1>3, <1>5, <2>1 DEF RefStays
  <2>2. CASE q # r
    BY <1>3, <1>5, <2>2 DEF RefStays
  <2> QED BY <2>1, <2>2
<1> QED BY <1>1, <1>4, <1>6, RefsStaySound

LEMMA ForgetTemporaryIsCustody ==
  ASSUME Custody, NEW r \in Refs, ForgetTemporary(r)
  PROVE  Custody'
<1>1. /\ ref' = [ref EXCEPT ![r].temp = FALSE, ![r].pending = FALSE]
      /\ ref[r].temp /\ ref[r].pending /\ r \notin files
      /\ UNCHANGED <<art, files, open>>
  BY DEF ForgetTemporary
<1>2. ref \in [Refs -> RefRows]
  BY DEF Custody, QuotaRows
<1>3. /\ ref'[r].state = ref[r].state /\ ref'[r].pending = FALSE /\ ref'[r].temp = FALSE
      /\ ref'[r].sess = ref[r].sess /\ ref'[r].doc = ref[r].doc /\ ref'[r].art = ref[r].art
      /\ \A q \in Refs \ {r} : ref'[q] = ref[q]
  BY <1>1, <1>2 DEF RefRows
<1>4. QuotaRows'
  BY <1>1, <1>2 DEF Custody, QuotaRows, RefRows
<1>5. \A q \in Refs : /\ ref[q].state # "NONE" => ref[q].sess \in Sessions
                      /\ ref[q].state = "NONE" => ~ref[q].temp
                      /\ ref[q].state = "RESERVED" => ref[q].temp /\ ~ref[q].pending
                      /\ ref[q].pending => ref[q].temp
  BY DEF Custody, RefsAreSound
<1>6. ASSUME NEW q \in Refs PROVE RefStays(q)
  <2>1. CASE q = r
    BY <1>1, <1>2, <1>3, <1>5, <2>1 DEF RefStays
  <2>2. CASE q # r
    BY <1>3, <1>5, <2>2 DEF RefStays
  <2> QED BY <2>1, <2>2
<1> QED BY <1>1, <1>4, <1>6, RefsStaySound

\* A session ends, and what it keeps moves to a session of the same user.
LEMMA EndedRefs ==
  ASSUME Custody, NEW s \in Sessions, NEW c, NEW kept,
         kept \subseteq {r \in Refs : ref[r].sess = s /\ ref[r].state \in {"ATTACHED", "FAILED"}},
         kept # {} => c \in Sessions /\ OwnerOf[c] = OwnerOf[s],
         ref' = Ended(s, kept, c), NEW r \in Refs
  PROVE  /\ ref'[r] \in RefRows
         /\ UserOf(r)' = UserOf(r) /\ ref'[r].doc = ref[r].doc /\ ref'[r].art = ref[r].art
         /\ ref'[r].temp = ref[r].temp /\ (ref[r].pending => ref'[r].pending)
         /\ ref'[r].pending => ref'[r].temp
         /\ \/ ref'[r].state = ref[r].state /\ ref'[r].left = ref[r].left
            \/ ref'[r].state = "RELEASED" /\ ref[r].state \notin {"NONE", "RELEASED"} /\ ref'[r].left = Later
         /\ ref[r].state \in {"NONE", "RELEASED"} => ref'[r] = ref[r]
         /\ ref'[r].state = "RESERVED" => ref'[r] = ref[r]
         /\ ref[r].state # "NONE" => ref'[r].sess \in Sessions /\ OwnerOf[ref'[r].sess] = OwnerOf[ref[r].sess]
<1>1. Later \in Nat
  BY LaterIsLater DEF Custody
<1>2. /\ ref[r] \in RefRows
      /\ ref[r].state # "NONE" => ref[r].sess \in Sessions
      /\ ref[r].state = "NONE" => ref[r].sess = None
      /\ ref[r].pending => ref[r].temp
      /\ ref[r].temp \in BOOLEAN /\ ref[r].pending \in BOOLEAN
  BY RefOf DEF Custody, QuotaRows, RefsAreSound
<1>3. None # s
  BY QuotaAssumption
<1>4. CASE r \in kept
  <2>1. ref'[r] = [ref[r] EXCEPT !.sess = c] /\ ref[r].sess = s /\ ref[r].state \in {"ATTACHED", "FAILED"}
    BY <1>4 DEF Ended
  <2>2. c \in Sessions /\ OwnerOf[c] = OwnerOf[s]
    BY <1>4
  <2>3. /\ ref'[r] \in RefRows
        /\ ref'[r].sess = c /\ ref'[r].state = ref[r].state /\ ref'[r].doc = ref[r].doc
        /\ ref'[r].art = ref[r].art /\ ref'[r].temp = ref[r].temp /\ ref'[r].pending = ref[r].pending
        /\ ref'[r].left = ref[r].left
    BY <1>2, <2>1, <2>2 DEF RefRows
  <2> QED BY <1>2, <2>1, <2>2, <2>3 DEF UserOf
<1>5. CASE r \notin kept /\ ref[r].sess = s /\ ref[r].state # "RELEASED"
  <2>1. ref'[r] = [ref[r] EXCEPT !.state = "RELEASED", !.left = Later, !.pending = ref[r].temp]
    BY <1>5 DEF Ended
  <2> DEFINE t == ref[r].temp
             n == [ref[r] EXCEPT !.state = "RELEASED", !.left = Later, !.pending = t]
  <2>0. n \in RefRows
    BY <1>1, <1>2 DEF RefRows
  <2>2. /\ ref'[r] \in RefRows
        /\ ref'[r].sess = ref[r].sess /\ ref'[r].state = "RELEASED" /\ ref'[r].doc = ref[r].doc
        /\ ref'[r].art = ref[r].art /\ ref'[r].temp = ref[r].temp /\ ref'[r].pending = ref[r].temp
        /\ ref'[r].left = Later
    BY <1>1, <1>2, <2>0, <2>1 DEF RefRows
  <2> QED BY <1>2, <1>3, <1>5, <2>2 DEF UserOf
<1>6. CASE r \notin kept /\ ~(ref[r].sess = s /\ ref[r].state # "RELEASED")
  <2>1. ref'[r] = ref[r]
    BY <1>6 DEF Ended
  <2> QED BY <1>2, <2>1 DEF UserOf
<1> QED BY <1>4, <1>5, <1>6

LEMMA EndedIsCustody ==
  ASSUME Custody, NEW s \in Sessions, NEW c, NEW kept,
         kept \subseteq {r \in Refs : ref[r].sess = s /\ ref[r].state \in {"ATTACHED", "FAILED"}},
         kept # {} => c \in Sessions /\ OwnerOf[c] = OwnerOf[s],
         ref' = Ended(s, kept, c), open' \subseteq Sessions, UNCHANGED <<art, files>>
  PROVE  Custody'
<1>1. \A r \in Refs : ref'[r] \in RefRows
  BY EndedRefs
<1>2. ref' = [r \in Refs |-> ref'[r]]
  BY DEF Ended
<1>3. QuotaRows'
  BY <1>1, <1>2 DEF Custody, QuotaRows
<1>4. ASSUME NEW r \in Refs PROVE RefStays(r)
  <2>1. /\ ref[r].state = "NONE" => ~ref[r].temp
        /\ ref[r].state = "RESERVED" => ref[r].temp /\ ~ref[r].pending
    BY DEF Custody, RefsAreSound
  <2>2. /\ ref'[r].doc = ref[r].doc /\ ref'[r].art = ref[r].art /\ ref'[r].temp = ref[r].temp
        /\ ref'[r].pending => ref'[r].temp
        /\ \/ ref'[r].state = ref[r].state
           \/ ref'[r].state = "RELEASED" /\ ref[r].state \notin {"NONE", "RELEASED"}
        /\ ref[r].state \in {"NONE", "RELEASED"} => ref'[r] = ref[r]
        /\ ref'[r].state = "RESERVED" => ref'[r] = ref[r]
        /\ ref[r].state # "NONE" => ref'[r].sess \in Sessions /\ OwnerOf[ref'[r].sess] = OwnerOf[ref[r].sess]
    BY EndedRefs
  <2> QED BY <2>1, <2>2 DEF RefStays
<1> QED BY <1>3, <1>4, RefsStaySound

LEMMA AdoptIsCustody ==
  ASSUME Custody, NEW r \in Refs, NEW t, t = Target(r),
         ref[r].state = "RESERVED", r \in files, Adopt(r), UNCHANGED <<files, open>>
  PROVE  /\ Custody'
         /\ ref'[r].temp = FALSE /\ ref[r].temp /\ ~ref[r].pending
         /\ \A q \in Refs \ {r} : ref'[q] = ref[q]
         /\ ref'[r].sess = ref[r].sess /\ ref'[r].doc = ref[r].doc
         /\ art'[t].bytes = SizeOf(r) /\ art'[t].home = r
         /\ Attached(t)' = {r}
         /\ \A a \in Artifacts \ {t} : art'[a] = art[a] /\ RefsOf(a)' = RefsOf(a)
<1> DEFINE m == [state |-> "STORED", home |-> r, bytes |-> SizeOf(r)]
<1>1. /\ t \in Artifacts /\ t # None /\ Size[t[2]] = SizeOf(r) /\ SizeOf(r) \in Nat
      /\ ref[r].sess \in Sessions /\ ref[r].doc \in Documents
  BY TargetIsArtifact
<1>2. /\ ref[r].temp /\ ~ref[r].pending /\ ref[r].art = None
      /\ art[t].home = None /\ Attached(t) = {}
      /\ ref \in [Refs -> RefRows] /\ art \in [Artifacts -> ArtRows]
  BY <1>1 DEF Custody, QuotaRows, RefsAreSound, DocumentsAreSound, Adopt
<1>3. /\ m \in ArtRows /\ m.state = "STORED" /\ m.home = r /\ m.bytes = SizeOf(r)
  BY <1>1 DEF ArtRows
<1>4. /\ ref' = [ref EXCEPT ![r].state = "ATTACHED", ![r].art = t, ![r].temp = FALSE]
      /\ art' = [art EXCEPT ![t] = m]
  BY DEF Adopt
<1> HIDE DEF m
<1>5. /\ ref'[r] \in RefRows /\ ref'[r].state = "ATTACHED" /\ ref'[r].art = t /\ ref'[r].temp = FALSE
      /\ ref'[r].sess = ref[r].sess /\ ref'[r].doc = ref[r].doc /\ ref'[r].pending = ref[r].pending
      /\ \A q \in Refs \ {r} : ref'[q] = ref[q]
  BY <1>1, <1>2, <1>4 DEF RefRows
<1>6. art'[t] = m /\ \A a \in Artifacts \ {t} : art'[a] = art[a]
  BY <1>1, <1>2, <1>4
<1>7. QuotaRows'
  <2>1. ref' \in [Refs -> RefRows]
    BY <1>2, <1>4, <1>5
  <2>2. art' \in [Artifacts -> ArtRows]
    BY <1>1, <1>2, <1>3, <1>4
  <2> QED BY <2>1, <2>2 DEF Custody, QuotaRows
<1>8. \A q \in Refs : Target(q)' = Target(q)
  BY <1>5 DEF Target, TenantAt, UserOf
<1>9. RefsAreSound'
  <2> SUFFICES ASSUME NEW q \in Refs
               PROVE  /\ ref'[q].state # "NONE" => ref'[q].sess \in Sessions /\ ref'[q].doc \in Documents
                      /\ ref'[q].state = "NONE" => ~ref'[q].temp /\ ref'[q].sess = None
                      /\ ref'[q].state = "RESERVED" => ref'[q].temp /\ ~ref'[q].pending
                      /\ ref'[q].pending => ref'[q].temp
                      /\ ref'[q].art # None =>
                           ref'[q].state \in {"ATTACHED", "RELEASED"} /\ ref'[q].art = Target(q)'
    BY DEF RefsAreSound
  <2>1. CASE q = r
    <3>1. t = Target(q)
      BY <2>1
    <3> QED BY <1>1, <1>2, <1>5, <1>8, <2>1, <3>1
  <2>2. CASE q # r
    BY <1>5, <1>8, <2>2 DEF Custody, RefsAreSound
  <2> QED BY <2>1, <2>2
<1>10. \A a \in Artifacts \ {t} : RefsOf(a)' = RefsOf(a)
  <2> SUFFICES ASSUME NEW a \in Artifacts \ {t}, NEW q \in Refs PROVE ref'[q].art = a <=> ref[q].art = a
    BY DEF RefsOf
  <2>1. a # None
    BY DocumentOf
  <2> QED BY <1>2, <1>5, <2>1
<1>11. Attached(t)' = {r}
  <2>1. \A q \in Refs \ {r} : ~(ref[q].art = t /\ ref[q].state = "ATTACHED")
    BY <1>2 DEF Attached, RefsOf
  <2>2. \A q \in Refs : (ref'[q].art = t /\ ref'[q].state = "ATTACHED") <=> q = r
    BY <1>5, <2>1
  <2>3. \A q : q \in Attached(t)' <=> q \in Refs /\ ref'[q].art = t /\ ref'[q].state = "ATTACHED"
    BY DEF Attached, RefsOf
  <2> QED BY <2>2, <2>3
<1>12. DocumentsAreSound'
  <2> SUFFICES ASSUME NEW a \in Artifacts
               PROVE  /\ art'[a].home = None <=> art'[a].state \in {"NONE", "PURGED"}
                      /\ art'[a].home # None => /\ ref'[art'[a].home].art = a
                                                /\ ~ref'[art'[a].home].temp
                                                /\ art'[a].bytes = Size[a[2]]
                      /\ art'[a].state # "STORED" => Attached(a)' = {}
    BY DEF DocumentsAreSound
  <2>1. CASE a = t
    <3>1. r # None
      BY QuotaAssumption
    <3> QED BY <1>1, <1>3, <1>5, <1>6, <2>1, <3>1
  <2>2. CASE a # t
    <3>1. /\ art[a].home = None <=> art[a].state \in {"NONE", "PURGED"}
          /\ art[a].home # None => /\ ref[art[a].home].art = a
                                   /\ ~ref[art[a].home].temp
                                   /\ art[a].bytes = Size[a[2]]
          /\ art[a].state # "STORED" => Attached(a) = {}
          /\ a # None /\ art[a].home \in Refs \cup {None}
      BY DocumentOf DEF Custody, DocumentsAreSound
    <3>2. Attached(a)' \subseteq Attached(a)
      BY <1>5, <1>10, <2>2 DEF Attached, RefsOf
    <3>3. art[a].home # None => art[a].home \in Refs \ {r}
      BY <1>2, <3>1
    <3> QED BY <1>5, <1>6, <2>2, <3>1, <3>2, <3>3
  <2> QED BY <2>1, <2>2
<1>13. FilesAreKnown'
  <2> SUFFICES ASSUME NEW q \in files
               PROVE  ref'[q].temp \/ (ref'[q].art # None /\ art'[ref'[q].art].home = q)
    BY DEF FilesAreKnown
  <2>1. q \in Refs /\ q # None
    BY QuotaAssumption DEF Custody, QuotaRows
  <2>2. CASE q = r
    BY <1>1, <1>3, <1>5, <1>6, <2>2
  <2>3. CASE q # r
    <3>1. ref[q].temp \/ (ref[q].art # None /\ art[ref[q].art].home = q)
      BY DEF Custody, FilesAreKnown
    <3>2. ref[q].art \in Artifacts \cup {None}
      BY <2>1, RefOf DEF Custody
    <3> QED BY <1>2, <1>5, <1>6, <2>1, <2>3, <3>1, <3>2
  <2> QED BY <2>2, <2>3
<1>14. Custody'
  BY <1>7, <1>9, <1>12, <1>13 DEF Custody
<1> QED BY <1>2, <1>3, <1>5, <1>6, <1>10, <1>11, <1>14

LEMMA DuplicateIsCustody ==
  ASSUME Custody, NEW r \in Refs, NEW t, t = Target(r),
         ref[r].state = "RESERVED", Duplicate(r), UNCHANGED <<files, open>>
  PROVE  /\ Custody'
         /\ ref[r].temp /\ ~ref[r].pending /\ ref[r].art = None
         /\ ref'[r].pending = TRUE /\ ref'[r].temp = ref[r].temp
         /\ ref'[r].sess = ref[r].sess /\ ref'[r].doc = ref[r].doc
         /\ \/ ref'[r].art = None
            \/ ref'[r].art = t /\ ref'[r].state = "ATTACHED"
         /\ \A q \in Refs \ {r} : ref'[q] = ref[q]
<1>1. /\ t \in Artifacts /\ t # None
      /\ ref[r].sess \in Sessions /\ ref[r].doc \in Documents
  BY TargetIsArtifact
<1>2. /\ ref[r].temp /\ ~ref[r].pending /\ ref[r].art = None
      /\ art[t].state = "STORED"
      /\ ref \in [Refs -> RefRows] /\ UNCHANGED art
  BY <1>1 DEF Custody, QuotaRows, RefsAreSound, Duplicate
<1>3. /\ ref' \in [Refs -> RefRows]
      /\ ref'[r].pending = TRUE /\ ref'[r].temp = ref[r].temp
      /\ ref'[r].sess = ref[r].sess /\ ref'[r].doc = ref[r].doc
      /\ \/ ref'[r].art = None /\ ref'[r].state = "RELEASED"
         \/ ref'[r].art = t /\ ref'[r].state = "ATTACHED"
      /\ \A q \in Refs \ {r} : ref'[q] = ref[q]
  <2>1. CASE ref' = [ref EXCEPT ![r].state = "RELEASED", ![r].pending = TRUE, ![r].left = Later]
    <3>1. Later \in Nat
      BY LaterIsLater DEF Custody
    <3> QED BY <1>2, <2>1, <3>1 DEF RefRows
  <2>2. CASE ref' = [ref EXCEPT ![r].state = "ATTACHED", ![r].pending = TRUE, ![r].art = t]
    BY <1>1, <1>2, <2>2 DEF RefRows
  <2> QED BY <2>1, <2>2 DEF Duplicate
<1>4. QuotaRows'
  BY <1>2, <1>3 DEF Custody, QuotaRows
<1>5. \A q \in Refs : Target(q)' = Target(q)
  BY <1>3 DEF Target, TenantAt, UserOf
<1>6. RefsAreSound'
  <2> SUFFICES ASSUME NEW q \in Refs
               PROVE  /\ ref'[q].state # "NONE" => ref'[q].sess \in Sessions /\ ref'[q].doc \in Documents
                      /\ ref'[q].state = "NONE" => ~ref'[q].temp /\ ref'[q].sess = None
                      /\ ref'[q].state = "RESERVED" => ref'[q].temp /\ ~ref'[q].pending
                      /\ ref'[q].pending => ref'[q].temp
                      /\ ref'[q].art # None =>
                           ref'[q].state \in {"ATTACHED", "RELEASED"} /\ ref'[q].art = Target(q)'
    BY DEF RefsAreSound
  <2>1. CASE q = r
    BY <1>1, <1>2, <1>3, <1>5, <2>1
  <2>2. CASE q # r
    BY <1>3, <1>5, <2>2 DEF Custody, RefsAreSound
  <2> QED BY <2>1, <2>2
<1>7. DocumentsAreSound'
  <2> SUFFICES ASSUME NEW a \in Artifacts
               PROVE  /\ art[a].home = None <=> art[a].state \in {"NONE", "PURGED"}
                      /\ art[a].home # None => /\ ref'[art[a].home].art = a
                                               /\ ~ref'[art[a].home].temp
                                               /\ art[a].bytes = Size[a[2]]
                      /\ art[a].state # "STORED" => Attached(a)' = {}
    BY <1>2 DEF DocumentsAreSound
  <2>1. /\ art[a].home = None <=> art[a].state \in {"NONE", "PURGED"}
        /\ art[a].home # None => /\ ref[art[a].home].art = a
                                 /\ ~ref[art[a].home].temp
                                 /\ art[a].bytes = Size[a[2]]
        /\ art[a].state # "STORED" => Attached(a) = {}
        /\ a # None /\ art[a].home \in Refs \cup {None}
    BY DocumentOf DEF Custody, DocumentsAreSound
  <2>2. art[a].state # "STORED" => Attached(a)' \subseteq Attached(a)
    BY <1>2, <1>3, <2>1 DEF Attached, RefsOf
  <2>3. art[a].home # None => art[a].home \in Refs \ {r}
    BY <1>2, <2>1
  <2> QED BY <1>3, <2>1, <2>2, <2>3
<1>8. FilesAreKnown'
  <2> SUFFICES ASSUME NEW q \in files
               PROVE  ref'[q].temp \/ (ref'[q].art # None /\ art[ref'[q].art].home = q)
    BY <1>2 DEF FilesAreKnown
  <2>1. q \in Refs /\ (ref[q].temp \/ (ref[q].art # None /\ art[ref[q].art].home = q))
    BY DEF Custody, QuotaRows, FilesAreKnown
  <2> QED BY <1>2, <1>3, <2>1
<1> QED BY <1>2, <1>3, <1>4, <1>6, <1>7, <1>8 DEF Custody

LEMMA EraseIsCustody ==
  ASSUME Custody, files' \subseteq files, UNCHANGED <<ref, art, open>>
  PROVE  Custody'
<1>1. QuotaRows' /\ RefsAreSound' /\ DocumentsAreSound'
  BY DEF Custody, QuotaRows, RefsAreSound, Target, TenantAt, UserOf, DocumentsAreSound, Attached, RefsOf
<1>2. FilesAreKnown'
  BY DEF Custody, FilesAreKnown
<1> QED BY <1>1, <1>2 DEF Custody

LEMMA CaptureIsCustody ==
  ASSUME Custody, NEW a \in Artifacts, Capture(a)
  PROVE  /\ Custody'
         /\ \A b \in Artifacts : art'[b].home = art[b].home /\ art'[b].bytes = art[b].bytes
<1>1. art' = [art EXCEPT ![a].state = "PURGING"] /\ UNCHANGED <<ref, files, open>> /\ Attached(a) = {}
      /\ art[a].state = "STORED"
  BY DEF Capture
<1>2. art \in [Artifacts -> ArtRows]
  BY DEF Custody, QuotaRows
<1>3. /\ art' \in [Artifacts -> ArtRows] /\ art'[a].state = "PURGING"
      /\ art'[a].home = art[a].home /\ art'[a].bytes = art[a].bytes
      /\ \A b \in Artifacts \ {a} : art'[b] = art[b]
  BY <1>1, <1>2 DEF ArtRows
<1>4. QuotaRows' /\ RefsAreSound'
  BY <1>1, <1>3 DEF Custody, QuotaRows, RefsAreSound, Target, TenantAt, UserOf
<1>5. \A b : Attached(b)' = Attached(b)
  BY <1>1 DEF Attached, RefsOf
<1>6. DocumentsAreSound'
  <2>1. ASSUME NEW b \in Artifacts
        PROVE  /\ art'[b].home = None <=> art'[b].state \in {"NONE", "PURGED"}
               /\ art'[b].home # None => /\ ref[art'[b].home].art = b
                                         /\ ~ref[art'[b].home].temp
                                         /\ art'[b].bytes = Size[b[2]]
               /\ art'[b].state # "STORED" => Attached(b) = {}
    BY <1>1, <1>3 DEF Custody, DocumentsAreSound
  <2> QED BY <1>1, <1>5, <2>1 DEF DocumentsAreSound
<1>7. FilesAreKnown'
  <2> SUFFICES ASSUME NEW q \in files
               PROVE  ref[q].temp \/ (ref[q].art # None /\ art'[ref[q].art].home = q)
    BY <1>1 DEF FilesAreKnown
  <2>1. /\ q \in Refs /\ ref[q].art \in Artifacts \cup {None}
        /\ ref[q].temp \/ (ref[q].art # None /\ art[ref[q].art].home = q)
    BY RefOf DEF Custody, QuotaRows, FilesAreKnown
  <2> QED BY <1>3, <2>1
<1> QED BY <1>3, <1>4, <1>6, <1>7 DEF Custody

LEMMA ForgetDocumentIsCustody ==
  ASSUME Custody, NEW a \in Artifacts, ForgetDocument(a)
  PROVE  /\ Custody'
         /\ art'[a].home = None /\ \A b \in Artifacts \ {a} : art'[b] = art[b]
<1>1. art' = [art EXCEPT ![a].state = "PURGED", ![a].home = None] /\ UNCHANGED <<ref, files, open>>
      /\ art[a].home \notin files /\ art[a].state = "PURGING"
  BY DEF ForgetDocument
<1>2. art \in [Artifacts -> ArtRows]
  BY DEF Custody, QuotaRows
<1>3. /\ art' \in [Artifacts -> ArtRows] /\ art'[a].state = "PURGED" /\ art'[a].home = None
      /\ \A b \in Artifacts \ {a} : art'[b] = art[b]
  BY <1>1, <1>2 DEF ArtRows
<1>4. QuotaRows' /\ RefsAreSound'
  BY <1>1, <1>3 DEF Custody, QuotaRows, RefsAreSound, Target, TenantAt, UserOf
<1>5. \A b : Attached(b)' = Attached(b)
  BY <1>1 DEF Attached, RefsOf
<1>6. DocumentsAreSound'
  <2>1. ASSUME NEW b \in Artifacts
        PROVE  /\ art'[b].home = None <=> art'[b].state \in {"NONE", "PURGED"}
               /\ art'[b].home # None => /\ ref[art'[b].home].art = b
                                         /\ ~ref[art'[b].home].temp
                                         /\ art'[b].bytes = Size[b[2]]
               /\ art'[b].state # "STORED" => Attached(b) = {}
    BY <1>1, <1>3 DEF Custody, DocumentsAreSound
  <2> QED BY <1>1, <1>5, <2>1 DEF DocumentsAreSound
<1>7. FilesAreKnown'
  <2> SUFFICES ASSUME NEW q \in files
               PROVE  ref[q].temp \/ (ref[q].art # None /\ art'[ref[q].art].home = q)
    BY <1>1 DEF FilesAreKnown
  <2>1. /\ q \in Refs /\ ref[q].art \in Artifacts \cup {None}
        /\ ref[q].temp \/ (ref[q].art # None /\ art[ref[q].art].home = q)
    BY RefOf DEF Custody, QuotaRows, FilesAreKnown
  <2>2. ref[q].art = a => art[a].home # q
    BY <1>1
  <2> QED BY <1>3, <2>1, <2>2
<1> QED BY <1>3, <1>4, <1>6, <1>7 DEF Custody

LEMMA LimitsOf ==
  ASSUME QuotaLimits
  PROVE  /\ Stored(Tenants) <= GlobalLimit /\ GlobalLimit \in Nat
         /\ \A t \in Tenants : Stored({t}) <= TenantLimit
         /\ TenantLimit \in Nat
         /\ \A u \in Users : Spent(u) <= UserLimit
         /\ UserLimit \in Nat
<1>1. GlobalLimit \in Nat /\ TenantLimit \in Nat /\ UserLimit \in Nat
  BY QuotaAssumption
<1>2. \A u \in Users : Spent(u) <= UserLimit
  BY DEF QuotaLimits, UserWithinLimit, Spent, UserRefs, UserDocs
<1> QED BY <1>1, <1>2 DEF QuotaLimits, StoredWithinLimits

LEMMA LimitsNext ==
  ASSUME Stored(Tenants)' <= GlobalLimit,
         \A t \in Tenants : Stored({t})' <= TenantLimit,
         \A u \in Users : Spent(u)' <= UserLimit
  PROVE  QuotaLimits'
<1>1. UserWithinLimit'
  BY DEF UserWithinLimit, Spent, UserRefs, UserDocs
<1>2. StoredWithinLimits'
  BY DEF StoredWithinLimits
<1> QED BY <1>1, <1>2 DEF QuotaLimits

\* What stays with the accounts of tenants, and of a user, in a step without a new
\* reference that waits or a new document that counts.
LEMMA StoredStays ==
  ASSUME Custody, NEW ts, NEW n \in Nat, Stored(ts) <= n,
         \A r \in Refs : ref'[r].temp => /\ ref[r].temp /\ UserOf(r)' = UserOf(r)
                                         /\ ref'[r].doc = ref[r].doc,
         \A a \in Artifacts : art'[a].home # None => /\ art[a].home # None
                                                     /\ art'[a].bytes = art[a].bytes
  PROVE  Stored(ts)' <= n
<1>1. TenantRefs(ts)' \subseteq TenantRefs(ts) /\ \A x \in TenantRefs(ts)' : SizeOf(x)' = SizeOf(x)
  BY DEF TenantRefs, Temporary, TenantAt, SizeOf
<1>2. TenantDocs(ts)' \subseteq TenantDocs(ts) /\ \A y \in TenantDocs(ts)' : art'[y].bytes = art[y].bytes
  BY DEF TenantDocs, Retained, Artifacts
<1> QED BY <1>1, <1>2, StoredShrinks

LEMMA SpentStays ==
  ASSUME Custody, NEW u, NEW n \in Nat, Spent(u) <= n,
         \A r \in Refs : ref'[r].temp /\ ~ref'[r].pending /\ UserOf(r)' = u =>
                           /\ ref[r].temp /\ UserOf(r) = u
                           /\ ref'[r].doc = ref[r].doc /\ ~ref[r].pending,
         \A a \in Artifacts : art'[a].home # None /\ u \in Payers(a)' =>
                                /\ art[a].home # None
                                /\ art'[a].bytes = art[a].bytes
                                /\ u \in Payers(a)
  PROVE  Spent(u)' <= n
<1>1. UserRefs(u)' \subseteq UserRefs(u) /\ \A x \in UserRefs(u)' : SizeOf(x)' = SizeOf(x)
  BY DEF UserRefs, Temporary, SizeOf
<1>2. UserDocs(u)' \subseteq UserDocs(u) /\ \A y \in UserDocs(u)' : art'[y].bytes = art[y].bytes
  BY DEF UserDocs, Retained, Artifacts
<1> QED BY <1>1, <1>2, SpentShrinks

LEMMA CalmIsLimited ==
  ASSUME Custody, QuotaLimits,
         \A r \in Refs : ref'[r].temp => /\ ref[r].temp /\ UserOf(r)' = UserOf(r)
                                         /\ ref'[r].doc = ref[r].doc
                                         /\ (ref[r].pending => ref'[r].pending),
         \A a \in Artifacts : art'[a].home # None => /\ art[a].home # None
                                                     /\ art'[a].bytes = art[a].bytes
                                                     /\ Payers(a)' \subseteq Payers(a)
  PROVE  QuotaLimits'
<1>1. Stored(Tenants)' <= GlobalLimit
  BY LimitsOf, StoredStays
<1>2. ASSUME NEW t \in Tenants PROVE Stored({t})' <= TenantLimit
  BY LimitsOf, StoredStays
<1>3. ASSUME NEW u \in Users PROVE Spent(u)' <= UserLimit
  BY LimitsOf, SpentStays
<1> QED BY <1>1, <1>2, <1>3, LimitsNext

LEMMA PayersStay ==
  ASSUME NEW a, RefsOf(a)' = RefsOf(a),
         \A r \in RefsOf(a) : /\ ref'[r].state = ref[r].state /\ ref'[r].left = ref[r].left
                              /\ UserOf(r)' = UserOf(r)
  PROVE  Payers(a)' = Payers(a)
<1>1. Attached(a)' = Attached(a)
  BY DEF Attached
<1>2. LastToLeave(a)' = LastToLeave(a)
  BY DEF LastToLeave
<1>3. Attached(a) \subseteq RefsOf(a) /\ LastToLeave(a) \subseteq RefsOf(a)
  BY DEF Attached, LastToLeave
<1>4. \A r \in Attached(a) \cup LastToLeave(a) : UserOf(r)' = UserOf(r)
  BY <1>3
<1> QED BY <1>1, <1>2, <1>4 DEF Payers

\* When a session ends, only users who had a document attached, or were the last to
\* leave it, pay for it.
LEMMA EndedPayers ==
  ASSUME Custody, NEW s \in Sessions, NEW c, NEW kept,
         kept \subseteq {r \in Refs : ref[r].sess = s /\ ref[r].state \in {"ATTACHED", "FAILED"}},
         kept # {} => c \in Sessions /\ OwnerOf[c] = OwnerOf[s],
         ref' = Ended(s, kept, c), NEW a \in Artifacts
  PROVE  Payers(a)' \subseteq Payers(a)
<1>1. \A r \in Refs :
        /\ UserOf(r)' = UserOf(r) /\ ref'[r].art = ref[r].art
        /\ \/ ref'[r].state = ref[r].state /\ ref'[r].left = ref[r].left
           \/ ref'[r].state = "RELEASED" /\ ref[r].state \notin {"NONE", "RELEASED"} /\ ref'[r].left = Later
  BY EndedRefs
<1>2. RefsOf(a)' = RefsOf(a) /\ RefsOf(a) \subseteq Refs
  BY <1>1 DEF RefsOf
<1>3. \A r \in RefsOf(a) : ref[r].state \in {"ATTACHED", "RELEASED"}
  <2>1. a # None
    BY DocumentOf
  <2> QED BY <2>1 DEF RefsOf, Custody, RefsAreSound
<1>4. Attached(a)' \subseteq Attached(a)
  BY <1>1, <1>2 DEF Attached
<1>5. Later \in Nat /\ \A r \in Refs : ref[r].left < Later /\ ref[r].left \in Nat
  BY LaterIsLater, RefOf DEF Custody
<1>6. CASE Attached(a)' # {}
  <2>1. \A r \in Attached(a)' : r \in Attached(a) /\ UserOf(r)' = UserOf(r)
    BY <1>1, <1>2, <1>4 DEF Attached
  <2>2. Payers(a)' = {UserOf(r)' : r \in Attached(a)'} /\ Payers(a) = {UserOf(r) : r \in Attached(a)}
    BY <1>4, <1>6 DEF Payers
  <2> QED BY <2>1, <2>2
<1>7. CASE Attached(a) = {}
  <2>1. \A r \in RefsOf(a) : ref[r].state = "RELEASED"
    BY <1>3, <1>7 DEF Attached
  <2>2. \A r \in RefsOf(a) : /\ ref'[r].state = ref[r].state /\ ref'[r].left = ref[r].left
                             /\ UserOf(r)' = UserOf(r)
    BY <1>1, <1>2, <2>1
  <2> QED BY <1>2, <2>2, PayersStay
<1>8. CASE Attached(a) # {} /\ Attached(a)' = {}
  <2>1. PICK q \in RefsOf(a) : ref[q].state = "ATTACHED"
    BY <1>8 DEF Attached
  <2>2. ref'[q].state = "RELEASED" /\ ref'[q].left = Later
    <3>1. ref'[q].state # "ATTACHED"
      BY <1>2, <1>8, <2>1 DEF Attached
    <3> QED BY <1>1, <1>2, <2>1, <3>1
  <2>3. ASSUME NEW r \in LastToLeave(a)' PROVE r \in Attached(a)
    <3>1. r \in RefsOf(a) /\ ref'[q].left <= ref'[r].left
      BY <1>2, <2>1, <2>2, <2>3 DEF LastToLeave
    <3>2. CASE ref[r].state = "ATTACHED"
      BY <3>1, <3>2 DEF Attached
    <3>3. CASE ref[r].state = "RELEASED"
      <4>1. ref'[r].left = ref[r].left
        BY <1>1, <1>2, <3>1, <3>3
      <4>2. ref[r].left < Later /\ Later <= ref[r].left /\ Later \in Nat /\ ref[r].left \in Nat
        BY <1>2, <1>5, <2>2, <3>1, <4>1
      <4> QED BY <4>2
    <3> QED BY <1>3, <3>1, <3>2, <3>3
  <2>4. Payers(a)' = {UserOf(r)' : r \in LastToLeave(a)'} /\ Payers(a) = {UserOf(r) : r \in Attached(a)}
    BY <1>8 DEF Payers
  <2>5. \A r \in LastToLeave(a)' : r \in Attached(a) /\ UserOf(r)' = UserOf(r)
    BY <1>1, <1>2, <2>3 DEF LastToLeave
  <2> QED BY <2>4, <2>5
<1> QED BY <1>6, <1>7, <1>8

LEMMA EndedIsLimited ==
  ASSUME Custody, QuotaLimits, NEW s \in Sessions, NEW c, NEW kept,
         kept \subseteq {r \in Refs : ref[r].sess = s /\ ref[r].state \in {"ATTACHED", "FAILED"}},
         kept # {} => c \in Sessions /\ OwnerOf[c] = OwnerOf[s],
         ref' = Ended(s, kept, c), UNCHANGED art
  PROVE  QuotaLimits'
<1>1. \A r \in Refs : /\ ref'[r].temp = ref[r].temp /\ UserOf(r)' = UserOf(r)
                      /\ ref'[r].doc = ref[r].doc /\ (ref[r].pending => ref'[r].pending)
  BY EndedRefs
<1>2. \A a \in Artifacts : Payers(a)' \subseteq Payers(a)
  BY EndedPayers
<1> QED BY <1>1, <1>2, CalmIsLimited

\* What is admitted fits every account it is charged to.
LEMMA SpentIsCharged ==
  ASSUME Custody, NEW u
  PROVE  Spent(u) \in Nat /\ Charged(u) \in Nat /\ Spent(u) <= Charged(u)
<1> DEFINE S  == UserRefs(u)
           T  == {r \in Temporary : UserOf(r) = u}
           A  == UserDocs(u)
           f  == [x \in S |-> SizeOf(x)]
           f2 == [x \in T |-> SizeOf(x)]
           g  == [y \in A |-> art[y].bytes]
<1>1. Spent(u) = SumFunctionOnSet(f, S) + SumFunctionOnSet(g, A)
  BY DEF Spent, Sum, SumFunction, Reserved, Verified
<1>2. Charged(u) = SumFunctionOnSet(f2, T) + SumFunctionOnSet(g, A)
  BY DEF Charged, UserDocs, Sum, SumFunction, Reserved, Verified
<1>3. S \subseteq T /\ T \subseteq Temporary /\ A \subseteq Retained
  BY DEF UserRefs, UserDocs
<1>4. /\ IsFiniteSet(S) /\ IsFiniteSet(T) /\ IsFiniteSet(A)
      /\ \A x \in S : SizeOf(x) \in Nat
      /\ \A x \in T : SizeOf(x) \in Nat
      /\ \A y \in A : art[y].bytes \in Nat
  <2> HIDE DEF S, T, A
  <2>1. S \in SUBSET Temporary /\ T \in SUBSET Temporary /\ A \in SUBSET Retained
    BY <1>3
  <2> QED BY <2>1, AccountTerms
<1>5. /\ \A x \in S : f[x] \in Nat /\ f[x] <= f2[x]
      /\ \A x \in T : f2[x] \in Nat
      /\ \A y \in A : g[y] \in Nat
  BY <1>3, <1>4
<1> HIDE DEF S, T, A, f, f2, g
<1>6. SumFunctionOnSet(f, S) <= SumFunctionOnSet(f2, T)
  BY <1>3, <1>4, <1>5, SumGrows
<1>7. /\ SumFunctionOnSet(f, S) \in Nat /\ SumFunctionOnSet(f2, T) \in Nat
      /\ SumFunctionOnSet(g, A) \in Nat
  BY <1>4, <1>5, SumType
<1> QED BY <1>1, <1>2, <1>6, <1>7

LEMMA ReserveIsLimited ==
  ASSUME Custody, QuotaLimits, NEW r \in Refs, NEW s \in Sessions, NEW d \in Documents, Reserve(r, s, d)
  PROVE  QuotaLimits'
<1>1. PICK v \in Users : v = OwnerOf[s]
  BY QuotaAssumption
<1>2. PICK t \in Tenants : t = TenantOf[v]
  BY <1>1, QuotaAssumption
<1>3. PICK b \in Nat : b = Size[d]
  BY QuotaAssumption
<1>4. SizeOf(r)' = b /\ UserOf(r)' = v /\ TenantAt(r)' = t
  BY <1>1, <1>2, <1>3, ReserveIsCustody DEF TenantAt
<1>5. /\ Stored(Tenants) + b <= GlobalLimit
      /\ Stored({t}) + b <= TenantLimit
      /\ Charged(v) + b <= UserLimit
  BY <1>1, <1>2, <1>3 DEF Reserve, Admits
<1>6. /\ ref[r].state = "NONE" /\ ~ref[r].temp /\ ref[r].art = None
      /\ ref \in [Refs -> RefRows] /\ UNCHANGED art
  BY DEF Reserve, Custody, QuotaRows, RefsAreSound
<1>7. ref'[r].art = None /\ ref'[r].temp = TRUE /\ ref'[r].pending = FALSE
      /\ \A q \in Refs \ {r} : ref'[q] = ref[q]
  BY <1>6 DEF Reserve, NoRef
<1>8. \A q \in Refs \ {r} : UserOf(q)' = UserOf(q) /\ TenantAt(q)' = TenantAt(q) /\ SizeOf(q)' = SizeOf(q)
  BY <1>7 DEF UserOf, TenantAt, SizeOf
<1>9. ASSUME NEW a \in Artifacts PROVE Payers(a)' = Payers(a)
  <2>1. a # None
    BY DocumentOf
  <2>2. RefsOf(a)' = RefsOf(a) /\ r \notin RefsOf(a) /\ RefsOf(a) \subseteq Refs
    BY <1>6, <1>7, <2>1 DEF RefsOf
  <2>3. \A q \in RefsOf(a) : /\ ref'[q].state = ref[q].state /\ ref'[q].left = ref[q].left
                             /\ UserOf(q)' = UserOf(q)
    BY <1>7, <1>8, <2>2
  <2> QED BY <2>2, <2>3, PayersStay
<1>10. ASSUME NEW ts, t \in ts, NEW n \in Nat, Stored(ts) + b <= n PROVE Stored(ts)' <= n
  <2>1. TenantRefs(ts)' = TenantRefs(ts) \cup {r} /\ r \notin TenantRefs(ts)
    BY <1>4, <1>6, <1>7, <1>8, <1>10 DEF TenantRefs, Temporary
  <2>2. \A x \in TenantRefs(ts) : SizeOf(x)' = SizeOf(x)
    BY <1>6, <1>8 DEF TenantRefs, Temporary
  <2>3. TenantDocs(ts)' \subseteq TenantDocs(ts) /\ \A y \in TenantDocs(ts)' : art'[y].bytes = art[y].bytes
    BY <1>6 DEF TenantDocs, Retained
  <2>4. SizeOf(r)' \in Nat /\ Stored(ts) + SizeOf(r)' <= n
    BY <1>4, <1>10
  <2> QED BY <2>1, <2>2, <2>3, <2>4, StoredGrows
<1>11. Stored(Tenants)' <= GlobalLimit
  BY <1>5, <1>10, LimitsOf
<1>12. ASSUME NEW w \in Tenants PROVE Stored({w})' <= TenantLimit
  <2>1. CASE w = t
    BY <1>5, <1>10, <2>1, LimitsOf
  <2>2. CASE w # t
    <3>1. TenantRefs({w})' \subseteq TenantRefs({w})
      BY <1>4, <1>7, <1>8, <2>2 DEF TenantRefs, Temporary
    <3>2. \A x \in TenantRefs({w})' : SizeOf(x)' = SizeOf(x)
      BY <1>4, <1>8, <2>2 DEF TenantRefs, Temporary
    <3>3. TenantDocs({w})' \subseteq TenantDocs({w}) /\ \A y \in TenantDocs({w})' : art'[y].bytes = art[y].bytes
      BY <1>6 DEF TenantDocs, Retained
    <3>4. Stored({w}) <= TenantLimit /\ TenantLimit \in Nat
      BY LimitsOf
    <3> QED BY <3>1, <3>2, <3>3, <3>4, StoredShrinks
  <2> QED BY <2>1, <2>2
<1>13. ASSUME NEW u \in Users PROVE Spent(u)' <= UserLimit
  <2>0. UserDocs(u)' \subseteq UserDocs(u) /\ \A y \in UserDocs(u)' : art'[y].bytes = art[y].bytes
    BY <1>6, <1>9 DEF UserDocs, Retained
  <2>1. CASE u = v
    <3>1. UserRefs(u)' = UserRefs(u) \cup {r} /\ r \notin UserRefs(u)
      BY <1>4, <1>6, <1>7, <1>8, <2>1 DEF UserRefs, Temporary
    <3>2. \A x \in UserRefs(u) : SizeOf(x)' = SizeOf(x)
      BY <1>6, <1>8 DEF UserRefs, Temporary
    <3>3. Spent(u) \in Nat /\ Charged(u) \in Nat /\ Spent(u) <= Charged(u)
      BY SpentIsCharged
    <3>4. Spent(u) + b <= UserLimit /\ UserLimit \in Nat
      <4>1. Charged(u) + b <= UserLimit /\ UserLimit \in Nat
        BY <1>5, <2>1, LimitsOf
      <4> QED BY <3>3, <4>1
    <3>5. SizeOf(r)' \in Nat /\ Spent(u) + SizeOf(r)' <= UserLimit
      BY <1>4, <3>4
    <3> QED BY <2>0, <3>1, <3>2, <3>4, <3>5, SpentGrows
  <2>2. CASE u # v
    <3>1. UserRefs(u)' \subseteq UserRefs(u)
      BY <1>4, <1>7, <1>8, <2>2 DEF UserRefs, Temporary
    <3>2. \A x \in UserRefs(u)' : SizeOf(x)' = SizeOf(x)
      BY <1>4, <1>8, <2>2 DEF UserRefs, Temporary
    <3>3. Spent(u) <= UserLimit /\ UserLimit \in Nat
      BY LimitsOf
    <3> QED BY <2>0, <3>1, <3>2, <3>3, SpentShrinks
  <2> QED BY <2>1, <2>2
<1> QED BY <1>11, <1>12, <1>13, LimitsNext

LEMMA AdoptIsLimited ==
  ASSUME Custody, QuotaLimits, NEW r \in Refs, ref[r].state = "RESERVED", r \in files, Adopt(r),
         UNCHANGED <<files, open>>
  PROVE  QuotaLimits'
<1>1. PICK t \in Artifacts : t = Target(r)
  BY TargetIsArtifact
<1>2. /\ ref'[r].temp = FALSE /\ ref[r].temp /\ ~ref[r].pending
      /\ \A q \in Refs \ {r} : ref'[q] = ref[q]
      /\ ref'[r].sess = ref[r].sess /\ ref'[r].doc = ref[r].doc
      /\ art'[t].bytes = SizeOf(r)
      /\ Attached(t)' = {r}
      /\ \A a \in Artifacts \ {t} : art'[a] = art[a] /\ RefsOf(a)' = RefsOf(a)
  BY <1>1, AdoptIsCustody
<1>3. \A q \in Refs : UserOf(q)' = UserOf(q) /\ TenantAt(q)' = TenantAt(q) /\ SizeOf(q)' = SizeOf(q)
  BY <1>2 DEF UserOf, TenantAt, SizeOf
<1>4. t[1] = TenantAt(r)
  BY <1>1, TargetIsArtifact
<1>5. ASSUME NEW a \in Artifacts \ {t} PROVE Payers(a)' = Payers(a)
  <2>1. a # None /\ RefsOf(a)' = RefsOf(a) /\ RefsOf(a) \subseteq Refs
    BY <1>2, DocumentOf DEF RefsOf
  <2>2. r \notin RefsOf(a)
    BY <2>1 DEF RefsOf, Custody, RefsAreSound
  <2>3. \A q \in RefsOf(a) : /\ ref'[q].state = ref[q].state /\ ref'[q].left = ref[q].left
                             /\ UserOf(q)' = UserOf(q)
    BY <1>2, <1>3, <2>1, <2>2
  <2> QED BY <2>1, <2>3, PayersStay
<1>6. Payers(t)' = {UserOf(r)}
  <2>1. Payers(t)' = {UserOf(q)' : q \in {r}}
    BY <1>2 DEF Payers
  <2> QED BY <1>3, <2>1
<1>7. ASSUME NEW ts, NEW n \in Nat, Stored(ts) <= n PROVE Stored(ts)' <= n
  <2>1. TenantRefs(ts)' \subseteq TenantRefs(ts) \ {r} /\ \A x \in TenantRefs(ts)' : SizeOf(x)' = SizeOf(x)
    BY <1>2, <1>3 DEF TenantRefs, Temporary
  <2>2. /\ TenantDocs(ts)' \subseteq TenantDocs(ts) \cup {t}
        /\ \A y \in TenantDocs(ts)' \ {t} : art'[y].bytes = art[y].bytes
    BY <1>2 DEF TenantDocs, Retained, Artifacts
  <2>3. CASE TenantAt(r) \in ts
    <3>1. r \in TenantRefs(ts)
      BY <1>2, <2>3 DEF TenantRefs, Temporary
    <3> QED BY <1>2, <1>7, <2>1, <2>2, <3>1, StoredMoves
  <2>4. CASE TenantAt(r) \notin ts
    <3>1. t \notin TenantDocs(ts)'
      BY <1>4, <2>4 DEF TenantDocs
    <3>2. /\ TenantDocs(ts)' \subseteq TenantDocs(ts)
          /\ \A y \in TenantDocs(ts)' : art'[y].bytes = art[y].bytes
      BY <2>2, <3>1
    <3>3. TenantRefs(ts)' \subseteq TenantRefs(ts)
      BY <2>1
    <3> QED BY <1>7, <2>1, <3>2, <3>3, StoredShrinks
  <2> QED BY <2>3, <2>4
<1>8. ASSUME NEW u \in Users PROVE Spent(u)' <= UserLimit
  <2>0. Spent(u) <= UserLimit /\ UserLimit \in Nat
    BY LimitsOf
  <2>1. UserRefs(u)' \subseteq UserRefs(u) \ {r} /\ \A x \in UserRefs(u)' : SizeOf(x)' = SizeOf(x)
    BY <1>2, <1>3 DEF UserRefs, Temporary
  <2>2. /\ UserDocs(u)' \subseteq UserDocs(u) \cup {t}
        /\ \A y \in UserDocs(u)' \ {t} : art'[y].bytes = art[y].bytes
    BY <1>2, <1>5 DEF UserDocs, Retained, Artifacts
  <2>3. CASE UserOf(r) = u
    <3>1. r \in UserRefs(u)
      BY <1>2, <2>3 DEF UserRefs, Temporary
    <3> QED BY <1>2, <2>0, <2>1, <2>2, <3>1, SpentMoves
  <2>4. CASE UserOf(r) # u
    <3>1. t \notin UserDocs(u)'
      BY <1>6, <2>4 DEF UserDocs
    <3>2. /\ UserDocs(u)' \subseteq UserDocs(u)
          /\ \A y \in UserDocs(u)' : art'[y].bytes = art[y].bytes
      BY <2>2, <3>1
    <3>3. UserRefs(u)' \subseteq UserRefs(u)
      BY <2>1
    <3> QED BY <2>0, <2>1, <3>2, <3>3, SpentShrinks
  <2> QED BY <2>3, <2>4
<1> QED BY <1>7, <1>8, LimitsOf, LimitsNext

LEMMA DuplicateIsLimited ==
  ASSUME Custody, QuotaLimits, NEW r \in Refs, ref[r].state = "RESERVED", Duplicate(r),
         UNCHANGED <<files, open>>
  PROVE  QuotaLimits'
<1>1. PICK t \in Artifacts : t = Target(r)
  BY TargetIsArtifact
<1>2. /\ ref[r].temp /\ ~ref[r].pending /\ ref[r].art = None
      /\ ref'[r].pending = TRUE /\ ref'[r].temp = ref[r].temp
      /\ ref'[r].sess = ref[r].sess /\ ref'[r].doc = ref[r].doc
      /\ \/ ref'[r].art = None
         \/ ref'[r].art = t /\ ref'[r].state = "ATTACHED"
      /\ \A q \in Refs \ {r} : ref'[q] = ref[q]
  BY <1>1, DuplicateIsCustody
<1>3. UNCHANGED art
  BY DEF Duplicate
<1>4. \A q \in Refs : UserOf(q)' = UserOf(q) /\ SizeOf(q)' = SizeOf(q)
  BY <1>2 DEF UserOf, SizeOf
<1>5. ASSUME NEW a \in Artifacts, ref'[r].art # a PROVE Payers(a)' = Payers(a)
  <2>1. a # None
    BY DocumentOf
  <2>2. RefsOf(a)' = RefsOf(a) /\ r \notin RefsOf(a) /\ RefsOf(a) \subseteq Refs
    BY <1>2, <1>5, <2>1 DEF RefsOf
  <2>3. \A q \in RefsOf(a) : /\ ref'[q].state = ref[q].state /\ ref'[q].left = ref[q].left
                             /\ UserOf(q)' = UserOf(q)
    BY <1>2, <1>4, <2>2
  <2> QED BY <2>2, <2>3, PayersStay
<1>6. ASSUME NEW u, u \in Payers(t)', u # UserOf(r) PROVE u \in Payers(t)
  <2>1. CASE ref'[r].art # t
    BY <1>5, <1>6, <2>1
  <2>2. CASE ref'[r].art = t
    <3>1. t # None
      BY DocumentOf
    <3>2. r \in Attached(t)' /\ \A q \in Attached(t)' : q = r \/ q \in Attached(t)
      BY <1>2, <2>2, <3>1 DEF Attached, RefsOf
    <3>3. PICK q \in Attached(t)' : u = UserOf(q)'
      BY <1>6, <3>2 DEF Payers
    <3>4. q \in Refs
      BY <3>3 DEF Attached, RefsOf
    <3>5. q \in Attached(t) /\ u = UserOf(q)
      BY <1>4, <1>6, <3>2, <3>3, <3>4
    <3>6. Payers(t) = {UserOf(p) : p \in Attached(t)}
      BY <3>5 DEF Payers
    <3> QED BY <3>5, <3>6
  <2> QED BY <2>1, <2>2
<1>7. ASSUME NEW ts, NEW n \in Nat, Stored(ts) <= n PROVE Stored(ts)' <= n
  <2>1. \A q \in Refs : ref'[q].temp => ref[q].temp /\ UserOf(q)' = UserOf(q) /\ ref'[q].doc = ref[q].doc
    BY <1>2, <1>4
  <2> QED BY <1>3, <1>7, <2>1, StoredStays
<1>8. ASSUME NEW u \in Users PROVE Spent(u)' <= UserLimit
  <2>0. Spent(u) <= UserLimit /\ UserLimit \in Nat
    BY LimitsOf
  <2>1. UserRefs(u)' \subseteq UserRefs(u) \ {r} /\ \A x \in UserRefs(u)' : SizeOf(x)' = SizeOf(x)
    BY <1>2, <1>4 DEF UserRefs, Temporary
  <2>2. /\ UserDocs(u)' \subseteq UserDocs(u) \cup {t}
        /\ \A y \in UserDocs(u)' : art'[y].bytes = art[y].bytes
    <3>1. \A a \in Artifacts \ {t} : Payers(a)' = Payers(a)
      <4>1. \A a \in Artifacts \ {t} : ref'[r].art # a
        BY <1>2, DocumentOf
      <4> QED BY <1>5, <4>1
    <3> QED BY <1>3, <3>1 DEF UserDocs, Retained, Artifacts
  <2>3. CASE UserOf(r) = u
    <3>1. r \in UserRefs(u)
      BY <1>2, <2>3 DEF UserRefs, Temporary
    <3>2. t \in UserDocs(u)' => art'[t].bytes = SizeOf(r)
      <4>1. art[t].home # None => art[t].bytes = Size[t[2]]
        BY DEF Custody, DocumentsAreSound
      <4>2. Size[t[2]] = SizeOf(r)
        BY <1>1, TargetIsArtifact
      <4> QED BY <1>3, <4>1, <4>2 DEF UserDocs, Retained
    <3> QED BY <2>0, <2>1, <2>2, <3>1, <3>2, SpentMoves
  <2>4. CASE UserOf(r) # u
    <3>1. t \in UserDocs(u)' => t \in UserDocs(u)
      BY <1>3, <1>6, <2>4 DEF UserDocs, Retained
    <3>2. UserDocs(u)' \subseteq UserDocs(u) /\ UserRefs(u)' \subseteq UserRefs(u)
      BY <2>1, <2>2, <3>1
    <3> QED BY <2>0, <2>1, <2>2, <3>2, SpentShrinks
  <2> QED BY <2>3, <2>4
<1> QED BY <1>7, <1>8, LimitsOf, LimitsNext

\* Files: every file is counted where it waits or where it is kept.
LEMMA DiskIsStored ==
  ASSUME Custody, NEW ts \in SUBSET Tenants, NEW n \in Nat, Stored(ts) <= n
  PROVE  OnDisk({u \in Users : TenantOf[u] \in ts}) <= n
<1> DEFINE us == {u \in Users : TenantOf[u] \in ts}
           F  == {r \in files : UserOf(r) \in us}
           F1 == {r \in F : ref[r].temp}
           F2 == F \ F1
           S  == TenantRefs(ts)
           A  == TenantDocs(ts)
           f0 == [x \in F |-> SizeOf(x)]
           f  == [x \in S |-> SizeOf(x)]
           g  == [y \in A |-> art[y].bytes]
           h  == [x \in F2 |-> ref[x].art]
<1>1. F \subseteq Refs /\ \A r \in F : ref[r].state # "NONE"
  <2>1. F \subseteq Refs
    BY DEF Custody, QuotaRows
  <2>2. \A r \in F : ref[r].temp \/ ref[r].art # None
    BY DEF Custody, FilesAreKnown
  <2> QED BY <2>1, <2>2 DEF Custody, RefsAreSound
<1>2. \A r \in F : SizeOf(r) \in Nat /\ TenantAt(r) \in ts
  <2>1. \A r \in F : SizeOf(r) \in Nat
    BY <1>1, TargetIsArtifact
  <2> QED BY <2>1 DEF TenantAt
<1>3. F1 \subseteq S
  BY <1>1, <1>2 DEF TenantRefs, Temporary
<1>4. ASSUME NEW r \in F2
      PROVE  /\ ref[r].art \in A /\ art[ref[r].art].home = r
             /\ art[ref[r].art].bytes = SizeOf(r)
  <2>1. r \in Refs /\ r \in files /\ r # None /\ ref[r].state # "NONE"
    BY <1>1, QuotaAssumption
  <2>2. ref[r].art # None /\ art[ref[r].art].home = r
    BY <2>1 DEF Custody, FilesAreKnown
  <2>3. ref[r].art \in Artifacts /\ ref[r].art = Target(r)
    BY <2>1, <2>2, RefOf DEF Custody, RefsAreSound
  <2>4. Target(r)[1] = TenantAt(r) /\ Size[Target(r)[2]] = SizeOf(r)
    BY <2>1, TargetIsArtifact
  <2>5. art[ref[r].art].bytes = Size[ref[r].art[2]]
    BY <2>1, <2>2, <2>3 DEF Custody, DocumentsAreSound
  <2> QED BY <1>2, <2>1, <2>2, <2>3, <2>4, <2>5 DEF TenantDocs, Retained
<1>5. /\ IsFiniteSet(S) /\ IsFiniteSet(A)
      /\ \A x \in S : f[x] \in Nat
      /\ \A y \in A : g[y] \in Nat
  BY AccountTerms DEF TenantRefs, TenantDocs
<1>6. IsFiniteSet(F)
  <2> HIDE DEF F
  <2> QED BY <1>1, FS_Subset, QuotaAssumption
<1>7. OnDisk(us) = SumFunctionOnSet(f0, F)
  BY DEF OnDisk, Sum, SumFunction, Reserved
<1>8. Stored(ts) = SumFunctionOnSet(f, S) + SumFunctionOnSet(g, A)
  BY DEF Stored, TenantRefs, TenantDocs, Sum, SumFunction, Reserved, Verified
<1>9. /\ \A x \in F : f0[x] \in Nat
      /\ \A x \in F1 : f0[x] \in Nat /\ f0[x] <= f[x]
      /\ \A x \in F2 : h[x] \in A /\ f0[x] \in Nat /\ g[h[x]] = f0[x]
      /\ \A x, y \in F2 : h[x] = h[y] => x = y
  BY <1>2, <1>3, <1>4
<1>10. F1 \in SUBSET F /\ F2 = F \ F1
  OBVIOUS
<1> HIDE DEF us, F, F1, F2, S, A, f0, f, g, h
<1>11. IsFiniteSet(F1) /\ IsFiniteSet(F2)
  BY <1>6, <1>10, FS_Subset
<1>12. SumFunctionOnSet(f0, F) = SumFunctionOnSet(f0, F1) + SumFunctionOnSet(f0, F2)
  BY <1>6, <1>9, <1>10, SumSplit
<1>13. SumFunctionOnSet(f0, F1) <= SumFunctionOnSet(f, S)
  BY <1>3, <1>5, <1>9, SumGrows
<1>14. SumFunctionOnSet(f0, F2) <= SumFunctionOnSet(g, A)
  BY <1>5, <1>9, <1>11, SumAlong
<1>15. /\ SumFunctionOnSet(f0, F1) \in Nat /\ SumFunctionOnSet(f0, F2) \in Nat
       /\ SumFunctionOnSet(f, S) \in Nat /\ SumFunctionOnSet(g, A) \in Nat
  BY <1>5, <1>9, <1>10, <1>11, SumType
<1>16. SumFunctionOnSet(f, S) + SumFunctionOnSet(g, A) <= n
  BY <1>8
<1> QED BY <1>7, <1>12, <1>13, <1>14, <1>15, <1>16 DEF us

LEMMA InitIsLimited == QuotaInit => QuotaLimits
<1> SUFFICES ASSUME QuotaInit PROVE QuotaLimits
  OBVIOUS
<1>1. Temporary = {} /\ Retained = {}
  BY DEF QuotaInit, NoRef, NoArt, Temporary, Retained
<1>2. \A f : SumFunctionOnSet(f, {}) = 0
  <2> SUFFICES ASSUME NEW f PROVE SumFunctionOnSet(f, {}) = 0
    OBVIOUS
  <2>1. Units(f, {}) = {}
    BY DEF Units
  <2>2. IsFiniteSet({}) /\ Cardinality({}) = 0
    BY FS_EmptySet
  <2>3. \A x \in {} : f[x] \in Nat
    OBVIOUS
  <2>4. SumFunctionOnSet(f, {}) = Cardinality(Units(f, {}))
    BY <2>2, <2>3, SumIsUnits
  <2> QED BY <2>1, <2>2, <2>4
<1>3. ASSUME NEW ts PROVE Stored(ts) = 0
  <2> DEFINE S == TenantRefs(ts)
             A == TenantDocs(ts)
             f == [x \in S |-> SizeOf(x)]
             g == [y \in A |-> art[y].bytes]
  <2>1. Stored(ts) = SumFunctionOnSet(f, S) + SumFunctionOnSet(g, A)
    BY DEF Stored, TenantRefs, TenantDocs, Sum, SumFunction, Reserved, Verified
  <2>2. S = {} /\ A = {}
    BY <1>1 DEF TenantRefs, TenantDocs
  <2> HIDE DEF S, A, f, g
  <2>3. SumFunctionOnSet(f, S) = 0 /\ SumFunctionOnSet(g, A) = 0
    BY <1>2, <2>2
  <2> QED BY <2>1, <2>3
<1>4. ASSUME NEW u PROVE Spent(u) = 0
  <2> DEFINE S == UserRefs(u)
             A == UserDocs(u)
             f == [x \in S |-> SizeOf(x)]
             g == [y \in A |-> art[y].bytes]
  <2>1. Spent(u) = SumFunctionOnSet(f, S) + SumFunctionOnSet(g, A)
    BY DEF Spent, Sum, SumFunction, Reserved, Verified
  <2>2. S = {} /\ A = {}
    BY <1>1 DEF UserRefs, UserDocs
  <2> HIDE DEF S, A, f, g
  <2>3. SumFunctionOnSet(f, S) = 0 /\ SumFunctionOnSet(g, A) = 0
    BY <1>2, <2>2
  <2> QED BY <2>1, <2>3
<1>5. GlobalLimit \in Nat /\ TenantLimit \in Nat /\ UserLimit \in Nat
  BY QuotaAssumption
<1>6. StoredWithinLimits
  BY <1>3, <1>5 DEF StoredWithinLimits
<1>7. \A u \in Users : Spent(u) <= UserLimit
  BY <1>4, <1>5
<1>8. UserWithinLimit
  BY <1>7 DEF UserWithinLimit, Spent, UserRefs, UserDocs
<1> QED BY <1>6, <1>8 DEF QuotaLimits

\* Steps of the purger and of the disk.
LEMMA PurgeKeepsQuota ==
  ASSUME QuotaInv, Purge
  PROVE  QuotaInv'
<1>1. Custody /\ QuotaLimits
  BY DEF QuotaInv
<1>2. ASSUME NEW r \in Refs, EraseTemporary(r) PROVE QuotaInv'
  <2>1. files' \subseteq files /\ UNCHANGED <<ref, art, open>>
    BY <1>2 DEF EraseTemporary
  <2>2. Custody'
    BY <1>1, <2>1, EraseIsCustody
  <2>3. \A q \in Refs : UserOf(q)' = UserOf(q)
    BY <2>1 DEF UserOf
  <2>4. \A a \in Artifacts : Payers(a)' = Payers(a)
    BY <2>1 DEF Payers, Attached, LastToLeave, RefsOf, UserOf
  <2>5. QuotaLimits'
    BY <1>1, <2>1, <2>3, <2>4, CalmIsLimited
  <2> QED BY <2>2, <2>5 DEF QuotaInv
<1>3. ASSUME NEW r \in Refs, ForgetTemporary(r) PROVE QuotaInv'
  <2>1. Custody'
    BY <1>1, <1>3, ForgetTemporaryIsCustody
  <2>2. /\ ref' = [ref EXCEPT ![r].temp = FALSE, ![r].pending = FALSE] /\ UNCHANGED art
        /\ ref \in [Refs -> RefRows]
    BY <1>1, <1>3 DEF ForgetTemporary, Custody, QuotaRows
  <2>3. /\ ref'[r].temp = FALSE
        /\ \A q \in Refs \ {r} : ref'[q] = ref[q]
        /\ \A q \in Refs : /\ ref'[q].state = ref[q].state /\ ref'[q].left = ref[q].left
                           /\ ref'[q].sess = ref[q].sess /\ ref'[q].art = ref[q].art
    BY <2>2 DEF RefRows
  <2>4. \A q \in Refs : UserOf(q)' = UserOf(q)
    BY <2>3 DEF UserOf
  <2>5. ASSUME NEW a \in Artifacts PROVE Payers(a)' = Payers(a)
    <3>1. RefsOf(a)' = RefsOf(a) /\ RefsOf(a) \subseteq Refs
      BY <2>3 DEF RefsOf
    <3>2. \A q \in RefsOf(a) : /\ ref'[q].state = ref[q].state /\ ref'[q].left = ref[q].left
                               /\ UserOf(q)' = UserOf(q)
      BY <2>3, <2>4, <3>1
    <3> QED BY <3>1, <3>2, PayersStay
  <2>6. \A q \in Refs : ref'[q].temp => /\ ref[q].temp /\ UserOf(q)' = UserOf(q)
                                        /\ ref'[q].doc = ref[q].doc
                                        /\ (ref[q].pending => ref'[q].pending)
    BY <2>3, <2>4
  <2>7. QuotaLimits'
    BY <1>1, <2>2, <2>5, <2>6, CalmIsLimited
  <2> QED BY <2>1, <2>7 DEF QuotaInv
<1>4. ASSUME NEW a \in Artifacts, Capture(a) \/ EraseDocument(a) \/ ForgetDocument(a) PROVE QuotaInv'
  <2>1. Custody'
    <3>1. CASE EraseDocument(a)
      <4>1. files' \subseteq files /\ UNCHANGED <<ref, art, open>>
        BY <3>1 DEF EraseDocument
      <4> QED BY <1>1, <4>1, EraseIsCustody
    <3> QED BY <1>1, <1>4, <3>1, CaptureIsCustody, ForgetDocumentIsCustody
  <2>2. UNCHANGED ref
    BY <1>4 DEF Capture, EraseDocument, ForgetDocument
  <2>3. \A b \in Artifacts : art'[b].home # None => art[b].home # None /\ art'[b].bytes = art[b].bytes
    <3>1. CASE Capture(a)
      BY <1>1, <3>1, CaptureIsCustody
    <3>2. CASE EraseDocument(a)
      BY <3>2 DEF EraseDocument
    <3>3. CASE ForgetDocument(a)
      <4>1. art'[a].home = None /\ \A b \in Artifacts \ {a} : art'[b] = art[b]
        BY <1>1, <3>3, ForgetDocumentIsCustody
      <4> QED BY <4>1
    <3> QED BY <1>4, <3>1, <3>2, <3>3
  <2>4. \A q \in Refs : UserOf(q)' = UserOf(q)
    BY <2>2 DEF UserOf
  <2>5. \A b \in Artifacts : Payers(b)' = Payers(b)
    BY <2>2 DEF Payers, Attached, LastToLeave, RefsOf, UserOf
  <2>6. QuotaLimits'
    BY <1>1, <2>2, <2>3, <2>4, <2>5, CalmIsLimited
  <2> QED BY <2>1, <2>6 DEF QuotaInv
<1> QED BY <1>2, <1>3, <1>4 DEF Purge

LEMMA UploadKeepsQuota ==
  ASSUME QuotaInv, NEW r \in Refs,
         Write(r) \/ Fail(r) \/ Finalize(r) \/ \E s \in Sessions, d \in Documents : Reserve(r, s, d)
  PROVE  QuotaInv'
<1>1. Custody /\ QuotaLimits
  BY DEF QuotaInv
<1>2. CASE Write(r)
  <2>1. Custody'
    BY <1>1, <1>2, WriteIsCustody
  <2>2. UNCHANGED <<ref, art>>
    BY <1>2 DEF Write
  <2>3. \A q \in Refs : UserOf(q)' = UserOf(q)
    BY <2>2 DEF UserOf
  <2>4. \A a \in Artifacts : Payers(a)' = Payers(a)
    BY <2>2 DEF Payers, Attached, LastToLeave, RefsOf, UserOf
  <2>5. QuotaLimits'
    BY <1>1, <2>2, <2>3, <2>4, CalmIsLimited
  <2> QED BY <2>1, <2>5 DEF QuotaInv
<1>3. CASE Fail(r)
  <2>1. Custody'
    BY <1>1, <1>3, FailIsCustody
  <2>2. /\ ref' = [ref EXCEPT ![r].state = "FAILED", ![r].pending = TRUE] /\ UNCHANGED art
        /\ ref \in [Refs -> RefRows] /\ ref[r].state = "RESERVED" /\ ref[r].art = None
    BY <1>1, <1>3 DEF Fail, Custody, QuotaRows, RefsAreSound
  <2>3. /\ ref'[r].temp = ref[r].temp /\ ref'[r].pending = TRUE
        /\ ref'[r].doc = ref[r].doc /\ ref'[r].sess = ref[r].sess /\ ref'[r].art = None
        /\ \A q \in Refs \ {r} : ref'[q] = ref[q]
    BY <2>2 DEF RefRows
  <2>4. \A q \in Refs : UserOf(q)' = UserOf(q)
    BY <2>3 DEF UserOf
  <2>5. ASSUME NEW a \in Artifacts PROVE Payers(a)' = Payers(a)
    <3>1. a # None
      BY <1>1, DocumentOf
    <3>2. RefsOf(a)' = RefsOf(a) /\ RefsOf(a) \subseteq Refs /\ r \notin RefsOf(a)
      BY <2>2, <2>3, <3>1 DEF RefsOf
    <3>3. \A q \in RefsOf(a) : /\ ref'[q].state = ref[q].state /\ ref'[q].left = ref[q].left
                               /\ UserOf(q)' = UserOf(q)
      BY <2>3, <2>4, <3>2
    <3> QED BY <3>2, <3>3, PayersStay
  <2>6. \A q \in Refs : ref'[q].temp => /\ ref[q].temp /\ UserOf(q)' = UserOf(q)
                                        /\ ref'[q].doc = ref[q].doc
                                        /\ (ref[q].pending => ref'[q].pending)
    BY <2>3, <2>4
  <2>7. QuotaLimits'
    BY <1>1, <2>2, <2>5, <2>6, CalmIsLimited
  <2> QED BY <2>1, <2>7 DEF QuotaInv
<1>4. CASE Finalize(r)
  <2>1. /\ ref[r].state = "RESERVED" /\ r \in files /\ UNCHANGED <<files, open>>
        /\ Adopt(r) \/ Duplicate(r)
    BY <1>4 DEF Finalize
  <2>2. CASE Adopt(r)
    <3>1. Custody'
      BY <1>1, <2>1, <2>2, AdoptIsCustody
    <3>2. QuotaLimits'
      BY <1>1, <2>1, <2>2, AdoptIsLimited
    <3> QED BY <3>1, <3>2 DEF QuotaInv
  <2>3. CASE Duplicate(r)
    <3>1. Custody'
      BY <1>1, <2>1, <2>3, DuplicateIsCustody
    <3>2. QuotaLimits'
      BY <1>1, <2>1, <2>3, DuplicateIsLimited
    <3> QED BY <3>1, <3>2 DEF QuotaInv
  <2> QED BY <2>1, <2>2, <2>3
<1>5. ASSUME NEW s \in Sessions, NEW d \in Documents, Reserve(r, s, d) PROVE QuotaInv'
  BY <1>1, <1>5, ReserveIsCustody, ReserveIsLimited DEF QuotaInv
<1> QED BY <1>2, <1>3, <1>4, <1>5

LEMMA EndKeepsQuota ==
  ASSUME QuotaInv, NEW s \in Sessions,
         Close(s) \/ \E c \in Sessions : Continue(s, c)
  PROVE  QuotaInv'
<1>1. Custody /\ QuotaLimits /\ open \subseteq Sessions
  BY DEF QuotaInv, Custody, QuotaRows
<1>2. CASE Close(s)
  <2>1. ref' = Ended(s, {}, None) /\ open' \subseteq Sessions /\ UNCHANGED <<art, files>>
    BY <1>1, <1>2 DEF Close
  <2>2. Custody'
    BY <1>1, <2>1, EndedIsCustody
  <2>3. QuotaLimits'
    BY <1>1, <2>1, EndedIsLimited
  <2> QED BY <2>2, <2>3 DEF QuotaInv
<1>3. ASSUME NEW c \in Sessions, Continue(s, c) PROVE QuotaInv'
  <2>1. PICK kept \in SUBSET {r \in Refs : ref[r].sess = s /\ ref[r].state \in {"ATTACHED", "FAILED"}} :
          ref' = Ended(s, kept, c)
    BY <1>3 DEF Continue
  <2>2. open' \subseteq Sessions /\ UNCHANGED <<art, files>> /\ OwnerOf[c] = OwnerOf[s]
    BY <1>1, <1>3 DEF Continue
  <2>3. Custody'
    BY <1>1, <2>1, <2>2, EndedIsCustody
  <2>4. QuotaLimits'
    BY <1>1, <2>1, <2>2, EndedIsLimited
  <2> QED BY <2>3, <2>4 DEF QuotaInv
<1> QED BY <1>2, <1>3

LEMMA NextKeepsQuota == QuotaInv /\ [QuotaNext]_quotaVars => QuotaInv'
<1> SUFFICES ASSUME QuotaInv, [QuotaNext]_quotaVars PROVE QuotaInv'
  OBVIOUS
<1>1. CASE Purge
  BY <1>1, PurgeKeepsQuota
<1>2. ASSUME NEW r \in Refs,
             Write(r) \/ Fail(r) \/ Finalize(r) \/ \E s \in Sessions, d \in Documents : Reserve(r, s, d)
      PROVE  QuotaInv'
  BY <1>2, UploadKeepsQuota
<1>3. ASSUME NEW s \in Sessions, Close(s) \/ \E c \in Sessions : Continue(s, c) PROVE QuotaInv'
  BY <1>3, EndKeepsQuota
<1>4. CASE UNCHANGED quotaVars
  <2>1. Custody'
    BY <1>4, EraseIsCustody DEF QuotaInv, quotaVars
  <2>2. QuotaLimits'
    <3>1. UNCHANGED <<ref, art>>
      BY <1>4 DEF quotaVars
    <3>2. \A q \in Refs : UserOf(q)' = UserOf(q)
      BY <3>1 DEF UserOf
    <3>3. \A a \in Artifacts : Payers(a)' = Payers(a)
      BY <3>1 DEF Payers, Attached, LastToLeave, RefsOf, UserOf
    <3> QED BY <3>1, <3>2, <3>3, CalmIsLimited DEF QuotaInv
  <2> QED BY <2>1, <2>2 DEF QuotaInv
<1> QED BY <1>1, <1>2, <1>3, <1>4 DEF QuotaNext

LEMMA BytesFollow == QuotaInv => BytesWithinLimits
<1> SUFFICES ASSUME QuotaInv PROVE BytesWithinLimits
  OBVIOUS
<1>1. Custody /\ QuotaLimits
  BY DEF QuotaInv
<1>2. QuotaTypeOK
  BY <1>1 DEF Custody, QuotaRows, RefRows, ArtRows, RefsAreSound, QuotaTypeOK
<1>3. UserWithinLimit
  BY <1>1 DEF QuotaLimits
<1>4. OnDisk(Users) <= GlobalLimit
  <2>1. Users = {u \in Users : TenantOf[u] \in Tenants}
    BY QuotaAssumption
  <2>2. OnDisk({u \in Users : TenantOf[u] \in Tenants}) <= GlobalLimit
    BY <1>1, DiskIsStored, LimitsOf
  <2> QED BY <2>1, <2>2
<1>5. ASSUME NEW t \in Tenants PROVE OnDisk({u \in Users : TenantOf[u] = t}) <= TenantLimit
  <2>1. {u \in Users : TenantOf[u] = t} = {u \in Users : TenantOf[u] \in {t}}
    OBVIOUS
  <2>2. {t} \in SUBSET Tenants /\ Stored({t}) <= TenantLimit /\ TenantLimit \in Nat
    BY <1>1, LimitsOf
  <2>3. OnDisk({u \in Users : TenantOf[u] \in {t}}) <= TenantLimit
    BY <1>1, <2>2, DiskIsStored
  <2> QED BY <2>1, <2>3
<1> QED BY <1>2, <1>3, <1>4, <1>5 DEF BytesWithinLimits, DiskWithinLimits

\* What was admitted is what the rows and the disk hold from then on: no copy, share,
\* continuation, release or purge brings a tenant, or everybody, over a limit, nor a user,
\* copies that wait for their purge apart (import-upload.service.ts, quota).
THEOREM BytesStayWithinLimits == QuotaSpec => []BytesWithinLimits
<1>1. QuotaInit => QuotaInv
  BY InitIsCustody, InitIsLimited DEF QuotaInv
<1> QED
  BY <1>1, NextKeepsQuota, BytesFollow, PTL DEF QuotaSpec
=============================================================================
