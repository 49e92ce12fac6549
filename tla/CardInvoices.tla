---------------------------- MODULE CardInvoices ----------------------------
(***************************************************************************)
(* The invoices of one credit card with a closing and a due day.  Purchases *)
(* put installments on the invoice of their due month; a payment that is   *)
(* registered by hand, or read from a bank statement, marks the planned    *)
(* installments of the invoice it closes as paid; both can be undone, and  *)
(* people edit purchases and payments in between.                          *)
(*                                                                         *)
(* Each transaction of the database is one action.  What an undo or a      *)
(* liquidation decides before its transaction is an action of its own.     *)
(* A bank statement holds one payment; months and payments are numbers.    *)
(***************************************************************************)
EXTENDS Integers, FiniteSets, SequencesExt

CONSTANTS
  Purchases, Count,      \* Count[p]: the number of installments of p
  FirstDue, Price,       \* due month of the first one; amount of each one
  Rise,                  \* how much an edit changes the amount by
  Statement,             \* purchases read from one statement of the card
  StatementTotal,
  Months,                \* due months
  Manual, Imported,      \* payments registered by hand, read from a bank statement
  Amount, PayMonth,      \* of each payment
  Payload,               \* equal for manual payments of the same amount, account and moment
  Tolerance,             \* a payment this close to the total closes an invoice
  Undos, Liquidations    \* requests that decide before their transaction

Payments == Manual \cup Imported
None == 0

\* Amounts are positive: what lowers an invoice is not a purchase.
ASSUME PaymentsAssumption ==
  /\ Manual \cap Imported = {} /\ Payments \subseteq Nat \ {None}
  /\ Months \subseteq Nat \ {None} /\ Statement \subseteq Purchases
  /\ IsFiniteSet(Purchases)
  /\ \A p \in Purchases : Count[p] \in Nat \ {0} /\ Price[p] \in Nat \ {0}
  /\ Rise \in Nat
  /\ \A p \in Purchases : \A i \in 0..(Count[p] - 1) : FirstDue[p] + i \in Months

VARIABLES
  purchase,   \* purchase[p]: the expense of p with its cash-flow entries
  payment,    \* payment[x]: the expense of payment x
  ledger,     \* active rows of the trail of imported settlements
  undo,       \* undo[u]: the invoice and the payment that undo u has chosen
  liquidate,  \* liquidate[l]: the planned purchase that request l has read
  by          \* history: by[p][i] is the payment that last paid installment i

vars == <<purchase, payment, ledger, undo, liquidate, by>>

Indexes(p) == 0..(Count[p] - 1)
Blank(p) == [status |-> "ABSENT", due |-> [i \in Indexes(p) |-> FirstDue[p] + i],
  price |-> Price[p], paid |-> {}, whole |-> FALSE, parts |-> {}, clones |-> 0]
Idle == [month |-> None, pay |-> None]
Nobody(p) == [i \in Indexes(p) |-> None]

Init ==
  /\ purchase = [p \in Purchases |-> Blank(p)]
  /\ payment = [x \in Payments |-> [state |-> "NONE", key |-> None, stamp |-> None]]
  /\ ledger = {}
  /\ undo = [u \in Undos |-> Idle]
  /\ liquidate = [l \in Liquidations |-> {}]
  /\ by = [p \in Purchases |-> Nobody(p)]

-----------------------------------------------------------------------------
(* Invoices *)

\* A purchase that was liquidated has no entries of its own any more.
Entries(p) == IF purchase[p].status = "LIVE" THEN Indexes(p) ELSE {}
EntriesOf(m) == UNION {{<<p, i>> : i \in {j \in Entries(p) : purchase[p].due[j] = m}} : p \in Purchases}
Paid(e) == e[2] \in purchase[e[1]].paid
Total(m) == MapThenSumSet(LAMBDA e : purchase[e[1]].price, EntriesOf(m))
Window(x) == {PayMonth[x], PayMonth[x] + 1}
Distance(a, b) == IF a > b THEN a - b ELSE b - a
Gap(x, m) == Distance(Total(m), Amount[x])
Earliest(months) == CHOOSE m \in months : \A o \in months : m <= o

\* The invoice that payment x closes.  Among equally close ones the selected
\* month wins, and the earliest one otherwise.
Target(x, selected) ==
  LET open == {m \in Window(x) : Total(m) > 0}
      near == {m \in open : \A o \in open : Gap(x, m) <= Gap(x, o)}
  IN IF \A m \in near : Gap(x, m) > Tolerance THEN None
     ELSE IF selected \in near THEN selected ELSE Earliest(near)

Planned(m) == {e \in EntriesOf(m) : ~Paid(e) /\ purchase[e[1]].price > 0}
First(p, among) == CHOOSE i \in among : \A j \in among :
  \/ purchase[p].due[i] < purchase[p].due[j]
  \/ (purchase[p].due[i] = purchase[p].due[j] /\ i <= j)
StatementMatches(x) ==
  /\ \E p \in Statement : purchase[p].status # "ABSENT"
  /\ Distance(StatementTotal, Amount[x]) <= Tolerance
EarliestPlanned ==
  {<<p, First(p, Entries(p) \ purchase[p].paid)>> :
     p \in {q \in Statement : Entries(q) \ purchase[q].paid # {}}}

\* What payment x marks as paid: the planned installments of the invoice it
\* closes, or else the earliest one of each purchase of the statement it pays.
Flips(x, selected) ==
  LET t == Target(x, selected)
  IN IF t # None /\ Planned(t) # {} THEN Planned(t)
     ELSE IF StatementMatches(x) THEN EarliestPlanned ELSE {}

DueMonths(entries) == {purchase[e[1]].due[e[2]] : e \in entries}

\* The invoices a payment would pay, also when nothing is left to mark.
EffectiveMonths(x, selected) ==
  IF Flips(x, selected) # {} THEN DueMonths(Flips(x, selected))
  ELSE ({Target(x, selected)} \ {None})
       \cup (IF StatementMatches(x)
             THEN DueMonths({<<p, First(p, Entries(p))>> : p \in {q \in Statement : Entries(q) # {}}})
             ELSE {})

Of(p, entries) == {e[2] : e \in {f \in entries : f[1] = p}}

\* The expense p after installments fs of it were marked as paid...
Settled(p, fs) ==
  LET r == purchase[p]
      known == (IF r.whole THEN Indexes(p) ELSE r.parts) \cup fs
      all == Count[p] = 1 \/ known = Indexes(p)
  IN IF fs = {} THEN r
     ELSE [r EXCEPT !.paid = @ \cup fs, !.whole = all, !.parts = IF all THEN {} ELSE known]

\* ... and after they were marked as planned again.
Reopened(p, fs) ==
  LET r == purchase[p]
      left == r.paid \ fs
      all == left = Indexes(p)
  IN IF fs = {} THEN r
     ELSE [r EXCEPT !.paid = left, !.whole = Count[p] > 1 /\ all,
                    !.parts = IF Count[p] = 1 \/ all THEN {} ELSE left]

Credited(entries, x) ==
  [p \in Purchases |-> [i \in Indexes(p) |-> IF <<p, i>> \in entries THEN x ELSE by[p][i]]]

-----------------------------------------------------------------------------
(* Purchases *)

AddPurchase(p) ==
  /\ p \notin Statement /\ purchase[p].status = "ABSENT"
  /\ purchase' = [purchase EXCEPT ![p].status = "LIVE"]
  /\ UNCHANGED <<payment, ledger, undo, liquidate, by>>

ImportCardStatement ==
  /\ \E p \in Statement : purchase[p].status = "ABSENT"
  /\ purchase' = [p \in Purchases |->
       IF p \in Statement THEN [purchase[p] EXCEPT !.status = "LIVE"] ELSE purchase[p]]
  /\ UNCHANGED <<payment, ledger, undo, liquidate, by>>

Claimed(p) == \E r \in ledger : r.purchase = p

\* New entries replace the old ones: rows of the ledger lose theirs.
Rebuilt(p, r) ==
  /\ purchase' = [purchase EXCEPT ![p] = [r EXCEPT !.paid =
       IF r.status # "LIVE" THEN {} ELSE IF r.whole THEN Indexes(p) ELSE r.parts]]
  /\ ledger' = {[row EXCEPT !.live = row.live /\ row.purchase # p] : row \in ledger}

\* Mutant: no look at the trail before an installment is toggled.
SetParcelaStatusFreely(p, i, paid) ==
  LET r == purchase[p]
      base == IF r.whole THEN Indexes(p) ELSE r.parts
      next == IF paid THEN base \cup {i} ELSE base \ {i}
      all == next = Indexes(p)
  IN /\ r.status = "LIVE" /\ Count[p] > 1
     /\ Rebuilt(p, [r EXCEPT !.whole = all, !.parts = IF all THEN {} ELSE next])
     /\ by' = [by EXCEPT ![p][i] = None]
     /\ UNCHANGED <<payment, undo, liquidate>>

SetParcelaStatus(p, i, paid) ==
  LET r == purchase[p]
      base == IF r.whole THEN Indexes(p) ELSE r.parts
      next == IF paid THEN base \cup {i} ELSE base \ {i}
      all == next = Indexes(p)
  IN /\ r.status = "LIVE" /\ Count[p] > 1 /\ ~Claimed(p)
     /\ Rebuilt(p, [r EXCEPT !.whole = all, !.parts = IF all THEN {} ELSE next])
     /\ by' = [by EXCEPT ![p][i] = None]
     /\ UNCHANGED <<payment, undo, liquidate>>

\* An edit of the status or the amount forgets which installments were paid.
Update(p, whole, price) ==
  LET r == purchase[p]
  IN /\ r.status \in {"LIVE", "LIQUIDATED"} /\ ~Claimed(p)
     /\ <<whole, price>> # <<r.whole, r.price>>
     /\ Rebuilt(p, [r EXCEPT !.whole = whole, !.price = price, !.parts = {}])
     /\ by' = [by EXCEPT ![p] = IF whole /\ r.whole THEN @ ELSE Nobody(p)]
     /\ UNCHANGED <<payment, undo, liquidate>>

\* The date of an installment moves, and with it its invoice.
UpdateInstallmentDate(p, i, m) ==
  /\ purchase[p].status \in {"LIVE", "LIQUIDATED"} /\ ~Claimed(p)
  /\ m # purchase[p].due[i]
  /\ Rebuilt(p, [purchase[p] EXCEPT !.due[i] = m])
  /\ by' = [by EXCEPT ![p][i] = None]
  /\ UNCHANGED <<payment, undo, liquidate>>

RemovePurchase(p) ==
  /\ purchase[p].status \in {"LIVE", "LIQUIDATED"} /\ ~Claimed(p)
  /\ Rebuilt(p, [purchase[p] EXCEPT !.status = "REMOVED"])
  /\ UNCHANGED <<payment, undo, liquidate, by>>

\* The liquidation of a planned purchase looks at it first ...
PayPlannedRead(l, p) ==
  LET r == purchase[p]
  IN /\ liquidate[l] = {}
     /\ r.status = "LIVE" /\ ~r.whole /\ r.parts = {}
     /\ liquidate' = [liquidate EXCEPT ![l] = {p}]
     /\ UNCHANGED <<purchase, payment, ledger, undo, by>>

\* ... and then creates the paid expense and drops the entries of the planned one.
PayPlannedCommit(l) == \E p \in liquidate[l] :
  /\ LET r == purchase[p]
     IN Rebuilt(p, [r EXCEPT !.clones = @ + 1,
                             !.status = IF r.status = "LIVE" THEN "LIQUIDATED" ELSE @])
  /\ liquidate' = [liquidate EXCEPT ![l] = {}]
  /\ UNCHANGED <<payment, undo, by>>

-----------------------------------------------------------------------------
(* Payments *)

Live(x) == payment[x].state = "LIVE"

\* Mutant: a payment of several invoices gets the key of the first.
PayInvoiceForTheFirst(x, selected) ==
  LET flips == Flips(x, selected)
      months == DueMonths(flips)
      key == IF months = {} THEN None ELSE Earliest(months)
  IN /\ x \in Manual /\ payment[x].state = "NONE"
     /\ \A r \in ledger : r.month \notin {selected} \cup EffectiveMonths(x, selected)
     /\ \A y \in Payments : Live(y) => Payload[y] # Payload[x]
     /\ payment' = [payment EXCEPT ![x] = [state |-> "LIVE", key |-> key, stamp |-> None]]
     /\ purchase' = [p \in Purchases |-> Settled(p, Of(p, flips))]
     /\ by' = Credited(flips, x)
     /\ UNCHANGED <<ledger, undo, liquidate>>

PayInvoice(x, selected) ==
  LET flips == Flips(x, selected)
      months == DueMonths(flips)
      key == IF Cardinality(months) = 1 THEN CHOOSE m \in months : TRUE ELSE None
  IN /\ x \in Manual /\ payment[x].state = "NONE"
     /\ \A r \in ledger : r.month \notin {selected} \cup EffectiveMonths(x, selected)
     /\ \A y \in Payments : Live(y) => Payload[y] # Payload[x]
     /\ payment' = [payment EXCEPT ![x] = [state |-> "LIVE", key |-> key, stamp |-> None]]
     /\ purchase' = [p \in Purchases |-> Settled(p, Of(p, flips))]
     /\ by' = Credited(flips, x)
     /\ UNCHANGED <<ledger, undo, liquidate>>

ImportStatement(x) ==
  LET flips == Flips(x, None)
  IN /\ x \in Imported /\ payment[x].state = "NONE"
     /\ \A r \in ledger : r.live => <<r.purchase, r.index>> \notin flips
     /\ payment' = [payment EXCEPT ![x] =
          [state |-> "LIVE", key |-> None, stamp |-> Cardinality(flips)]]
     /\ purchase' = [p \in Purchases |-> Settled(p, Of(p, flips))]
     /\ ledger' = ledger \cup
          {[pay |-> x, purchase |-> e[1], index |-> e[2], live |-> TRUE,
            month |-> purchase[e[1]].due[e[2]], amount |-> purchase[e[1]].price] : e \in flips}
     /\ by' = Credited(flips, x)
     /\ UNCHANGED <<undo, liquidate>>

\* Payments with a key of their own, and those of a statement, are protected.
RemovePayment(x) ==
  /\ Live(x) /\ x \in Manual /\ payment[x].key = None
  /\ payment' = [payment EXCEPT ![x].state = "GONE"]
  /\ UNCHANGED <<purchase, ledger, undo, liquidate, by>>

\* Which invoice each payment without a key pays, as the overview reads it:
\* in the order of their months and amounts, each takes the invoice of its
\* window whose rest comes closest.
Sooner(x, y) ==
  \/ PayMonth[x] < PayMonth[y]
  \/ (PayMonth[x] = PayMonth[y] /\ Amount[x] < Amount[y])
  \/ (PayMonth[x] = PayMonth[y] /\ Amount[x] = Amount[y] /\ x < y)
Unkeyed == {x \in Payments : Live(x) /\ payment[x].key = None}
AssignImplicitPayments ==
  LET Rest(acc, m) == IF Total(m) > acc.covered[m] THEN Total(m) - acc.covered[m] ELSE 0
      Best(acc, x) ==
        LET months == {m \in Window(x) \cap Months : EntriesOf(m) # {}}
            gap(m) == Distance(Rest(acc, m), Amount[x])
        IN IF months = {} THEN None
           ELSE Earliest({m \in months : \A o \in months : gap(m) <= gap(o)})
      Take(acc, x) ==
        LET m == Best(acc, x)
        IN IF m = None THEN acc
           ELSE [of |-> acc.of \cup {<<x, m>>}, covered |-> [acc.covered EXCEPT ![m] = @ + Amount[x]]]
  IN FoldLeft(Take, [of |-> {}, covered |-> [m \in Months |-> 0]], SetToSortSeq(Unkeyed, Sooner)).of

Implicit(m) == {x \in Unkeyed : <<x, m>> \in AssignImplicitPayments}

Eligible(m) == (Implicit(m) \cap Manual) \cup {x \in Payments : Live(x) /\ payment[x].key = m}

\* An undo of invoice m needs one manual payment of it, and no imported one.
UndoRead(u, m) ==
  /\ undo[u] = Idle
  /\ Implicit(m) \cap Imported = {}
  /\ \E x \in Eligible(m) :
       /\ Eligible(m) = {x}
       /\ undo' = [undo EXCEPT ![u] = [month |-> m, pay |-> x]]
  /\ UNCHANGED <<purchase, payment, ledger, liquidate, by>>

Anchored(m) == \E r \in ledger : r.live /\ <<r.purchase, r.index>> \in EntriesOf(m)

\* Mutant: the payment is not looked at again.
UndoCommitAsRead(u) ==
  LET m == undo[u].month
      paid == {e \in EntriesOf(m) : Paid(e) /\ purchase[e[1]].price > 0}
  IN /\ undo[u] # Idle
     /\ ~Anchored(m)
     /\ purchase' = [p \in Purchases |-> Reopened(p, Of(p, paid))]
     /\ by' = Credited(paid, None)
     /\ payment' = [payment EXCEPT ![undo[u].pay].state = "GONE"]
     /\ undo' = [undo EXCEPT ![u] = Idle]
     /\ UNCHANGED <<ledger, liquidate>>

\* It reopens the whole invoice if its payment is still there.
UndoCommit(u) ==
  LET m == undo[u].month
      paid == {e \in EntriesOf(m) : Paid(e) /\ purchase[e[1]].price > 0}
  IN /\ undo[u] # Idle
     /\ ~Anchored(m) /\ Live(undo[u].pay)
     /\ purchase' = [p \in Purchases |-> Reopened(p, Of(p, paid))]
     /\ by' = Credited(paid, None)
     /\ payment' = [payment EXCEPT ![undo[u].pay].state = "GONE"]
     /\ undo' = [undo EXCEPT ![u] = Idle]
     /\ UNCHANGED <<ledger, liquidate>>

UndoRefused(u) ==
  /\ undo[u] # Idle
  /\ Anchored(undo[u].month) \/ ~Live(undo[u].pay)
  /\ undo' = [undo EXCEPT ![u] = Idle]
  /\ UNCHANGED <<purchase, payment, ledger, liquidate, by>>

Rows(x) == {r \in ledger : r.pay = x}
Drifted(r) ==
  \/ ~r.live
  \/ r.index \notin purchase[r.purchase].paid
  \/ purchase[r.purchase].price # r.amount
  \/ purchase[r.purchase].status = "LIQUIDATED"
Overlapped(r) == \E y \in Manual : Live(y) /\ payment[y].key = r.month

\* The undo of a bank statement reverts what its trail tells, or nothing.
UndoImport(x) ==
  LET entries == {<<r.purchase, r.index>> : r \in Rows(x)}
  IN /\ x \in Imported /\ Live(x)
     /\ Cardinality(Rows(x)) = payment[x].stamp
     /\ \A r \in Rows(x) : ~Drifted(r) /\ ~Overlapped(r)
     /\ purchase' = [p \in Purchases |-> Reopened(p, Of(p, entries))]
     /\ by' = Credited(entries, None)
     /\ ledger' = ledger \ Rows(x)
     /\ payment' = [payment EXCEPT ![x].state = "GONE", ![x].stamp = None]
     /\ UNCHANGED <<undo, liquidate>>

-----------------------------------------------------------------------------
EditPurchase(p) ==
  \/ \E i \in Indexes(p), paid \in BOOLEAN : SetParcelaStatus(p, i, paid)
  \/ \E whole \in BOOLEAN, price \in {Price[p], Price[p] + Rise} : Update(p, whole, price)
  \/ \E i \in Indexes(p), m \in Months : UpdateInstallmentDate(p, i, m)
  \/ RemovePurchase(p)

Next ==
  \/ ImportCardStatement
  \/ \E p \in Purchases : AddPurchase(p) \/ EditPurchase(p)
  \/ \E l \in Liquidations : PayPlannedCommit(l) \/ \E p \in Purchases : PayPlannedRead(l, p)
  \/ \E x \in Payments :
       \/ \E selected \in Months \cup {None} : PayInvoice(x, selected)
       \/ ImportStatement(x) \/ RemovePayment(x) \/ UndoImport(x)
  \/ \E u \in Undos : UndoCommit(u) \/ UndoRefused(u) \/ \E m \in Months : UndoRead(u, m)

Spec == Init /\ [][Next]_vars
-----------------------------------------------------------------------------
(* Properties *)

\* The types of the state; one row of the ledger per installment at most; and
\* a purchase that is paid as a whole does not list installments.
TypeOK ==
  /\ \A p \in Purchases : purchase[p] \in
       [status : {"ABSENT", "LIVE", "LIQUIDATED", "REMOVED"}, due : [Indexes(p) -> Months],
        price : {Price[p], Price[p] + Rise}, paid : SUBSET Indexes(p), whole : BOOLEAN,
        parts : SUBSET Indexes(p), clones : Nat]
  /\ \A p \in Purchases : purchase[p].parts # Indexes(p) /\ ~(purchase[p].whole /\ purchase[p].parts # {})
  /\ payment \in [Payments -> [state : {"NONE", "LIVE", "GONE"}, key : Months \cup {None}, stamp : Nat]]
  /\ \A r \in ledger : r.pay \in Imported /\ r.purchase \in Purchases /\ r.index \in Indexes(r.purchase)
  /\ \A r, s \in ledger : r # s => <<r.purchase, r.index>> # <<s.purchase, s.index>>
  /\ undo \in [Undos -> [month : Months \cup {None}, pay : Manual \cup {None}]]
  /\ liquidate \in [Liquidations -> SUBSET Purchases]
  /\ \A p \in Purchases : by[p] \in [Indexes(p) -> Payments \cup {None}]

\* The trail of an imported payment is complete and still describes the
\* installments as they are, so that the import can be undone, unless a
\* liquidation that had looked before replaced the purchase (the guards of
\* every edit: guardImportedInvoiceTrail; the checks: prepareRevertImportBatch).
TrailIsSound ==
  /\ \A x \in Imported : Live(x) => Cardinality(Rows(x)) = payment[x].stamp
  /\ \A r \in ledger : Live(r.pay) /\ (Drifted(r) => purchase[r.purchase].clones > 0)

\* Status and paid installments of the expense tell the same as its entries.
PurchaseAgrees == \A p \in Purchases :
  Entries(p) # {} => purchase[p].paid =
    (IF purchase[p].whole THEN Indexes(p) ELSE purchase[p].parts)

\* An installment that a payment with a key, or an imported one, marked as paid
\* and nobody touched since is not left paid when that payment is gone
\* (undoInvoicePayment, undoImport and what guardImportedInvoiceTrail protects).
PaidForAReason == \A p \in Purchases : \A i \in purchase[p].paid :
  by[p][i] # None =>
    Live(by[p][i]) \/ (by[p][i] \in Manual /\ payment[by[p][i]].key = None)

\* Of two undos that chose the same payment one reopens the invoice: an undo
\* that changes a purchase takes its payment away in the same step
\* (undoInvoicePayment: undone.count).
UndoesAreNotShared == [][\A u \in Undos :
  undo[u] # Idle /\ undo'[u] = Idle /\ purchase' # purchase =>
    Live(undo[u].pay) /\ payment'[undo[u].pay].state = "GONE"]_vars

\* The undo of an import reopens what its payment had paid, neither more nor less
\* (applyRevertImportedLiquidations).
ImportUndoIsExact == [][\A x \in Imported :
  Live(x) /\ ~Live(x)' => \A p \in Purchases :
    purchase'[p].paid = purchase[p].paid \ {i \in Indexes(p) : by[p][i] = x}]_vars

\* Installments are consistent and paid for a reason, in every order of payments,
\* undos, edits and removals.
InstallmentsAreSound == TypeOK /\ PurchaseAgrees /\ PaidForAReason

\* An undo takes back what its own payment did, and only one undo does.
UndoesAreExact == UndoesAreNotShared /\ ImportUndoIsExact
=============================================================================
