--------------------------- MODULE MCCardInvoices ---------------------------
(***************************************************************************)
(* A small card: A and B come from a statement of the card, C is entered   *)
(* by hand.  Payments 1 and 2 are registered by hand, 3 and 4 imported.    *)
(***************************************************************************)
EXTENDS CardInvoices

\* A: two installments of 10 from month 1; B and C: one of 2 in month 1.
TwoAndOne == [p \in Purchases |-> IF p = "A" THEN 2 ELSE 1]
AllFromOne == [p \in Purchases |-> 1]
Prices == [p \in Purchases |-> IF p = "A" THEN 10 ELSE 2]

\* Payments of 10 in month 1, but for the fourth, of the total of the statement.
Amounts == [x \in Payments |-> IF x = 4 THEN 12 ELSE 10]
InMonthOne == [x \in Payments |-> 1]
OwnPayload == [x \in Payments |-> x]

\* Not everything happens in one behaviour: what of the card a behaviour may use.
Used == {x \in Payments : payment[x].state # "NONE"}
Undoing == {u \in Undos : undo[u] # Idle}
Liquidating == \E p \in Purchases : purchase[p].clones > 0 \/ \E l \in Liquidations : p \in liquidate[l]
Entered == purchase["C"].status # "ABSENT"
Unedited == \A p \in Purchases : purchase[p].price = Price[p] /\ purchase[p].due = Blank(p).due

Case ==
  \/ Used \subseteq {1, 3} /\ Undoing \subseteq {1} /\ ~Liquidating /\ ~Entered
  \/ /\ Unedited
     /\ \/ Used \subseteq {1, 2} /\ ~Liquidating /\ ~Entered
        \/ Used \subseteq {1, 3, 4} /\ Undoing \subseteq {1} /\ ~Liquidating /\ ~Entered
        \/ Used \subseteq {1, 3} /\ Undoing = {} /\ ~(Liquidating /\ Entered)
=============================================================================
