---------------------- MODULE MCCrossProjectSettlement ----------------------
(* An instance of CrossProjectSettlement.  A, B and C are debits of the    *)
(* bank account, in the personal project; T and U are expenses of a        *)
(* renovation in two installments; V is one of another project.            *)
EXTENDS CrossProjectSettlement

Projects == [A |-> "personal", B |-> "personal", C |-> "personal",
             T |-> "renovation", U |-> "renovation", V |-> "car"]
ProjectOf == [e \in Expenses |-> Projects[e]]
PriceOf == [e \in Expenses |-> [A |-> 3, B |-> 2, C |-> 3, T |-> 3, U |-> 2, V |-> 2][e]]
CountOf == [e \in Expenses |-> IF e \in {"T", "U"} THEN 2 ELSE 1]

Fund(s, t, i, a) == [src |-> s, tgt |-> t, idx |-> i, amount |-> a]
Fundings == {Fund("A", "T", 0, 1), Fund("A", "T", 0, 3), Fund("B", "T", 0, 2), Fund("A", "U", 0, 2)}
Settle(s, t, i, v) == [src |-> s, tgt |-> t, idx |-> i, real |-> v]
ByBOrC == {Settle("B", "U", 1, 2), Settle("C", "U", 1, 3)}
Split(s, parts) == [src |-> s, parts |-> parts]
TwoSplits == {Split("A", [T |-> 1, U |-> 2]), Split("A", [U |-> 3]), Split("B", [T |-> 2])}

LinkBT == {<<"B", "T">>, <<"T", "A">>}
(* To keep the instance small a behaviour shares purchases out, or else    *)
(* funds, edits, toggles and settles: once a rateio exists no request has  *)
(* been sent, and a price is edited or an installment settled, not both.   *)
Unedited == \A e \in Expenses : expense[e].price = Price[e]
Case == /\ share # {} => funding = {}
        /\ legacy # {} /\ share = {} => Unedited
=============================================================================
