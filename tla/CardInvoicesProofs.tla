------------------------ MODULE CardInvoicesProofs -------------------------
(***************************************************************************)
(* Why installments agree with their expenses and are paid for a reason,   *)
(* why the trail of an imported payment stays true, and why an undo takes  *)
(* back what its payment did, for any number of purchases, payments and    *)
(* requests.                                                               *)
(***************************************************************************)
EXTENDS CardInvoices, FiniteSetTheorems, WellFoundedInduction, TLAPS

-----------------------------------------------------------------------------
(* Least numbers and finite sets *)

LEMMA LeastNumber ==
  ASSUME NEW S \in SUBSET Nat, S # {}
  PROVE  \E m \in S : \A n \in S : m <= n
<1> DEFINE T == {S \cap (0..n) : n \in S}
<1>1. T \subseteq FiniteSubsetsOf(S) /\ T # {}
  <2>1. ASSUME NEW n \in S PROVE IsFiniteSet(S \cap (0..n))
    <3>1. IsFiniteSet(0..n)
      BY FS_Interval
    <3>2. (S \cap (0..n)) \in SUBSET (0..n)
      OBVIOUS
    <3> QED BY <3>1, <3>2, FS_Subset
  <2> QED BY <2>1 DEF FiniteSubsetsOf
<1>2. IsWellFoundedOn(StrictSubsetOrdering(S), FiniteSubsetsOf(S))
  BY FS_StrictSubsetOrderingWellFounded
<1> HIDE DEF T
<1>3. PICK X \in T : \A Y \in T : ~ (<<Y, X>> \in StrictSubsetOrdering(S))
  BY <1>1, <1>2, WFMin
<1>4. PICK m \in S : X = S \cap (0..m)
  BY DEF T
<1>5. ASSUME NEW n \in S, n < m PROVE FALSE
  <2>1. S \cap (0..n) \in T
    BY DEF T
  <2>2. S \cap (0..n) \subseteq X /\ m \in X /\ m \notin S \cap (0..n)
    BY <1>4, <1>5
  <2>3. <<S \cap (0..n), X>> \in StrictSubsetOrdering(S)
    BY <2>2, <1>4 DEF StrictSubsetOrdering
  <2> QED BY <1>3, <2>1, <2>3
<1> QED BY <1>5

LEMMA FiniteImage ==
  ASSUME NEW S, IsFiniteSet(S), NEW f, DOMAIN f = S, f = [x \in S |-> f[x]]
  PROVE  IsFiniteSet({f[x] : x \in S})
<1> DEFINE T == {f[x] : x \in S}
<1>1. f \in Surjection(S, T)
  BY DEF Surjection
<1> QED BY <1>1, FS_Surjection

\* The places of all installments.
Places == UNION {{p} \X Indexes(p) : p \in Purchases}

LEMMA PlacesFinite == IsFiniteSet(Places)
<1> DEFINE f == [p \in Purchases |-> {p} \X Indexes(p)]
<1>1. IsFiniteSet({f[p] : p \in Purchases})
  <2>1. IsFiniteSet(Purchases)
    BY PaymentsAssumption
  <2>2. DOMAIN f = Purchases /\ f = [p \in Purchases |-> f[p]]
    OBVIOUS
  <2> HIDE DEF f
  <2> QED BY <2>1, <2>2, FiniteImage
<1>2. ASSUME NEW p \in Purchases PROVE IsFiniteSet(f[p])
  <2>1. IsFiniteSet({p})
    BY FS_Singleton
  <2>2. IsFiniteSet(Indexes(p))
    <3>1. Count[p] \in Nat
      BY PaymentsAssumption
    <3> QED BY <3>1, FS_Interval DEF Indexes
  <2> QED BY <2>1, <2>2, FS_Product
<1>3. IsFiniteSet(UNION {f[p] : p \in Purchases})
  <2> HIDE DEF f
  <2> QED BY <1>1, <1>2, FS_UNION
<1>4. {f[p] : p \in Purchases} = {{p} \X Indexes(p) : p \in Purchases}
  OBVIOUS
<1> QED BY <1>3, <1>4 DEF Places

LEMMA InPlaces == ASSUME NEW e \in Places
                  PROVE  e[1] \in Purchases /\ e[2] \in Indexes(e[1]) /\ e = <<e[1], e[2]>>
BY DEF Places

LEMMA IndexFacts ==
  ASSUME NEW p \in Purchases
  PROVE  /\ Indexes(p) \subseteq Nat /\ 0 \in Indexes(p)
         /\ Count[p] = 1 => Indexes(p) = {0}
         /\ Count[p] \in Nat
BY PaymentsAssumption DEF Indexes
-----------------------------------------------------------------------------
(* The inductive invariant *)

\* A purchase is well formed, and its entries are paid as its status says.
Sane(p, r) ==
  /\ r \in [status : {"ABSENT", "LIVE", "LIQUIDATED", "REMOVED"}, due : [Indexes(p) -> Months],
            price : {Price[p], Price[p] + Rise}, paid : SUBSET Indexes(p), whole : BOOLEAN,
            parts : SUBSET Indexes(p), clones : Nat]
  /\ r.parts # Indexes(p) /\ ~(r.whole /\ r.parts # {})
  /\ r.paid = IF r.status # "LIVE" THEN {} ELSE IF r.whole THEN Indexes(p) ELSE r.parts
  /\ r.status = "ABSENT" => ~r.whole /\ r.parts = {}

Typed ==
  /\ purchase = [p \in Purchases |-> purchase[p]]
  /\ payment \in [Payments -> [state : {"NONE", "LIVE", "GONE"}, key : Months \cup {None}, stamp : Nat]]
  /\ undo \in [Undos -> [month : Months \cup {None}, pay : Manual \cup {None}]]
  /\ liquidate \in [Liquidations -> SUBSET Purchases]
  /\ by = [p \in Purchases |-> by[p]]
  /\ \A p \in Purchases : by[p] \in [Indexes(p) -> Payments \cup {None}]

\* A statement of the card comes as a whole.
Purchased ==
  /\ \A p \in Purchases : Sane(p, purchase[p])
  /\ \A p, q \in Statement : purchase[p].status = "ABSENT" => purchase[q].status = "ABSENT"

Row == [pay : Imported, purchase : Purchases, index : Nat, live : BOOLEAN,
        month : Months, amount : Nat]

\* A row of the trail tells of an installment that its payment paid, as it is; it
\* dies only with the entries of a purchase that was liquidated.
Told(r) ==
  /\ Live(r.pay)
  /\ r.live => /\ purchase[r.purchase].status = "LIVE"
               /\ r.index \in purchase[r.purchase].paid
               /\ r.amount = purchase[r.purchase].price
               /\ by[r.purchase][r.index] = r.pay
  /\ ~r.live => /\ purchase[r.purchase].status = "LIQUIDATED"
                /\ purchase[r.purchase].clones > 0
Complete == \A x \in Imported : Live(x) => Cardinality(Rows(x)) = payment[x].stamp

Trail ==
  /\ IsFiniteSet(ledger) /\ ledger \subseteq Row
  /\ \A r \in ledger : r.index \in Indexes(r.purchase)
  /\ \A r, s \in ledger : r # s => <<r.purchase, r.index>> # <<s.purchase, s.index>>
  /\ \A r \in ledger : Told(r)
  /\ Complete

\* Only manual payments have a key, and it is the month of the undos that chose them.
Keyed ==
  /\ \A x \in Imported : payment[x].key = None
  /\ \A u \in Undos : undo[u] # Idle =>
       /\ undo[u].month \in Months /\ undo[u].pay \in Manual
       /\ payment[undo[u].pay].state # "NONE"
       /\ payment[undo[u].pay].key \in {None, undo[u].month}

\* What a payment with a key paid is on the invoice of its key, and what an imported
\* one paid is in its trail.
Credit(p, i) ==
  LET x == by[p][i]
  IN x # None =>
       /\ payment[x].state # "NONE"
       /\ payment[x].key # None => purchase[p].due[i] = payment[x].key
       /\ x \in Imported => \E r \in ledger : r.pay = x /\ r.purchase = p /\ r.index = i
       /\ Live(x) \/ (x \in Manual /\ payment[x].key = None)

Credits == \A p \in Purchases : \A i \in purchase[p].paid : Credit(p, i)

IInv == Typed /\ Purchased /\ Trail /\ Keyed /\ Credits

LEMMA InitInv == Init => IInv
<1> SUFFICES ASSUME Init PROVE IInv
  OBVIOUS
<1> USE DEF Init
<1>1. Typed
  <2>1. payment \in [Payments -> [state : {"NONE", "LIVE", "GONE"}, key : Months \cup {None}, stamp : Nat]]
    BY DEF None
  <2>2. \A p \in Purchases : by[p] \in [Indexes(p) -> Payments \cup {None}]
    BY DEF Nobody
  <2>3. undo \in [Undos -> [month : Months \cup {None}, pay : Manual \cup {None}]]
    BY DEF Idle
  <2> QED BY <2>1, <2>2, <2>3 DEF Typed
<1>2. Purchased
  <2>1. ASSUME NEW p \in Purchases PROVE Sane(p, Blank(p))
    <3>1. \A i \in Indexes(p) : FirstDue[p] + i \in Months
      BY PaymentsAssumption DEF Indexes
    <3>2. 0 \in Indexes(p)
      BY IndexFacts
    <3> QED BY <3>1, <3>2 DEF Blank, Sane
  <2>2. \A p \in Purchases : purchase[p].status = "ABSENT"
    BY DEF Blank
  <2> QED BY <2>1, <2>2, PaymentsAssumption DEF Purchased
<1>3. Trail
  <2>1. \A x \in Imported : ~Live(x)
    BY DEF Live, Payments
  <2> QED BY <2>1, FS_EmptySet DEF Trail, Told, Complete
<1>4. Keyed
  BY DEF Keyed, Payments
<1>5. Credits
  BY DEF Credits, Blank
<1> QED BY <1>1, <1>2, <1>3, <1>4, <1>5 DEF IInv

-----------------------------------------------------------------------------
(* What the operators of the model return *)

LEMMA PurchaseFacts ==
  ASSUME Purchased, NEW p \in Purchases
  PROVE  /\ purchase[p].due \in [Indexes(p) -> Months]
         /\ purchase[p].price \in Nat /\ purchase[p].price > 0
         /\ purchase[p].paid \subseteq Indexes(p)
         /\ purchase[p].clones \in Nat
         /\ purchase[p].status # "LIVE" => purchase[p].paid = {}
<1>1. Sane(p, purchase[p])
  BY DEF Purchased
<1>2. Price[p] \in Nat /\ Price[p] > 0 /\ Rise \in Nat
  BY PaymentsAssumption
<1> QED BY <1>1, <1>2 DEF Sane

\* The earliest installment of some is one of them.
LEMMA FirstIsOne ==
  ASSUME Purchased, NEW p \in Purchases, NEW A \in SUBSET Indexes(p), A # {}
  PROVE  First(p, A) \in A
<1> DEFINE due == purchase[p].due
<1>1. due \in [Indexes(p) -> Months] /\ Months \subseteq Nat /\ Indexes(p) \subseteq Nat
  BY PurchaseFacts, PaymentsAssumption, IndexFacts
<1> HIDE DEF due
<1>2. PICK m \in {due[i] : i \in A} : \A n \in {due[i] : i \in A} : m <= n
  <2> DEFINE S == {due[i] : i \in A}
  <2>1. S \in SUBSET Nat /\ S # {}
    BY <1>1
  <2> HIDE DEF S
  <2>2. \E m \in S : \A n \in S : m <= n
    BY <2>1, LeastNumber
  <2> QED BY <2>2 DEF S
<1>3. PICK k \in {i \in A : due[i] = m} : \A i \in {j \in A : due[j] = m} : k <= i
  <2> DEFINE S == {i \in A : due[i] = m}
  <2>1. S \in SUBSET Nat /\ S # {}
    BY <1>1, <1>2
  <2> HIDE DEF S
  <2>2. \E k \in S : \A i \in S : k <= i
    BY <2>1, LeastNumber
  <2> QED BY <2>2 DEF S
<1>4. ASSUME NEW j \in A PROVE due[k] < due[j] \/ (due[k] = due[j] /\ k <= j)
  <2>1. due[k] <= due[j] /\ due[k] \in Nat /\ due[j] \in Nat
    BY <1>1, <1>2, <1>3
  <2>2. due[j] = due[k] => k <= j
    BY <1>3
  <2> QED BY <2>1, <2>2
<1>5. \E i \in A : \A j \in A : due[i] < due[j] \/ (due[i] = due[j] /\ i <= j)
  BY <1>3, <1>4
<1> QED BY <1>5 DEF First, due

\* Installments that are planned: those a payment may still pay.
Open == {e \in Places : purchase[e[1]].status = "LIVE" /\ e[2] \notin purchase[e[1]].paid}

LEMMA FlipsAreOpen ==
  ASSUME Purchased, NEW x, NEW selected
  PROVE  Flips(x, selected) \subseteq Open
<1>1. ASSUME NEW m, NEW e \in Planned(m) PROVE e \in Open
  BY <1>1 DEF Planned, EntriesOf, Entries, Paid, Open, Places
<1>2. ASSUME NEW e \in EarliestPlanned PROVE e \in Open
  <2>1. PICK p \in Statement : /\ Entries(p) \ purchase[p].paid # {}
                               /\ e = <<p, First(p, Entries(p) \ purchase[p].paid)>>
    BY <1>2 DEF EarliestPlanned
  <2>2. p \in Purchases
    BY PaymentsAssumption
  <2>3. First(p, Entries(p) \ purchase[p].paid) \in Entries(p) \ purchase[p].paid
    BY <2>1, <2>2, FirstIsOne DEF Entries
  <2> QED BY <2>1, <2>2, <2>3 DEF Open, Places, Entries
<1> QED BY <1>1, <1>2 DEF Flips

LEMMA OpenSets ==
  ASSUME NEW flips \in SUBSET Open
  PROVE  /\ IsFiniteSet(flips)
         /\ flips \subseteq Places
         /\ \A p \in Purchases : /\ Of(p, flips) \subseteq Indexes(p)
                                 /\ Of(p, flips) = {i \in Indexes(p) : <<p, i>> \in flips}
         /\ \A p \in Purchases : \A i : <<p, i>> \in flips =>
              /\ purchase[p].status = "LIVE" /\ i \in Indexes(p)
              /\ i \notin purchase[p].paid
<1>1. flips \in SUBSET Places
  BY DEF Open
<1>2. IsFiniteSet(flips)
  BY <1>1, PlacesFinite, FS_Subset
<1>3. ASSUME NEW p \in Purchases
      PROVE  Of(p, flips) = {i \in Indexes(p) : <<p, i>> \in flips}
  BY <1>1, InPlaces DEF Of
<1> QED BY <1>1, <1>2, <1>3, InPlaces DEF Open

\* What is left of a purchase's fields when installments are marked.
Marked(p, r) ==
  /\ r.status = purchase[p].status /\ r.due = purchase[p].due
  /\ r.price = purchase[p].price /\ r.clones = purchase[p].clones

LEMMA SettledIs ==
  ASSUME NEW p \in Purchases, Sane(p, purchase[p]), NEW fs \in SUBSET Indexes(p),
         fs # {} => purchase[p].status = "LIVE"
  PROVE  /\ Sane(p, Settled(p, fs)) /\ Marked(p, Settled(p, fs))
         /\ Settled(p, fs).paid = purchase[p].paid \cup fs
<1>1. CASE fs = {}
  BY <1>1 DEF Settled, Marked
<1>2. CASE fs # {}
  <2> DEFINE r == purchase[p]
             known == (IF r.whole THEN Indexes(p) ELSE r.parts) \cup fs
             all == Count[p] = 1 \/ known = Indexes(p)
             q == Settled(p, fs)
  <2>1. q = [r EXCEPT !.paid = r.paid \cup fs, !.whole = all, !.parts = IF all THEN {} ELSE known]
    BY <1>2 DEF Settled
  <2>2. r.paid = IF r.whole THEN Indexes(p) ELSE r.parts
    BY <1>2 DEF Sane
  <2>3. /\ q.status = r.status /\ q.due = r.due /\ q.price = r.price /\ q.clones = r.clones
        /\ q.paid = known /\ q.whole = all /\ q.parts = IF all THEN {} ELSE known
    BY <2>1, <2>2 DEF Sane
  <2>4. q \in [status : {"ABSENT", "LIVE", "LIQUIDATED", "REMOVED"}, due : [Indexes(p) -> Months],
               price : {Price[p], Price[p] + Rise}, paid : SUBSET Indexes(p), whole : BOOLEAN,
               parts : SUBSET Indexes(p), clones : Nat]
    <3> DEFINE paid == r.paid \cup fs
               parts == IF all THEN {} ELSE known
    <3>1. r \in [status : {"ABSENT", "LIVE", "LIQUIDATED", "REMOVED"}, due : [Indexes(p) -> Months],
               price : {Price[p], Price[p] + Rise}, paid : SUBSET Indexes(p), whole : BOOLEAN,
               parts : SUBSET Indexes(p), clones : Nat]
      BY DEF Sane
    <3>2. paid \in SUBSET Indexes(p) /\ all \in BOOLEAN /\ parts \in SUBSET Indexes(p)
      BY <3>1
    <3>3. q = [r EXCEPT !.paid = paid, !.whole = all, !.parts = parts]
      BY <2>1
    <3> HIDE DEF r, paid, all, parts, q
    <3> QED BY <3>1, <3>2, <3>3
  <2>5. all => known = Indexes(p)
    BY <1>2, IndexFacts DEF Sane
  <2>6. Indexes(p) # {}
    BY IndexFacts
  <2> HIDE DEF known, all, q
  <2>7. Sane(p, q)
    BY <1>2, <2>3, <2>4, <2>5, <2>6 DEF Sane, all
  <2> QED BY <2>2, <2>3, <2>7 DEF Marked, known, q
<1> QED BY <1>1, <1>2

LEMMA ReopenedIs ==
  ASSUME NEW p \in Purchases, Sane(p, purchase[p]), NEW fs \in SUBSET Indexes(p),
         fs # {} => purchase[p].status = "LIVE"
  PROVE  /\ Sane(p, Reopened(p, fs)) /\ Marked(p, Reopened(p, fs))
         /\ Reopened(p, fs).paid = purchase[p].paid \ fs
<1>1. CASE fs = {}
  BY <1>1 DEF Reopened, Marked
<1>2. CASE fs # {}
  <2> DEFINE r == purchase[p]
             left == r.paid \ fs
             all == left = Indexes(p)
             q == Reopened(p, fs)
  <2>1. q = [r EXCEPT !.paid = left, !.whole = Count[p] > 1 /\ all,
                      !.parts = IF Count[p] = 1 \/ all THEN {} ELSE left]
    BY <1>2 DEF Reopened
  <2>2. ~all /\ (Count[p] = 1 => left = {})
    BY <1>2, IndexFacts DEF Sane
  <2>3. /\ q.status = r.status /\ q.due = r.due /\ q.price = r.price /\ q.clones = r.clones
        /\ q.paid = left /\ q.whole = FALSE /\ q.parts = left
    BY <2>1, <2>2 DEF Sane
  <2>4. q \in [status : {"ABSENT", "LIVE", "LIQUIDATED", "REMOVED"}, due : [Indexes(p) -> Months],
               price : {Price[p], Price[p] + Rise}, paid : SUBSET Indexes(p), whole : BOOLEAN,
               parts : SUBSET Indexes(p), clones : Nat]
    <3>1. r \in [status : {"ABSENT", "LIVE", "LIQUIDATED", "REMOVED"}, due : [Indexes(p) -> Months],
               price : {Price[p], Price[p] + Rise}, paid : SUBSET Indexes(p), whole : BOOLEAN,
               parts : SUBSET Indexes(p), clones : Nat]
      BY DEF Sane
    <3>2. left \in SUBSET Indexes(p)
      BY <3>1
    <3>3. q = [r EXCEPT !.paid = left, !.whole = FALSE, !.parts = left]
      BY <2>1, <2>2
    <3> HIDE DEF r, left, q
    <3> QED BY <3>1, <3>2, <3>3
  <2> HIDE DEF left, q
  <2>5. Sane(p, q)
    BY <1>2, <2>2, <2>3, <2>4 DEF Sane
  <2> QED BY <2>3, <2>5 DEF Marked, left, q
<1> QED BY <1>1, <1>2

-----------------------------------------------------------------------------
(* Edits of purchases: none where a trail tells of one *)

\* What every edit leaves: rows of the trail keep their purchase, and an installment
\* keeps its payment only if nothing else about it changed.
Edited ==
  /\ purchase' = [p \in Purchases |-> purchase'[p]]
  /\ by' = [p \in Purchases |-> by'[p]]
  /\ \A p \in Purchases : Sane(p, purchase'[p])
  /\ \A p \in Purchases : by'[p] \in [Indexes(p) -> Payments \cup {None}]
  /\ \A p \in Purchases : Claimed(p) => purchase'[p] = purchase[p] /\ by'[p] = by[p]
  /\ \A p \in Purchases : \A i \in purchase'[p].paid : by'[p][i] # None =>
       /\ by'[p][i] = by[p][i] /\ i \in purchase[p].paid
       /\ purchase'[p].due[i] = purchase[p].due[i]
  /\ \A p \in Purchases : purchase'[p].status = "ABSENT" => purchase[p].status = "ABSENT"
  /\ \A p, q \in Statement : purchase'[p].status = "ABSENT" => purchase'[q].status = "ABSENT"
  /\ liquidate' \in [Liquidations -> SUBSET Purchases]
  /\ UNCHANGED <<payment, ledger, undo>>

LEMMA EditsKeep == ASSUME IInv, Edited PROVE IInv'
<1> USE DEF Edited
<1>1. Typed'
  BY DEF IInv, Typed
<1>2. Purchased'
  BY DEF Purchased
<1>3. Trail'
  <2>1. ASSUME NEW r \in ledger PROVE Told(r)'
    <3>1. r.purchase \in Purchases /\ Claimed(r.purchase) /\ Told(r)
      BY DEF IInv, Trail, Row, Claimed
    <3>2. purchase'[r.purchase] = purchase[r.purchase] /\ by'[r.purchase] = by[r.purchase]
      BY <3>1
    <3> QED BY <3>1, <3>2 DEF Told, Live
  <2>2. Complete'
    BY DEF IInv, Trail, Complete, Live, Rows
  <2> QED BY <2>1, <2>2 DEF IInv, Trail
<1>4. Keyed'
  BY DEF IInv, Keyed
<1>5. Credits'
  BY DEF IInv, Credits, Credit, Live
<1> QED BY <1>1, <1>2, <1>3, <1>4, <1>5 DEF IInv

\* Entries that no row tells of are replaced without a trace.
LEMMA RebuiltUnclaimed ==
  ASSUME IInv, NEW p \in Purchases, NEW r, ~Claimed(p), Rebuilt(p, r)
  PROVE  /\ ledger' = ledger
         /\ purchase' = [purchase EXCEPT ![p] = [r EXCEPT !.paid =
              IF r.status # "LIVE" THEN {} ELSE IF r.whole THEN Indexes(p) ELSE r.parts]]
<1>1. ASSUME NEW row \in ledger PROVE [row EXCEPT !.live = row.live /\ row.purchase # p] = row
  <2>1. row \in Row /\ row.purchase # p
    BY DEF IInv, Trail, Claimed
  <2> QED BY <2>1 DEF Row
<1>2. ledger' = {[row EXCEPT !.live = row.live /\ row.purchase # p] : row \in ledger}
  BY DEF Rebuilt
<1>3. ledger' = ledger
  BY <1>1, <1>2
<1> QED BY <1>3 DEF Rebuilt

\* An edit of one purchase is one of those.
LEMMA OneEdit ==
  ASSUME IInv, NEW p \in Purchases, ~Claimed(p), NEW q, NEW b,
         purchase' = [purchase EXCEPT ![p] = q], by' = [by EXCEPT ![p] = b],
         Sane(p, q), b \in [Indexes(p) -> Payments \cup {None}],
         \A i \in q.paid : b[i] # None =>
           b[i] = by[p][i] /\ i \in purchase[p].paid /\ q.due[i] = purchase[p].due[i],
         q.status # "ABSENT",
         p \in Statement => purchase[p].status # "ABSENT",
         UNCHANGED <<payment, ledger, undo, liquidate>>
  PROVE  IInv'
<1>1. purchase'[p] = q /\ by'[p] = b
  BY DEF IInv, Typed
<1>2. \A s \in Purchases : s # p => purchase'[s] = purchase[s] /\ by'[s] = by[s]
  BY DEF IInv, Typed
<1>3. purchase' = [s \in Purchases |-> purchase'[s]] /\ by' = [s \in Purchases |-> by'[s]]
  BY DEF IInv, Typed
<1>4. \A s \in Purchases : Sane(s, purchase'[s])
  BY <1>1, <1>2 DEF IInv, Purchased
<1>5. \A s \in Purchases : by'[s] \in [Indexes(s) -> Payments \cup {None}]
  BY <1>1, <1>2 DEF IInv, Typed
<1>6. \A s, v \in Statement : purchase'[s].status = "ABSENT" => purchase'[v].status = "ABSENT"
  BY <1>1, <1>2, PaymentsAssumption DEF IInv, Purchased
<1>7. \A s \in Purchases : \A i \in purchase'[s].paid : by'[s][i] # None =>
       /\ by'[s][i] = by[s][i] /\ i \in purchase[s].paid
       /\ purchase'[s].due[i] = purchase[s].due[i]
  BY <1>1, <1>2
<1>8. Edited
  BY <1>1, <1>2, <1>3, <1>4, <1>5, <1>6, <1>7 DEF Edited, IInv, Typed
<1> QED BY <1>8, EditsKeep

LEMMA AddKeeps == ASSUME IInv, NEW p \in Purchases, AddPurchase(p) PROVE IInv'
<1> DEFINE q == [purchase[p] EXCEPT !.status = "LIVE"]
<1> USE DEF AddPurchase
<1>1. Sane(p, purchase[p]) /\ purchase[p].status = "ABSENT"
  BY DEF IInv, Purchased
<1>2. purchase[p].paid = {} /\ ~purchase[p].whole /\ purchase[p].parts = {}
  BY <1>1 DEF Sane
<1>3. Sane(p, q) /\ q.paid = {} /\ q.status = "LIVE"
  BY <1>1, <1>2 DEF Sane
<1>4. ~Claimed(p)
  BY <1>1 DEF Claimed, IInv, Trail, Told
<1>5. purchase' = [purchase EXCEPT ![p] = q] /\ by' = [by EXCEPT ![p] = by[p]]
  BY DEF IInv, Typed
<1>6. by[p] \in [Indexes(p) -> Payments \cup {None}]
  BY DEF IInv, Typed
<1> HIDE DEF q
<1> QED BY <1>3, <1>4, <1>5, <1>6, OneEdit

LEMMA StatementKeeps == ASSUME IInv, ImportCardStatement PROVE IInv'
<1> USE DEF ImportCardStatement
<1>1. \A p \in Statement : p \in Purchases /\ purchase[p].status = "ABSENT"
  BY PaymentsAssumption DEF IInv, Purchased
<1>2. ASSUME NEW p \in Purchases
      PROVE  Sane(p, purchase'[p]) /\ purchase'[p].paid = purchase[p].paid
             /\ purchase'[p].due = purchase[p].due
  <2>1. Sane(p, purchase[p])
    BY DEF IInv, Purchased
  <2>2. CASE p \in Statement
    <3>1. purchase'[p] = [purchase[p] EXCEPT !.status = "LIVE"]
      BY <2>2
    <3> QED BY <1>1, <2>1, <2>2, <3>1 DEF Sane
  <2>3. CASE p \notin Statement
    BY <2>1, <2>3
  <2> QED BY <2>2, <2>3
<1>3. ASSUME NEW p \in Purchases, Claimed(p) PROVE purchase'[p] = purchase[p]
  <2>1. p \notin Statement
    BY <1>1, <1>3 DEF Claimed, IInv, Trail, Told
  <2> QED BY <2>1
<1>4. \A p \in Statement : purchase'[p].status = "LIVE"
  <2>1. ASSUME NEW p \in Statement PROVE purchase'[p].status = "LIVE"
    <3>1. Sane(p, purchase[p])
      BY <1>1 DEF IInv, Purchased
    <3>2. purchase'[p] = [purchase[p] EXCEPT !.status = "LIVE"]
      BY <1>1
    <3> QED BY <3>1, <3>2 DEF Sane
  <2> QED BY <2>1
<1>5. \A p \in Purchases : purchase'[p].status = "ABSENT" => purchase[p].status = "ABSENT"
  BY <1>4
<1>6. Edited
  BY <1>2, <1>3, <1>4, <1>5 DEF Edited, IInv, Typed
<1> QED BY <1>6, EditsKeep

LEMMA ToggleKeeps ==
  ASSUME IInv, NEW p \in Purchases, NEW i \in Indexes(p), NEW paid \in BOOLEAN,
         SetParcelaStatus(p, i, paid)
  PROVE  IInv'
<1> DEFINE r == purchase[p]
           base == IF r.whole THEN Indexes(p) ELSE r.parts
           next == IF paid THEN base \cup {i} ELSE base \ {i}
           all == next = Indexes(p)
           new == [r EXCEPT !.whole = all, !.parts = IF all THEN {} ELSE next]
           q == [new EXCEPT !.paid = IF new.status # "LIVE" THEN {}
                   ELSE IF new.whole THEN Indexes(p) ELSE new.parts]
           b == [by[p] EXCEPT ![i] = None]
<1>1. r.status = "LIVE" /\ ~Claimed(p) /\ Rebuilt(p, new) /\ by' = [by EXCEPT ![p] = b]
      /\ UNCHANGED <<payment, undo, liquidate>>
  BY DEF SetParcelaStatus
<1>2. Sane(p, r)
  BY DEF IInv, Purchased
<1>3. next \subseteq Indexes(p) /\ Indexes(p) # {} /\ r.paid = base
  BY <1>1, <1>2, IndexFacts DEF Sane
<1>4. Sane(p, q) /\ q.paid = next /\ q.status = "LIVE" /\ q.due = r.due
  <2> HIDE DEF next
  <2> QED BY <1>1, <1>2, <1>3 DEF Sane
<1>5. b \in [Indexes(p) -> Payments \cup {None}]
  BY DEF IInv, Typed
<1>6. \A j \in q.paid : b[j] # None => b[j] = by[p][j] /\ j \in r.paid /\ q.due[j] = r.due[j]
  <2>1. by[p] \in [Indexes(p) -> Payments \cup {None}]
    BY DEF IInv, Typed
  <2> HIDE DEF q
  <2> QED BY <1>3, <1>4, <2>1
<1>7. ledger' = ledger /\ purchase' = [purchase EXCEPT ![p] = q]
  <2> HIDE DEF new
  <2>1. ledger' = ledger /\ purchase' = [purchase EXCEPT ![p] = [new EXCEPT !.paid =
          IF new.status # "LIVE" THEN {} ELSE IF new.whole THEN Indexes(p) ELSE new.parts]]
    BY <1>1, RebuiltUnclaimed
  <2> QED BY <2>1
<1> HIDE DEF q, b
<1> QED BY <1>1, <1>4, <1>5, <1>6, <1>7, OneEdit DEF r

LEMMA UpdateKeeps ==
  ASSUME IInv, NEW p \in Purchases, NEW whole \in BOOLEAN,
         NEW price \in {Price[p], Price[p] + Rise}, Update(p, whole, price)
  PROVE  IInv'
<1> DEFINE r == purchase[p]
           new == [r EXCEPT !.whole = whole, !.price = price, !.parts = {}]
           q == [new EXCEPT !.paid = IF new.status # "LIVE" THEN {}
                   ELSE IF new.whole THEN Indexes(p) ELSE new.parts]
           b == IF whole /\ r.whole THEN by[p] ELSE Nobody(p)
<1>1. /\ r.status \in {"LIVE", "LIQUIDATED"} /\ ~Claimed(p) /\ Rebuilt(p, new)
      /\ by' = [by EXCEPT ![p] = b] /\ UNCHANGED <<payment, undo, liquidate>>
  BY DEF Update
<1>2. Sane(p, r) /\ Indexes(p) # {}
  BY IndexFacts DEF IInv, Purchased
<1>3. /\ Sane(p, q) /\ q.status = r.status /\ q.due = r.due
      /\ q.paid = IF r.status = "LIVE" /\ whole THEN Indexes(p) ELSE {}
  BY <1>1, <1>2 DEF Sane
<1>4. b \in [Indexes(p) -> Payments \cup {None}]
  BY DEF IInv, Typed, Nobody
<1>5. \A j \in q.paid : b[j] # None => b[j] = by[p][j] /\ j \in r.paid /\ q.due[j] = r.due[j]
  <2> HIDE DEF q
  <2> QED BY <1>2, <1>3 DEF Sane, Nobody
<1>6. ledger' = ledger /\ purchase' = [purchase EXCEPT ![p] = q]
  <2> HIDE DEF new
  <2>1. ledger' = ledger /\ purchase' = [purchase EXCEPT ![p] = [new EXCEPT !.paid =
          IF new.status # "LIVE" THEN {} ELSE IF new.whole THEN Indexes(p) ELSE new.parts]]
    BY <1>1, RebuiltUnclaimed
  <2> QED BY <2>1
<1> HIDE DEF q, b
<1> QED BY <1>1, <1>3, <1>4, <1>5, <1>6, OneEdit DEF r

LEMMA DateKeeps ==
  ASSUME IInv, NEW p \in Purchases, NEW i \in Indexes(p), NEW m \in Months,
         UpdateInstallmentDate(p, i, m)
  PROVE  IInv'
<1> DEFINE r == purchase[p]
           due == [r.due EXCEPT ![i] = m]
           new == [r EXCEPT !.due = due]
           q == [new EXCEPT !.paid = IF new.status # "LIVE" THEN {}
                   ELSE IF new.whole THEN Indexes(p) ELSE new.parts]
           b == [by[p] EXCEPT ![i] = None]
<1>1. Sane(p, r) /\ Indexes(p) # {} /\ r.due \in [Indexes(p) -> Months]
  BY IndexFacts DEF IInv, Purchased, Sane
<1>2. /\ r.status \in {"LIVE", "LIQUIDATED"} /\ ~Claimed(p) /\ Rebuilt(p, new)
      /\ by' = [by EXCEPT ![p] = b] /\ UNCHANGED <<payment, undo, liquidate>>
  BY <1>1 DEF UpdateInstallmentDate
<1>3. due \in [Indexes(p) -> Months] /\ \A j \in Indexes(p) : j # i => due[j] = r.due[j]
  BY <1>1
<1>4. Sane(p, q) /\ q.status = r.status /\ q.due = due /\ q.paid = r.paid
  <2> HIDE DEF due
  <2> QED BY <1>1, <1>2, <1>3 DEF Sane
<1>5. by[p] \in [Indexes(p) -> Payments \cup {None}]
  BY DEF IInv, Typed
<1>6. b \in [Indexes(p) -> Payments \cup {None}]
  BY <1>5
<1>7. \A j \in q.paid : b[j] # None => b[j] = by[p][j] /\ j \in r.paid /\ q.due[j] = r.due[j]
  <2>1. r.paid \subseteq Indexes(p)
    BY <1>1 DEF Sane
  <2> HIDE DEF q, due
  <2> QED BY <1>3, <1>4, <1>5, <2>1
<1>8. ledger' = ledger /\ purchase' = [purchase EXCEPT ![p] = q]
  <2> HIDE DEF new
  <2>1. ledger' = ledger /\ purchase' = [purchase EXCEPT ![p] = [new EXCEPT !.paid =
          IF new.status # "LIVE" THEN {} ELSE IF new.whole THEN Indexes(p) ELSE new.parts]]
    BY <1>2, RebuiltUnclaimed
  <2> QED BY <2>1
<1> HIDE DEF q, b
<1> QED BY <1>2, <1>4, <1>6, <1>7, <1>8, OneEdit DEF r

LEMMA RemoveKeeps == ASSUME IInv, NEW p \in Purchases, RemovePurchase(p) PROVE IInv'
<1> DEFINE r == purchase[p]
           new == [r EXCEPT !.status = "REMOVED"]
           q == [new EXCEPT !.paid = IF new.status # "LIVE" THEN {}
                   ELSE IF new.whole THEN Indexes(p) ELSE new.parts]
<1>1. /\ r.status \in {"LIVE", "LIQUIDATED"} /\ ~Claimed(p) /\ Rebuilt(p, new)
      /\ by' = [by EXCEPT ![p] = by[p]] /\ UNCHANGED <<payment, undo, liquidate>>
  BY DEF RemovePurchase, IInv, Typed
<1>2. Sane(p, r)
  BY DEF IInv, Purchased
<1>3. Sane(p, q) /\ q.status = "REMOVED" /\ q.paid = {}
  BY <1>2 DEF Sane
<1>4. ledger' = ledger /\ purchase' = [purchase EXCEPT ![p] = q]
  <2> HIDE DEF new
  <2>1. ledger' = ledger /\ purchase' = [purchase EXCEPT ![p] = [new EXCEPT !.paid =
          IF new.status # "LIVE" THEN {} ELSE IF new.whole THEN Indexes(p) ELSE new.parts]]
    BY <1>1, RebuiltUnclaimed
  <2> QED BY <2>1
<1>5. by[p] \in [Indexes(p) -> Payments \cup {None}]
  BY DEF IInv, Typed
<1> HIDE DEF q
<1> QED BY <1>1, <1>3, <1>4, <1>5, OneEdit DEF r

LEMMA EditKeeps == ASSUME IInv, NEW p \in Purchases, EditPurchase(p) PROVE IInv'
BY ToggleKeeps, UpdateKeeps, DateKeeps, RemoveKeeps DEF EditPurchase

-----------------------------------------------------------------------------
(* A liquidation that had looked before: rows of the trail die *)

LEMMA ReadKeeps ==
  ASSUME IInv, NEW l \in Liquidations, NEW p \in Purchases, PayPlannedRead(l, p)
  PROVE  IInv'
<1>1. liquidate' \in [Liquidations -> SUBSET Purchases]
  BY DEF PayPlannedRead, IInv, Typed
<1>2. UNCHANGED <<purchase, payment, ledger, undo, by>>
  BY DEF PayPlannedRead
<1>3. Edited
  BY <1>1, <1>2 DEF Edited, IInv, Typed, Purchased
<1> QED BY <1>3, EditsKeep

Dying(p) == ledger' = {[row EXCEPT !.live = row.live /\ row.purchase # p] : row \in ledger}

\* The rows of a payment keep their number when some of them die.
LEMMA RowsDie ==
  ASSUME IInv, NEW p, Dying(p)
  PROVE  /\ IsFiniteSet(ledger') /\ ledger' \subseteq Row
         /\ \A r \in ledger' : \E s \in ledger :
              /\ r.pay = s.pay /\ r.purchase = s.purchase /\ r.index = s.index
              /\ r.amount = s.amount /\ r.live = (s.live /\ s.purchase # p)
         /\ \A s \in ledger : \E r \in ledger' :
              r.pay = s.pay /\ r.purchase = s.purchase /\ r.index = s.index
         /\ \A r, s \in ledger' : r # s => <<r.purchase, r.index>> # <<s.purchase, s.index>>
         /\ \A x : Cardinality(Rows(x)') = Cardinality(Rows(x))
<1> DEFINE f == [row \in ledger |-> [row EXCEPT !.live = row.live /\ row.purchase # p]]
<1>1. ASSUME NEW s \in ledger
      PROVE  /\ f[s] \in Row /\ f[s].pay = s.pay /\ f[s].purchase = s.purchase
             /\ f[s].index = s.index /\ f[s].amount = s.amount
             /\ f[s].live = (s.live /\ s.purchase # p)
  <2>1. s \in Row
    BY DEF IInv, Trail
  <2> QED BY <2>1 DEF Row
<1>2. ledger' = {f[s] : s \in ledger} /\ DOMAIN f = ledger /\ f = [s \in ledger |-> f[s]]
  BY DEF Dying
<1> HIDE DEF f
<1>3. IsFiniteSet(ledger')
  BY <1>2, FiniteImage DEF IInv, Trail
<1>4. \A r, s \in ledger : r # s => <<f[r].purchase, f[r].index>> # <<f[s].purchase, f[s].index>>
  BY <1>1 DEF IInv, Trail
<1>5. ASSUME NEW x PROVE Cardinality(Rows(x)') = Cardinality(Rows(x))
  <2> DEFINE g == [s \in Rows(x) |-> f[s]]
  <2>1. Rows(x)' = {f[s] : s \in Rows(x)}
    BY <1>1, <1>2 DEF Rows
  <2>2. g \in Bijection(Rows(x), Rows(x)')
    <3>1. g \in Surjection(Rows(x), Rows(x)')
      BY <2>1 DEF Surjection
    <3>2. \A r, s \in Rows(x) : r # s => g[r] # g[s]
      BY <1>4 DEF Rows
    <3> QED BY <3>1, <3>2 DEF Bijection, Injection, IsInjective, Surjection
  <2>3. IsFiniteSet(Rows(x))
    <3>1. Rows(x) \in SUBSET ledger
      BY DEF Rows
    <3> QED BY <3>1, FS_Subset DEF IInv, Trail
  <2> QED BY <2>2, <2>3, FS_Bijection DEF ExistsBijection
<1> QED BY <1>1, <1>2, <1>3, <1>4, <1>5

LEMMA LiquidateKeeps == ASSUME IInv, NEW l \in Liquidations, PayPlannedCommit(l) PROVE IInv'
<1>1. PICK p \in liquidate[l] :
        Rebuilt(p, [purchase[p] EXCEPT !.clones = purchase[p].clones + 1,
          !.status = IF purchase[p].status = "LIVE" THEN "LIQUIDATED" ELSE purchase[p].status])
  BY DEF PayPlannedCommit
<1> DEFINE r == purchase[p]
           new == [r EXCEPT !.clones = r.clones + 1,
                    !.status = IF r.status = "LIVE" THEN "LIQUIDATED" ELSE r.status]
           q == [new EXCEPT !.paid = IF new.status # "LIVE" THEN {}
                   ELSE IF new.whole THEN Indexes(p) ELSE new.parts]
<1>2. p \in Purchases /\ Sane(p, r)
  BY DEF IInv, Typed, Purchased
<1>3. Rebuilt(p, new) /\ UNCHANGED <<payment, undo, by>>
  BY <1>1 DEF PayPlannedCommit
<1>4. /\ Sane(p, q) /\ q.paid = {} /\ q.clones > 0
      /\ q.status = IF r.status = "LIVE" THEN "LIQUIDATED" ELSE r.status
  <2>1. /\ new \in [status : {"ABSENT", "LIQUIDATED", "REMOVED"}, due : [Indexes(p) -> Months],
            price : {Price[p], Price[p] + Rise}, paid : SUBSET Indexes(p), whole : BOOLEAN,
            parts : SUBSET Indexes(p), clones : Nat]
        /\ new.status = IF r.status = "LIVE" THEN "LIQUIDATED" ELSE r.status
        /\ new.parts = r.parts /\ new.whole = r.whole /\ new.clones > 0
    <3> DEFINE st == IF r.status = "LIVE" THEN "LIQUIDATED" ELSE r.status
               n == r.clones + 1
    <3>1. r \in [status : {"ABSENT", "LIVE", "LIQUIDATED", "REMOVED"}, due : [Indexes(p) -> Months],
            price : {Price[p], Price[p] + Rise}, paid : SUBSET Indexes(p), whole : BOOLEAN,
            parts : SUBSET Indexes(p), clones : Nat]
      BY <1>2 DEF Sane
    <3>2. st \in {"ABSENT", "LIQUIDATED", "REMOVED"} /\ n \in Nat /\ n > 0
      BY <3>1
    <3>3. new = [r EXCEPT !.clones = n, !.status = st]
      OBVIOUS
    <3> HIDE DEF st, n, new
    <3>4. /\ new \in [status : {"ABSENT", "LIQUIDATED", "REMOVED"}, due : [Indexes(p) -> Months],
               price : {Price[p], Price[p] + Rise}, paid : SUBSET Indexes(p), whole : BOOLEAN,
               parts : SUBSET Indexes(p), clones : Nat]
          /\ new.status = st /\ new.parts = r.parts /\ new.whole = r.whole /\ new.clones = n
      BY <3>1, <3>2, <3>3
    <3> QED BY <3>2, <3>4 DEF st
  <2> HIDE DEF new
  <2>2. q = [new EXCEPT !.paid = {}]
    BY <2>1
  <2> HIDE DEF q
  <2>3. Sane(p, q)
    BY <1>2, <2>1, <2>2 DEF Sane
  <2> QED BY <2>1, <2>2, <2>3
<1>5. purchase' = [purchase EXCEPT ![p] = q] /\ Dying(p)
  BY <1>3 DEF Rebuilt, Dying
<1> HIDE DEF q
<1>6. purchase'[p] = q /\ \A s \in Purchases : s # p => purchase'[s] = purchase[s]
  BY <1>2, <1>5 DEF IInv, Typed
<1>7. Typed'
  <2>1. liquidate' \in [Liquidations -> SUBSET Purchases]
    BY DEF PayPlannedCommit, IInv, Typed
  <2>2. purchase' = [s \in Purchases |-> purchase'[s]]
    BY <1>5 DEF IInv, Typed
  <2> QED BY <1>3, <2>1, <2>2 DEF IInv, Typed
<1>8. Purchased'
  <2>1. \A s \in Purchases : Sane(s, purchase'[s])
    BY <1>4, <1>6 DEF IInv, Purchased
  <2>2. \A s \in Purchases : purchase'[s].status = "ABSENT" <=> purchase[s].status = "ABSENT"
    BY <1>4, <1>6
  <2> QED BY <2>1, <2>2, PaymentsAssumption DEF IInv, Purchased
<1>9. Trail'
  <2>1. ASSUME NEW row \in ledger' PROVE Told(row)'
    <3>1. PICK s \in ledger :
              /\ row.pay = s.pay /\ row.purchase = s.purchase /\ row.index = s.index
              /\ row.amount = s.amount /\ row.live = (s.live /\ s.purchase # p)
      BY <1>5, RowsDie
    <3>2. Told(s) /\ s.purchase \in Purchases /\ Live(row.pay)'
      BY <1>3, <3>1 DEF IInv, Trail, Told, Row, Live
    <3>3. CASE s.purchase = p
      BY <1>4, <1>6, <3>1, <3>2, <3>3 DEF Told
    <3>4. CASE s.purchase # p
      BY <1>3, <1>6, <3>1, <3>2, <3>4 DEF Told
    <3> QED BY <3>3, <3>4
  <2>2. ASSUME NEW row \in ledger' PROVE row.index \in Indexes(row.purchase)
    BY <1>5, RowsDie DEF IInv, Trail
  <2>3. Complete'
    BY <1>3, <1>5, RowsDie DEF IInv, Trail, Complete, Live
  <2>4. /\ IsFiniteSet(ledger') /\ ledger' \subseteq Row
        /\ \A s, v \in ledger' : s # v => <<s.purchase, s.index>> # <<v.purchase, v.index>>
    BY <1>5, RowsDie
  <2> QED BY <2>1, <2>2, <2>3, <2>4 DEF Trail
<1>10. Keyed'
  BY <1>3 DEF IInv, Keyed
<1>11. Credits'
  <2> SUFFICES ASSUME NEW s \in Purchases, NEW i \in purchase'[s].paid PROVE Credit(s, i)'
    BY DEF Credits
  <2>1. s # p /\ purchase'[s] = purchase[s]
    BY <1>4, <1>6
  <2>2. Credit(s, i)
    BY <2>1 DEF IInv, Credits
  <2>3. \A v \in ledger : \E row \in ledger' :
              row.pay = v.pay /\ row.purchase = v.purchase /\ row.index = v.index
    BY <1>5, RowsDie
  <2> QED BY <1>3, <2>1, <2>2, <2>3 DEF Credit, Live
<1> QED BY <1>7, <1>8, <1>9, <1>10, <1>11 DEF IInv

-----------------------------------------------------------------------------
(* Payments *)

\* Payment x marks planned installments as paid, with rows that tell of them.
Pays(x, flips, rec, rows) ==
  /\ payment' = [payment EXCEPT ![x] = rec]
  /\ purchase' = [p \in Purchases |-> Settled(p, Of(p, flips))]
  /\ by' = Credited(flips, x)
  /\ ledger' = ledger \cup rows
  /\ UNCHANGED <<undo, liquidate>>

\* What a payment may say of the installments it marks.
Honest(x, flips, rec, rows) ==
  /\ rec \in [state : {"LIVE"}, key : Months \cup {None}, stamp : Nat]
  /\ rec.key # None => x \in Manual /\ \A e \in flips : purchase[e[1]].due[e[2]] = rec.key
  /\ IsFiniteSet(rows) /\ rows \subseteq Row
  /\ \A r \in rows : /\ r.pay = x /\ x \in Imported /\ r.live
                     /\ <<r.purchase, r.index>> \in flips
                     /\ r.amount = purchase[r.purchase].price
  /\ \A r, s \in rows : r # s => <<r.purchase, r.index>> # <<s.purchase, s.index>>
  /\ x \in Imported => /\ \A e \in flips : \E r \in rows : r.purchase = e[1] /\ r.index = e[2]
                       /\ Cardinality(rows) = rec.stamp

LEMMA CreditedIs ==
  ASSUME Typed, NEW entries, NEW x, by' = Credited(entries, x)
  PROVE  /\ by' = [p \in Purchases |-> by'[p]]
         /\ \A p \in Purchases : by'[p] = [i \in Indexes(p) |-> IF <<p, i>> \in entries THEN x ELSE by[p][i]]
         /\ x \in Payments \cup {None} =>
              \A p \in Purchases : by'[p] \in [Indexes(p) -> Payments \cup {None}]
BY DEF Credited, Typed

LEMMA PaysKeep ==
  ASSUME IInv, NEW x \in Payments, payment[x].state = "NONE", NEW flips \in SUBSET Open,
         NEW rec, NEW rows, Honest(x, flips, rec, rows), Pays(x, flips, rec, rows)
  PROVE  IInv'
<1>1. /\ payment'[x] = rec
      /\ \A y \in Payments : y # x => payment'[y] = payment[y]
      /\ payment' \in [Payments -> [state : {"NONE", "LIVE", "GONE"}, key : Months \cup {None}, stamp : Nat]]
  BY DEF Pays, Honest, IInv, Typed
<1>2. ASSUME NEW p \in Purchases
      PROVE  /\ Sane(p, purchase'[p]) /\ Marked(p, purchase'[p])
             /\ purchase'[p].paid = purchase[p].paid \cup {i \in Indexes(p) : <<p, i>> \in flips}
  <2>1. Of(p, flips) = {i \in Indexes(p) : <<p, i>> \in flips}
    BY OpenSets
  <2>2. Of(p, flips) # {} => purchase[p].status = "LIVE"
    BY <2>1, OpenSets
  <2>3. purchase'[p] = Settled(p, Of(p, flips))
    BY DEF Pays
  <2>4. Sane(p, purchase[p])
    BY DEF IInv, Purchased
  <2>5. Of(p, flips) \in SUBSET Indexes(p)
    BY <2>1
  <2> QED BY <2>1, <2>2, <2>3, <2>4, <2>5, SettledIs
<1>3. /\ by' = [p \in Purchases |-> by'[p]]
      /\ \A p \in Purchases : by'[p] = [i \in Indexes(p) |-> IF <<p, i>> \in flips THEN x ELSE by[p][i]]
      /\ \A p \in Purchases : by'[p] \in [Indexes(p) -> Payments \cup {None}]
  BY CreditedIs DEF IInv, Pays
\* what a trail tells of is paid, or gone with the entries of its purchase
<1>4. \A r \in ledger : <<r.purchase, r.index>> \notin flips /\ r.pay # x /\ r.pay \in Payments
                        /\ r.purchase \in Purchases /\ r.index \in Indexes(r.purchase)
  <2> SUFFICES ASSUME NEW r \in ledger
               PROVE  <<r.purchase, r.index>> \notin flips /\ r.pay # x /\ r.pay \in Payments
                        /\ r.purchase \in Purchases /\ r.index \in Indexes(r.purchase)
    OBVIOUS
  <2>1. Told(r) /\ r \in Row /\ r.index \in Indexes(r.purchase)
    BY DEF IInv, Trail
  <2>2. r.pay # x
    BY <2>1 DEF Told, Live
  <2>3. r.pay \in Payments /\ r.purchase \in Purchases
    BY <2>1 DEF Row, Payments
  <2>4. r.live \in BOOLEAN
    BY <2>1 DEF Row
  <2>5. <<r.purchase, r.index>> \in flips =>
          purchase[r.purchase].status = "LIVE" /\ r.index \notin purchase[r.purchase].paid
    BY <2>3, OpenSets
  <2> QED BY <2>1, <2>2, <2>3, <2>4, <2>5 DEF Told
<1>5. Typed'
  BY <1>1, <1>3 DEF Pays, IInv, Typed
<1>6. Purchased'
  BY <1>2, PaymentsAssumption DEF IInv, Purchased, Marked
<1>7. ASSUME NEW r \in ledger PROVE Told(r)'
  <2>1. Told(r)
    BY DEF IInv, Trail
  <2>2. Live(r.pay)'
    BY <1>1, <1>4, <2>1 DEF Told, Live
  <2>3. by'[r.purchase][r.index] = by[r.purchase][r.index]
    <3>1. <<r.purchase, r.index>> \notin flips /\ r.purchase \in Purchases /\ r.index \in Indexes(r.purchase)
      BY <1>4
    <3>2. by'[r.purchase] = [i \in Indexes(r.purchase) |->
                              IF <<r.purchase, i>> \in flips THEN x ELSE by[r.purchase][i]]
      BY <1>3, <3>1
    <3> QED BY <3>1, <3>2
  <2>4. /\ purchase[r.purchase].paid \subseteq purchase'[r.purchase].paid
        /\ Marked(r.purchase, purchase'[r.purchase])
    BY <1>2, <1>4
  <2> QED BY <2>1, <2>2, <2>3, <2>4 DEF Told, Marked
<1>8. ASSUME NEW r \in rows PROVE Told(r)'
  <2>1. /\ r.pay = x /\ r.live /\ <<r.purchase, r.index>> \in flips /\ r \in Row
        /\ r.amount = purchase[r.purchase].price
    BY DEF Honest
  <2>2. r.purchase \in Purchases
    BY <2>1 DEF Row
  <2>3. purchase[r.purchase].status = "LIVE" /\ r.index \in Indexes(r.purchase)
    BY <2>1, <2>2, OpenSets
  <2>4. Live(r.pay)'
    BY <1>1, <2>1 DEF Live, Honest
  <2>5. by'[r.purchase][r.index] = r.pay
    BY <1>3, <2>1, <2>2, <2>3
  <2>6. r.index \in purchase'[r.purchase].paid /\ Marked(r.purchase, purchase'[r.purchase])
    BY <1>2, <2>1, <2>2, <2>3
  <2> QED BY <2>1, <2>3, <2>4, <2>5, <2>6 DEF Told, Marked
<1>9. Trail'
  <2>1. IsFiniteSet(ledger') /\ ledger' \subseteq Row
    BY FS_Union DEF Pays, Honest, IInv, Trail
  <2>2. \A r \in ledger' : Told(r)'
    BY <1>7, <1>8 DEF Pays
  <2>3. \A r \in rows : r.index \in Indexes(r.purchase)
    BY OpenSets DEF Honest, Row
  <2>4. \A r, s \in ledger' : r # s => <<r.purchase, r.index>> # <<s.purchase, s.index>>
    <3>1. \A r \in ledger, s \in rows : <<r.purchase, r.index>> # <<s.purchase, s.index>>
      BY <1>4 DEF Honest
    <3> QED BY <3>1 DEF Honest, Pays, IInv, Trail
  <2>5. Complete'
    <3> SUFFICES ASSUME NEW y \in Imported, Live(y)'
                 PROVE  Cardinality(Rows(y)') = payment'[y].stamp
      BY DEF Complete
    <3>1. CASE y = x
      <4>1. Rows(y)' = rows
        BY <1>4, <3>1 DEF Rows, Pays, Honest
      <4> QED BY <1>1, <3>1, <4>1 DEF Honest
    <3>2. CASE y # x
      <4>1. Rows(y)' = Rows(y)
        BY <3>2 DEF Rows, Pays, Honest
      <4>2. payment'[y] = payment[y]
        BY <1>1, <3>2 DEF Payments
      <4> QED BY <4>1, <4>2 DEF IInv, Trail, Complete, Live
    <3> QED BY <3>1, <3>2
  <2>6. \A r \in ledger' : r.index \in Indexes(r.purchase)
    BY <1>4, <2>3 DEF Pays
  <2> QED BY <2>1, <2>2, <2>4, <2>5, <2>6 DEF Trail
<1>10. Keyed'
  <2>1. \A y \in Imported : payment'[y].key = None
    BY <1>1, PaymentsAssumption DEF IInv, Keyed, Honest, Payments
  <2>2. \A u \in Undos : undo[u] # Idle => undo[u].pay # x /\ undo[u].pay \in Payments
    BY DEF IInv, Keyed, Payments
  <2> QED BY <1>1, <2>1, <2>2 DEF IInv, Keyed, Pays
<1>11. Credits'
  <2> SUFFICES ASSUME NEW p \in Purchases, NEW i \in purchase'[p].paid PROVE Credit(p, i)'
    BY DEF Credits
  <2>1. i \in Indexes(p) /\ purchase'[p].due = purchase[p].due
    BY <1>2 DEF Sane, Marked
  <2>2. CASE <<p, i>> \in flips
    <3>1. by'[p][i] = x
      BY <1>3, <2>1, <2>2
    <3>2. payment'[x].state = "LIVE"
      BY <1>1 DEF Honest
    <3>3. payment'[x].key # None => purchase'[p].due[i] = payment'[x].key
      <4>1. rec.key # None => purchase[p].due[i] = rec.key
        BY <2>2 DEF Honest
      <4> QED BY <1>1, <2>1, <4>1
    <3>4. x \in Imported => \E r \in ledger' : r.pay = x /\ r.purchase = p /\ r.index = i
      <4>1. x \in Imported => \E r \in rows : r.pay = x /\ r.purchase = p /\ r.index = i
        BY <2>2 DEF Honest
      <4> QED BY <4>1 DEF Pays
    <3> QED BY <3>1, <3>2, <3>3, <3>4 DEF Credit, Live
  <2>3. CASE <<p, i>> \notin flips
    <3>1. by'[p][i] = by[p][i] /\ i \in purchase[p].paid
      BY <1>2, <1>3, <2>1, <2>3
    <3>2. Credit(p, i)
      BY <3>1 DEF IInv, Credits
    <3>3. by[p][i] \in Payments \cup {None}
      BY <2>1 DEF IInv, Typed
    <3>4. by[p][i] # None => by[p][i] # x /\ payment'[by[p][i]] = payment[by[p][i]]
      BY <1>1, <3>2, <3>3 DEF Credit
    <3> QED BY <2>1, <3>1, <3>2, <3>4 DEF Credit, Live, Pays
  <2> QED BY <2>2, <2>3
<1> QED BY <1>5, <1>6, <1>9, <1>10, <1>11 DEF IInv

LEMMA PayKeeps == ASSUME IInv, NEW x \in Payments, NEW selected, PayInvoice(x, selected) PROVE IInv'
<1> DEFINE flips == Flips(x, selected)
           months == DueMonths(flips)
           key == IF Cardinality(months) = 1 THEN CHOOSE m \in months : TRUE ELSE None
           rec == [state |-> "LIVE", key |-> key, stamp |-> None]
<1>1. /\ x \in Manual /\ payment[x].state = "NONE"
      /\ payment' = [payment EXCEPT ![x] = rec]
      /\ purchase' = [p \in Purchases |-> Settled(p, Of(p, flips))]
      /\ by' = Credited(flips, x) /\ UNCHANGED <<ledger, undo, liquidate>>
  BY DEF PayInvoice
<1>2. flips \in SUBSET Open
  BY FlipsAreOpen DEF IInv
<1> HIDE DEF flips
<1>3. IsFiniteSet(flips) /\ \A e \in flips : e[1] \in Purchases /\ e[2] \in Indexes(e[1])
  BY <1>2, OpenSets, InPlaces
<1>4. months \subseteq Months
  <2>1. ASSUME NEW e \in flips PROVE purchase[e[1]].due[e[2]] \in Months
    BY <1>3, PurchaseFacts DEF IInv
  <2> QED BY <2>1 DEF DueMonths
<1>5. IsFiniteSet(months)
  <2> DEFINE f == [e \in flips |-> purchase[e[1]].due[e[2]]]
  <2>1. months = {f[e] : e \in flips} /\ DOMAIN f = flips /\ f = [e \in flips |-> f[e]]
    BY DEF DueMonths
  <2> HIDE DEF f
  <2> QED BY <1>3, <2>1, FiniteImage
<1>6. key \in Months \cup {None} /\ (key # None => \A m \in months : m = key)
  <2>1. CASE Cardinality(months) = 1
    <3>1. PICK m : months = {m}
      BY <1>5, <2>1, FS_Singleton
    <3>2. key = m
      BY <2>1, <3>1
    <3> QED BY <1>4, <3>1, <3>2
  <2>2. CASE Cardinality(months) # 1
    BY <2>2
  <2> QED BY <2>1, <2>2
<1>7. \A e \in flips : purchase[e[1]].due[e[2]] \in months
  BY DEF DueMonths
<1> HIDE DEF months, key
<1>8. Honest(x, flips, rec, {})
  <2>1. x \notin Imported
    BY <1>1, PaymentsAssumption
  <2>2. rec \in [state : {"LIVE"}, key : Months \cup {None}, stamp : Nat] /\ rec.key = key
    BY <1>6 DEF None
  <2> QED BY <1>1, <1>6, <1>7, <2>1, <2>2, FS_EmptySet DEF Honest
<1>9. Pays(x, flips, rec, {})
  BY <1>1 DEF Pays
<1> HIDE DEF rec
<1> QED BY <1>1, <1>2, <1>8, <1>9, PaysKeep

LEMMA ImportKeeps == ASSUME IInv, NEW x \in Payments, ImportStatement(x) PROVE IInv'
<1> DEFINE flips == Flips(x, None)
           rec == [state |-> "LIVE", key |-> None, stamp |-> Cardinality(flips)]
           row(e) == [pay |-> x, purchase |-> e[1], index |-> e[2], live |-> TRUE,
                      month |-> purchase[e[1]].due[e[2]], amount |-> purchase[e[1]].price]
           f == [e \in flips |-> row(e)]
           rows == {f[e] : e \in flips}
<1>1. /\ x \in Imported /\ payment[x].state = "NONE"
      /\ payment' = [payment EXCEPT ![x] = rec]
      /\ purchase' = [p \in Purchases |-> Settled(p, Of(p, flips))]
      /\ ledger' = ledger \cup rows
      /\ by' = Credited(flips, x) /\ UNCHANGED <<undo, liquidate>>
  BY DEF ImportStatement
<1>2. flips \in SUBSET Open
  BY FlipsAreOpen DEF IInv
<1> HIDE DEF flips
<1>3. IsFiniteSet(flips)
      /\ \A e \in flips : e[1] \in Purchases /\ e[2] \in Indexes(e[1]) /\ e = <<e[1], e[2]>>
  BY <1>2, OpenSets, InPlaces
<1>4. ASSUME NEW e \in flips
      PROVE  /\ f[e] \in Row /\ f[e].pay = x /\ f[e].live /\ f[e].purchase = e[1]
             /\ f[e].index = e[2] /\ f[e].amount = purchase[e[1]].price
  <2>1. purchase[e[1]].due[e[2]] \in Months /\ purchase[e[1]].price \in Nat /\ e[2] \in Nat
    BY <1>3, PurchaseFacts, IndexFacts DEF IInv
  <2> QED BY <1>1, <1>3, <2>1 DEF Row
<1>5. DOMAIN f = flips /\ f = [e \in flips |-> f[e]]
  OBVIOUS
<1> HIDE DEF f
<1>6. IsFiniteSet(rows) /\ Cardinality(rows) = Cardinality(flips)
  <2>1. f \in Surjection(flips, rows)
    BY <1>5 DEF Surjection
  <2>2. ASSUME NEW d \in flips, NEW e \in flips, f[d] = f[e] PROVE d = e
    <3>1. d[1] = e[1] /\ d[2] = e[2]
      BY <1>4, <2>2
    <3> QED BY <1>3, <3>1
  <2>3. f \in Bijection(flips, rows)
    BY <2>1, <2>2 DEF Bijection, Injection, IsInjective, Surjection
  <2> HIDE DEF rows
  <2> QED BY <1>3, <2>3, FS_Bijection DEF ExistsBijection
<1>7. /\ \A r \in rows : /\ r \in Row /\ r.pay = x /\ r.live /\ <<r.purchase, r.index>> \in flips
                         /\ r.amount = purchase[r.purchase].price
      /\ \A r, s \in rows : r # s => <<r.purchase, r.index>> # <<s.purchase, s.index>>
      /\ \A e \in flips : \E r \in rows : r.purchase = e[1] /\ r.index = e[2]
  <2>1. ASSUME NEW r \in rows
        PROVE  /\ r \in Row /\ r.pay = x /\ r.live /\ <<r.purchase, r.index>> \in flips
               /\ r.amount = purchase[r.purchase].price
    <3>1. PICK e \in flips : r = f[e]
      OBVIOUS
    <3>2. /\ r \in Row /\ r.pay = x /\ r.live /\ r.purchase = e[1] /\ r.index = e[2]
          /\ r.amount = purchase[e[1]].price /\ e = <<e[1], e[2]>>
      BY <1>3, <1>4, <3>1
    <3> QED BY <3>2
  <2>2. ASSUME NEW r \in rows, NEW s \in rows, r # s
        PROVE  <<r.purchase, r.index>> # <<s.purchase, s.index>>
    <3>1. PICK d \in flips, e \in flips : r = f[d] /\ s = f[e]
      OBVIOUS
    <3>2. /\ r.purchase = d[1] /\ r.index = d[2] /\ d = <<d[1], d[2]>>
          /\ s.purchase = e[1] /\ s.index = e[2] /\ e = <<e[1], e[2]>>
      BY <1>3, <1>4, <3>1
    <3> QED BY <2>2, <3>1, <3>2
  <2>3. ASSUME NEW e \in flips PROVE \E r \in rows : r.purchase = e[1] /\ r.index = e[2]
    BY <1>4
  <2> QED BY <2>1, <2>2, <2>3
<1> HIDE DEF rows
<1>8. rec \in [state : {"LIVE"}, key : Months \cup {None}, stamp : Nat] /\ rec.key = None
      /\ rec.stamp = Cardinality(flips)
  BY <1>3, FS_CardinalityType
<1> HIDE DEF rec
<1>9. Honest(x, flips, rec, rows)
  BY <1>1, <1>6, <1>7, <1>8 DEF Honest
<1>10. Pays(x, flips, rec, rows)
  BY <1>1 DEF Pays
<1> QED BY <1>1, <1>2, <1>9, <1>10, PaysKeep

\* Only a payment without a key can be removed: what it paid stays paid.
LEMMA RemovePaymentKeeps == ASSUME IInv, NEW x \in Payments, RemovePayment(x) PROVE IInv'
<1> USE DEF RemovePayment
<1>1. /\ payment'[x].key = payment[x].key /\ payment'[x].state = "GONE"
      /\ \A y \in Payments : y # x => payment'[y] = payment[y]
      /\ payment' \in [Payments -> [state : {"NONE", "LIVE", "GONE"}, key : Months \cup {None}, stamp : Nat]]
  BY DEF IInv, Typed
<1>2. x \in Manual /\ payment[x].key = None /\ x \notin Imported
  BY PaymentsAssumption
<1>3. Typed' /\ Purchased'
  BY <1>1 DEF IInv, Typed, Purchased
<1>4. Trail'
  <2>1. \A y \in Imported : payment'[y] = payment[y]
    BY <1>1, <1>2 DEF Payments
  <2>2. ASSUME NEW r \in ledger PROVE Told(r)'
    <3>1. r.pay \in Imported /\ Told(r)
      BY DEF IInv, Trail, Row
    <3> QED BY <2>1, <3>1 DEF Told, Live
  <2>3. Complete'
    BY <2>1 DEF IInv, Trail, Complete, Live, Rows
  <2> QED BY <2>2, <2>3 DEF IInv, Trail
<1>5. Keyed'
  <2>1. \A y \in Payments : payment'[y].key = payment[y].key
                           /\ (payment[y].state # "NONE" => payment'[y].state # "NONE")
    BY <1>1
  <2> QED BY <2>1 DEF IInv, Keyed, Payments
<1>6. Credits'
  <2> SUFFICES ASSUME NEW p \in Purchases, NEW i \in purchase[p].paid PROVE Credit(p, i)'
    BY DEF Credits
  <2>1. Credit(p, i) /\ by[p][i] \in Payments \cup {None}
    BY PurchaseFacts DEF IInv, Credits, Typed
  <2>2. CASE by[p][i] = x
    BY <1>1, <1>2, <2>1, <2>2 DEF Credit
  <2>3. CASE by[p][i] # x
    BY <1>1, <2>1, <2>3 DEF Credit, Live
  <2> QED BY <2>2, <2>3
<1> QED BY <1>3, <1>4, <1>5, <1>6 DEF IInv

-----------------------------------------------------------------------------
(* Undos *)

LEMMA UndoReadKeeps ==
  ASSUME IInv, NEW u \in Undos, NEW m \in Months, UndoRead(u, m)
  PROVE  IInv'
<1>1. PICK x \in Eligible(m) : undo' = [undo EXCEPT ![u] = [month |-> m, pay |-> x]]
  BY DEF UndoRead
<1>2. UNCHANGED <<purchase, payment, ledger, liquidate, by>>
  BY DEF UndoRead
<1>3. x \in Manual /\ payment[x].state = "LIVE" /\ payment[x].key \in {None, m}
  <2>1. m # None
    BY PaymentsAssumption
  <2>2. CASE x \in Implicit(m) \cap Manual
    BY <2>2 DEF Implicit, Unkeyed, Live
  <2>3. CASE x \in {y \in Payments : Live(y) /\ payment[y].key = m}
    BY <2>1, <2>3 DEF IInv, Keyed, Live, Payments
  <2> QED BY <1>1, <2>2, <2>3 DEF Eligible
<1>4. Typed'
  <2>1. undo' \in [Undos -> [month : Months \cup {None}, pay : Manual \cup {None}]]
    BY <1>1, <1>3 DEF IInv, Typed
  <2> QED BY <1>2, <2>1 DEF IInv, Typed
<1>5. Purchased' /\ Credits'
  BY <1>2 DEF IInv, Purchased, Credits, Credit, Live
<1>6. Trail'
  BY <1>2 DEF IInv, Trail, Told, Live, Complete, Rows
<1>7. Keyed'
  <2> SUFFICES ASSUME NEW v \in Undos, undo'[v] # Idle
               PROVE  /\ undo'[v].month \in Months /\ undo'[v].pay \in Manual
                      /\ payment[undo'[v].pay].state # "NONE"
                      /\ payment[undo'[v].pay].key \in {None, undo'[v].month}
    BY <1>2 DEF IInv, Keyed
  <2>1. CASE v = u
    <3>1. undo'[v] = [month |-> m, pay |-> x]
      BY <1>1, <2>1 DEF IInv, Typed
    <3> QED BY <1>3, <3>1
  <2>2. CASE v # u
    <3>1. undo'[v] = undo[v]
      BY <1>1, <2>2 DEF IInv, Typed
    <3> QED BY <2>2, <3>1 DEF IInv, Keyed
  <2> QED BY <2>1, <2>2
<1> QED BY <1>4, <1>5, <1>6, <1>7 DEF IInv

LEMMA RefusedKeeps == ASSUME IInv, NEW u \in Undos, UndoRefused(u) PROVE IInv'
<1>1. undo' = [undo EXCEPT ![u] = Idle] /\ UNCHANGED <<purchase, payment, ledger, liquidate, by>>
  BY DEF UndoRefused
<1>2. Typed'
  BY <1>1 DEF IInv, Typed, Idle
<1>3. Purchased' /\ Credits'
  BY <1>1 DEF IInv, Purchased, Credits, Credit, Live
<1>4. Trail'
  BY <1>1 DEF IInv, Trail, Told, Live, Complete, Rows
<1>5. \A v \in Undos : undo'[v] # Idle => undo'[v] = undo[v]
  BY <1>1 DEF IInv, Typed
<1>6. Keyed'
  BY <1>1, <1>5 DEF IInv, Keyed
<1> QED BY <1>2, <1>3, <1>4, <1>6 DEF IInv

\* Payment x goes, with its rows, and some installments are planned again.
Reopens(x, entries) ==
  /\ purchase' = [p \in Purchases |-> Reopened(p, Of(p, entries))]
  /\ by' = Credited(entries, None)
  /\ payment'[x].state = "GONE" /\ payment'[x].key = payment[x].key
  /\ \A y \in Payments : y # x => payment'[y] = payment[y]
  /\ payment' \in [Payments -> [state : {"NONE", "LIVE", "GONE"}, key : Months \cup {None}, stamp : Nat]]
  /\ ledger' = ledger \ Rows(x)
  /\ \A v \in Undos : undo'[v] # Idle => undo'[v] = undo[v]
  /\ undo' \in [Undos -> [month : Months \cup {None}, pay : Manual \cup {None}]]
  /\ UNCHANGED liquidate

\* Nothing that another payment's trail tells of, and all that x has to answer for.
Own(x, entries) ==
  /\ entries \subseteq Places
  /\ \A e \in entries : purchase[e[1]].status = "LIVE"
  /\ \A r \in ledger : r.pay # x => <<r.purchase, r.index>> \notin entries
  /\ \A p \in Purchases : \A i \in purchase[p].paid :
       by[p][i] = x /\ <<p, i>> \notin entries => x \in Manual /\ payment[x].key = None

LEMMA ReopensPaid ==
  ASSUME IInv, NEW x, NEW entries, Own(x, entries), Reopens(x, entries), NEW p \in Purchases
  PROVE  /\ Sane(p, purchase'[p]) /\ Marked(p, purchase'[p])
         /\ purchase'[p].paid = purchase[p].paid \ {i \in Indexes(p) : <<p, i>> \in entries}
<1>1. Of(p, entries) = {i \in Indexes(p) : <<p, i>> \in entries}
  BY InPlaces DEF Of, Own
<1>2. Of(p, entries) # {} => purchase[p].status = "LIVE"
  BY <1>1 DEF Own
<1>3. purchase'[p] = Reopened(p, Of(p, entries))
  BY DEF Reopens
<1>4. Sane(p, purchase[p])
  BY DEF IInv, Purchased
<1>5. Of(p, entries) \in SUBSET Indexes(p)
  BY <1>1
<1>6. /\ Sane(p, Reopened(p, Of(p, entries))) /\ Marked(p, Reopened(p, Of(p, entries)))
      /\ Reopened(p, Of(p, entries)).paid = purchase[p].paid \ Of(p, entries)
  BY <1>2, <1>4, <1>5, ReopenedIs
<1> QED BY <1>1, <1>3, <1>6

LEMMA ReopensKeeps ==
  ASSUME IInv, NEW x \in Payments, payment[x].state # "NONE", NEW entries,
         Own(x, entries), Reopens(x, entries)
  PROVE  IInv'
<1>1. ASSUME NEW p \in Purchases
      PROVE  /\ Sane(p, purchase'[p]) /\ Marked(p, purchase'[p])
             /\ purchase'[p].paid = purchase[p].paid \ {i \in Indexes(p) : <<p, i>> \in entries}
  BY ReopensPaid
<1>2. /\ by' = [p \in Purchases |-> by'[p]]
      /\ \A p \in Purchases : by'[p] = [i \in Indexes(p) |-> IF <<p, i>> \in entries THEN None ELSE by[p][i]]
      /\ \A p \in Purchases : by'[p] \in [Indexes(p) -> Payments \cup {None}]
  BY CreditedIs DEF IInv, Reopens
<1>3. Typed'
  BY <1>2 DEF IInv, Typed, Reopens
<1>4. Purchased'
  BY <1>1, PaymentsAssumption DEF IInv, Purchased, Marked
<1>5. Trail'
  <2>1. ASSUME NEW r \in ledger, r.pay # x PROVE Told(r)'
    <3>1. /\ Told(r) /\ r.pay \in Payments /\ r.purchase \in Purchases
          /\ r.index \in Indexes(r.purchase)
      BY DEF IInv, Trail, Row, Payments
    <3>2. <<r.purchase, r.index>> \notin entries
      BY <2>1 DEF Own
    <3>3. payment'[r.pay] = payment[r.pay]
      BY <2>1, <3>1 DEF Reopens
    <3>4. by'[r.purchase][r.index] = by[r.purchase][r.index]
      BY <1>2, <3>1, <3>2
    <3>5. /\ Marked(r.purchase, purchase'[r.purchase])
          /\ r.index \in purchase[r.purchase].paid => r.index \in purchase'[r.purchase].paid
      BY <1>1, <3>1, <3>2
    <3> QED BY <3>1, <3>3, <3>4, <3>5 DEF Told, Live, Marked
  <2>2. \A r \in ledger' : r \in ledger /\ r.pay # x
    BY DEF Reopens, Rows
  <2>3. Complete'
    <3> SUFFICES ASSUME NEW y \in Imported, Live(y)'
                 PROVE  Cardinality(Rows(y)') = payment'[y].stamp
      BY DEF Complete
    <3>1. y # x
      BY DEF Reopens, Live
    <3>2. Rows(y)' = Rows(y)
      BY <3>1 DEF Rows, Reopens
    <3>3. payment'[y] = payment[y]
      BY <3>1 DEF Reopens, Payments
    <3> QED BY <3>2, <3>3 DEF IInv, Trail, Complete, Live
  <2>4. IsFiniteSet(ledger')
    <3>1. ledger' \in SUBSET ledger
      BY <2>2
    <3> QED BY <3>1, FS_Subset DEF IInv, Trail
  <2> QED BY <2>1, <2>2, <2>3, <2>4 DEF IInv, Trail
<1>6. Keyed'
  <2>1. \A y \in Payments : payment'[y].key = payment[y].key
                           /\ (payment[y].state # "NONE" => payment'[y].state # "NONE")
    BY DEF Reopens
  <2> QED BY <2>1 DEF IInv, Keyed, Payments, Reopens
<1>7. Credits'
  <2> SUFFICES ASSUME NEW p \in Purchases, NEW i \in purchase'[p].paid PROVE Credit(p, i)'
    BY DEF Credits
  <2>1. /\ i \in Indexes(p) /\ i \in purchase[p].paid /\ <<p, i>> \notin entries
        /\ purchase'[p].due = purchase[p].due
    BY <1>1 DEF Sane, Marked
  <2>2. by'[p][i] = by[p][i] /\ by[p][i] \in Payments \cup {None}
    BY <1>2, <2>1 DEF IInv, Typed
  <2>3. Credit(p, i)
    BY <2>1 DEF IInv, Credits
  <2>4. CASE by[p][i] = x
    <3>1. x \in Manual /\ payment[x].key = None /\ x \notin Imported
      BY <2>1, <2>4, PaymentsAssumption DEF Own
    <3>2. payment'[x].state = "GONE" /\ payment'[x].key = None
      BY <3>1 DEF Reopens
    <3> QED BY <2>2, <2>4, <3>1, <3>2 DEF Credit
  <2>5. CASE by[p][i] # x
    <3>1. by[p][i] # None => payment'[by[p][i]] = payment[by[p][i]]
      BY <2>2, <2>5 DEF Reopens
    <3>2. \A r \in ledger : r.pay # x => r \in ledger'
      BY DEF Reopens, Rows
    <3> QED BY <2>1, <2>2, <2>3, <2>5, <3>1, <3>2 DEF Credit, Live
  <2> QED BY <2>4, <2>5
<1> QED BY <1>3, <1>4, <1>5, <1>6, <1>7 DEF IInv

LEMMA UndoCommitKeeps == ASSUME IInv, NEW u \in Undos, UndoCommit(u) PROVE IInv'
<1> DEFINE m == undo[u].month
           x == undo[u].pay
           paid == {e \in EntriesOf(m) : Paid(e) /\ purchase[e[1]].price > 0}
<1>1. /\ undo[u] # Idle /\ ~Anchored(m) /\ Live(x)
      /\ purchase' = [p \in Purchases |-> Reopened(p, Of(p, paid))]
      /\ by' = Credited(paid, None)
      /\ payment' = [payment EXCEPT ![x].state = "GONE"]
      /\ undo' = [undo EXCEPT ![u] = Idle]
      /\ UNCHANGED <<ledger, liquidate>>
  BY DEF UndoCommit
<1>2. /\ m \in Months /\ x \in Manual /\ x \in Payments /\ payment[x].state # "NONE"
      /\ payment[x].key \in {None, m}
  BY <1>1 DEF IInv, Keyed, Payments
<1>3. Rows(x) = {}
  BY <1>2, PaymentsAssumption DEF Rows, IInv, Trail, Row
<1>4. \A e : e \in paid <=> /\ e \in Places /\ purchase[e[1]].status = "LIVE"
                           /\ purchase[e[1]].due[e[2]] = m /\ e[2] \in purchase[e[1]].paid
  <2>1. \A e : e \in EntriesOf(m) <=> /\ e \in Places /\ purchase[e[1]].status = "LIVE"
                                     /\ purchase[e[1]].due[e[2]] = m
    BY DEF EntriesOf, Entries, Places
  <2>2. \A e \in Places : purchase[e[1]].price > 0
    BY PurchaseFacts, InPlaces DEF IInv
  <2> QED BY <2>1, <2>2 DEF Paid
<1>5. Own(x, paid)
  <2>1. ASSUME NEW r \in ledger PROVE <<r.purchase, r.index>> \notin paid
    <3>1. Told(r) /\ r.live \in BOOLEAN
      BY DEF IInv, Trail, Row
    <3>2. r.live => <<r.purchase, r.index>> \notin EntriesOf(m)
      BY <1>1 DEF Anchored
    <3>3. ~r.live => purchase[r.purchase].status # "LIVE"
      BY <3>1 DEF Told
    <3> QED BY <1>4, <3>1, <3>2, <3>3
  <2>2. ASSUME NEW p \in Purchases, NEW i \in purchase[p].paid, by[p][i] = x, <<p, i>> \notin paid
        PROVE  payment[x].key = None
    <3>1. purchase[p].status = "LIVE" /\ i \in Indexes(p)
      BY PurchaseFacts DEF IInv
    <3>2. <<p, i>> \in Places
      BY <3>1 DEF Places
    <3>3. x # None
      BY <1>2, PaymentsAssumption
    <3>4. payment[x].key # None => purchase[p].due[i] = payment[x].key
      BY <2>2, <3>3 DEF IInv, Credits, Credit
    <3> QED BY <1>2, <1>4, <2>2, <3>1, <3>2, <3>4
  <2> HIDE DEF paid, x
  <2> QED BY <1>2, <1>4, <2>1, <2>2 DEF Own
<1>6. Reopens(x, paid)
  <2>1. /\ payment'[x].state = "GONE" /\ payment'[x].key = payment[x].key
        /\ \A y \in Payments : y # x => payment'[y] = payment[y]
        /\ payment' \in [Payments -> [state : {"NONE", "LIVE", "GONE"}, key : Months \cup {None}, stamp : Nat]]
    <3> HIDE DEF x
    <3> QED BY <1>1, <1>2 DEF IInv, Typed
  <2>2. /\ \A v \in Undos : undo'[v] # Idle => undo'[v] = undo[v]
        /\ undo' \in [Undos -> [month : Months \cup {None}, pay : Manual \cup {None}]]
    BY <1>1 DEF IInv, Typed, Idle
  <2>3. ledger' = ledger \ Rows(x)
    BY <1>1, <1>3
  <2> HIDE DEF paid, x
  <2> QED BY <1>1, <2>1, <2>2, <2>3 DEF Reopens
<1> HIDE DEF paid, x
<1> QED BY <1>2, <1>5, <1>6, ReopensKeeps

\* The rows of an imported payment tell of the installments that it paid, and of no
\* other ones.
LEMMA UndoImportOwns ==
  ASSUME IInv, NEW x \in Payments, UndoImport(x)
  PROVE  LET entries == {<<r.purchase, r.index>> : r \in Rows(x)}
         IN  /\ Own(x, entries) /\ Reopens(x, entries)
             /\ \A p \in Purchases : \A i \in purchase[p].paid : <<p, i>> \in entries <=> by[p][i] = x
<1> DEFINE entries == {<<r.purchase, r.index>> : r \in Rows(x)}
<1>1. /\ x \in Imported /\ Live(x) /\ \A r \in Rows(x) : ~Drifted(r)
      /\ purchase' = [p \in Purchases |-> Reopened(p, Of(p, entries))]
      /\ by' = Credited(entries, None)
      /\ ledger' = ledger \ Rows(x)
      /\ payment' = [payment EXCEPT ![x] = [payment[x] EXCEPT !.state = "GONE", !.stamp = None]]
      /\ UNCHANGED <<undo, liquidate>>
  BY DEF UndoImport
<1>2. ASSUME NEW r \in Rows(x)
      PROVE  /\ r \in ledger /\ r.pay = x /\ r.live /\ r \in Row
             /\ r.index \in Indexes(r.purchase) /\ Told(r)
  <2>1. r \in ledger /\ r.pay = x
    BY DEF Rows
  <2>2. r \in Row /\ r.index \in Indexes(r.purchase) /\ Told(r)
    BY <2>1 DEF IInv, Trail
  <2>3. r.live
    BY <1>1 DEF Drifted
  <2> QED BY <2>1, <2>2, <2>3
<1>3. entries \subseteq Places
  BY <1>2 DEF Places, Row
<1>4. \A e \in entries : purchase[e[1]].status = "LIVE" /\ by[e[1]][e[2]] = x
  BY <1>2 DEF Told
<1>5. \A r \in ledger : r.pay # x => <<r.purchase, r.index>> \notin entries
  BY <1>2 DEF IInv, Trail
<1>6. ASSUME NEW p \in Purchases, NEW i \in purchase[p].paid PROVE <<p, i>> \in entries <=> by[p][i] = x
  <2>1. by[p][i] = x => \E r \in ledger : r.pay = x /\ r.purchase = p /\ r.index = i
    BY <1>1, PaymentsAssumption DEF IInv, Credits, Credit, Payments
  <2>2. <<p, i>> \in entries => by[p][i] = x
    BY <1>4
  <2> QED BY <2>1, <2>2 DEF Rows
<1> HIDE DEF entries
<1>7. Own(x, entries)
  BY <1>3, <1>4, <1>5, <1>6 DEF Own
<1>8. Reopens(x, entries)
  <2>1. /\ payment'[x].state = "GONE" /\ payment'[x].key = payment[x].key
        /\ \A y \in Payments : y # x => payment'[y] = payment[y]
        /\ payment' \in [Payments -> [state : {"NONE", "LIVE", "GONE"}, key : Months \cup {None}, stamp : Nat]]
    BY <1>1 DEF IInv, Typed, None
  <2> QED BY <1>1, <2>1 DEF Reopens, IInv, Typed
<1> QED BY <1>6, <1>7, <1>8 DEF entries

LEMMA UndoImportKeeps == ASSUME IInv, NEW x \in Payments, UndoImport(x) PROVE IInv'
<1>1. payment[x].state # "NONE"
  BY DEF UndoImport, Live
<1> QED BY <1>1, UndoImportOwns, ReopensKeeps

-----------------------------------------------------------------------------
(* The theorems *)

LEMMA StepInv == IInv /\ [Next]_vars => IInv'
<1> SUFFICES ASSUME IInv, [Next]_vars PROVE IInv'
  OBVIOUS
<1>1. CASE ImportCardStatement \/ \E p \in Purchases : AddPurchase(p) \/ EditPurchase(p)
  BY <1>1, StatementKeeps, AddKeeps, EditKeeps
<1>2. CASE \E l \in Liquidations : PayPlannedCommit(l) \/ \E p \in Purchases : PayPlannedRead(l, p)
  BY <1>2, LiquidateKeeps, ReadKeeps
<1>3. CASE \E x \in Payments :
             \/ \E selected \in Months \cup {None} : PayInvoice(x, selected)
             \/ ImportStatement(x) \/ RemovePayment(x) \/ UndoImport(x)
  BY <1>3, PayKeeps, ImportKeeps, RemovePaymentKeeps, UndoImportKeeps
<1>4. CASE \E u \in Undos : UndoCommit(u) \/ UndoRefused(u) \/ \E m \in Months : UndoRead(u, m)
  BY <1>4, UndoCommitKeeps, RefusedKeeps, UndoReadKeeps
<1>5. CASE UNCHANGED vars
  BY <1>5 DEF vars, IInv, Typed, Purchased, Trail, Told, Complete, Rows, Live, Keyed, Credits, Credit
<1> QED BY <1>1, <1>2, <1>3, <1>4, <1>5 DEF Next

LEMMA Always == Spec => []IInv
BY InitInv, StepInv, PTL DEF Spec

LEMMA SoundNow == IInv => InstallmentsAreSound
<1> SUFFICES ASSUME IInv PROVE InstallmentsAreSound
  OBVIOUS
<1>1. TypeOK
  <2>1. \A r \in ledger : r.pay \in Imported /\ r.purchase \in Purchases /\ r.index \in Indexes(r.purchase)
    BY DEF IInv, Trail, Row
  <2> QED BY <2>1 DEF IInv, Typed, Purchased, Trail, Sane, TypeOK
<1>2. PurchaseAgrees
  BY DEF IInv, Purchased, Sane, PurchaseAgrees, Entries
<1>3. PaidForAReason
  BY DEF IInv, Credits, Credit, PaidForAReason
<1> QED BY <1>1, <1>2, <1>3 DEF InstallmentsAreSound

LEMMA TrailNow == IInv => TrailIsSound
<1> SUFFICES ASSUME IInv PROVE TrailIsSound
  OBVIOUS
<1>1. ASSUME NEW r \in ledger PROVE Live(r.pay) /\ (Drifted(r) => purchase[r.purchase].clones > 0)
  <2>1. Told(r) /\ r.live \in BOOLEAN
    BY DEF IInv, Trail, Row
  <2> QED BY <2>1 DEF Told, Drifted
<1> QED BY <1>1 DEF IInv, Trail, Complete, TrailIsSound

\* Every purchase tells of its installments what its entries tell, whole or in part,
\* and an installment that a payment with a key, or an imported one, paid is planned
\* again when that payment is gone, in every order of payments, undos, edits,
\* removals and liquidations (card-invoice-settlement.service.ts, expense.service.ts).
THEOREM InstallmentsStaySound == Spec => []InstallmentsAreSound
BY Always, SoundNow, PTL

\* The trail of an imported payment has all of its rows, and they describe the
\* installments as they are, so that the import can be undone, unless a liquidation
\* that had looked before replaced the purchase (guardImportedInvoiceTrail).
THEOREM TrailsStaySound == Spec => []TrailIsSound
BY Always, TrailNow, PTL

LEMMA UndoesNotShared ==
  ASSUME IInv, [Next]_vars, NEW u \in Undos,
         undo[u] # Idle, undo'[u] = Idle, purchase' # purchase
  PROVE  Live(undo[u].pay) /\ payment'[undo[u].pay].state = "GONE"
<1>1. undo' # undo
  OBVIOUS
<1>2. PICK v \in Undos : UndoCommit(v) \/ UndoRefused(v) \/ \E m \in Months : UndoRead(v, m)
  BY <1>1 DEF Next, vars, ImportCardStatement, AddPurchase, EditPurchase, SetParcelaStatus, Update,
     UpdateInstallmentDate, RemovePurchase, PayPlannedCommit, PayPlannedRead, PayInvoice,
     ImportStatement, RemovePayment, UndoImport
<1>3. UndoCommit(v)
  BY <1>2 DEF UndoRefused, UndoRead
<1>4. v = u
  BY <1>3 DEF UndoCommit, IInv, Typed
<1>5. undo[u].pay \in Payments
  BY DEF IInv, Keyed, Payments
<1> QED BY <1>3, <1>4, <1>5 DEF UndoCommit, IInv, Typed

LEMMA ImportUndoExact ==
  ASSUME IInv, [Next]_vars, NEW x \in Imported, Live(x), ~Live(x)', NEW p \in Purchases
  PROVE  purchase'[p].paid = purchase[p].paid \ {i \in Indexes(p) : by[p][i] = x}
<1>1. x \in Payments /\ x \notin Manual
  BY PaymentsAssumption DEF Payments
<1>2. payment' # payment
  BY DEF Live
<1>3. \/ \E y \in Payments :
         \/ \E selected \in Months \cup {None} : PayInvoice(y, selected)
         \/ ImportStatement(y) \/ RemovePayment(y) \/ UndoImport(y)
      \/ \E u \in Undos : UndoCommit(u)
  BY <1>2 DEF Next, vars, ImportCardStatement, AddPurchase, EditPurchase, SetParcelaStatus, Update,
     UpdateInstallmentDate, RemovePurchase, PayPlannedCommit, PayPlannedRead, UndoRefused, UndoRead
<1>4. ASSUME NEW u \in Undos, UndoCommit(u) PROVE FALSE
  <2>1. undo[u].pay # x
    BY <1>1, <1>4 DEF UndoCommit, IInv, Keyed
  <2>2. payment'[x] = payment[x]
    BY <1>1, <1>4, <2>1 DEF UndoCommit, IInv, Typed
  <2> QED BY <2>2 DEF Live
<1>5. PICK y \in Payments :
         \/ \E selected \in Months \cup {None} : PayInvoice(y, selected)
         \/ ImportStatement(y) \/ RemovePayment(y) \/ UndoImport(y)
  BY <1>3, <1>4
<1>6. y = x
  <2>1. \E rec : payment' = [payment EXCEPT ![y] = rec]
    BY <1>5 DEF PayInvoice, ImportStatement, RemovePayment, UndoImport
  <2>2. y # x => payment'[x] = payment[x]
    BY <1>1, <2>1 DEF IInv, Typed
  <2> QED BY <2>2 DEF Live
<1>7. UndoImport(x)
  BY <1>1, <1>5, <1>6 DEF PayInvoice, ImportStatement, RemovePayment, Live
<1> DEFINE entries == {<<r.purchase, r.index>> : r \in Rows(x)}
<1>8. /\ Own(x, entries) /\ Reopens(x, entries)
      /\ \A i \in purchase[p].paid : <<p, i>> \in entries <=> by[p][i] = x
  BY <1>1, <1>7, UndoImportOwns
<1> HIDE DEF entries
<1>9. purchase'[p].paid = purchase[p].paid \ {i \in Indexes(p) : <<p, i>> \in entries}
  BY <1>8, ReopensPaid
<1> QED BY <1>8, <1>9

\* Of two undos of one payment only one reopens its invoice, and the undo of an
\* import reopens exactly what its payment had paid, whatever was paid, edited and
\* undone in between (undoInvoicePayment, applyRevertImportedLiquidations).
THEOREM UndoesStayExact == Spec => UndoesAreExact
<1>1. IInv /\ [Next]_vars =>
        \A u \in Undos : undo[u] # Idle /\ undo'[u] = Idle /\ purchase' # purchase =>
          Live(undo[u].pay) /\ payment'[undo[u].pay].state = "GONE"
  BY UndoesNotShared
<1>2. IInv /\ [Next]_vars =>
        \A x \in Imported : Live(x) /\ ~Live(x)' => \A p \in Purchases :
          purchase'[p].paid = purchase[p].paid \ {i \in Indexes(p) : by[p][i] = x}
  BY ImportUndoExact
<1>3. Spec => UndoesAreNotShared
  BY <1>1, Always, PTL DEF Spec, UndoesAreNotShared
<1>4. Spec => ImportUndoIsExact
  BY <1>2, Always, PTL DEF Spec, ImportUndoIsExact
<1> QED BY <1>3, <1>4 DEF UndoesAreExact
=============================================================================
