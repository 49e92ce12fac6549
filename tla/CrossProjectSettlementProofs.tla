-------------------- MODULE CrossProjectSettlementProofs --------------------
(***************************************************************************)
(* Fundings, settlements and rateios keep off each other for every number  *)
(* of expenses, projects and requests: a request key is spent once, an     *)
(* expense is settled or shared out but not both, a settled installment    *)
(* keeps its real value and its mirror, a rateio gives plans back and adds *)
(* up for as long as it lasts, a funding balances and can be undone.       *)
(***************************************************************************)
EXTENDS CrossProjectSettlement, FiniteSetTheorems, WellFoundedInduction, TLAPS

-----------------------------------------------------------------------------
(* The rows, field by field.                                               *)

Fields == {"alive", "price", "count", "paid", "link"}
IsRow(x) == x = [f \in Fields |-> x[f]]

FundingFields ==
  {"key", "src", "tgt", "idx", "amount", "planned", "gen", "proof", "root", "reversed"}
IsFunding(f) == f = [k \in FundingFields |-> f[k]]

\* What the links, the removals and the edits of other people leave of a row.
Kept(x, y) == y.alive = x.alive /\ y.link = x.link /\ y.count = x.count

LEMMA PaidRow ==
  ASSUME NEW x, IsRow(x), NEW paid
  PROVE  IsRow([x EXCEPT !.paid = paid]) /\ Kept(x, [x EXCEPT !.paid = paid])
BY DEF IsRow, Fields, Kept

LEMMA LinkedRow ==
  ASSUME NEW x, IsRow(x), NEW link
  PROVE  /\ IsRow([x EXCEPT !.link = link])
         /\ [x EXCEPT !.link = link].alive = x.alive /\ [x EXCEPT !.link = link].link = link
         /\ [x EXCEPT !.link = link].count = x.count /\ Plan([x EXCEPT !.link = link]) = Plan(x)
BY DEF IsRow, Fields, Plan

LEMMA GoneRow ==
  ASSUME NEW x, IsRow(x)
  PROVE  IsRow(Gone(x)) /\ Gone(x).count = x.count
BY DEF IsRow, Fields, Gone

LEMMA DeadRow ==
  ASSUME NEW x, IsRow(x)
  PROVE  IsRow([x EXCEPT !.alive = FALSE]) /\ [x EXCEPT !.alive = FALSE].count = x.count
BY DEF IsRow, Fields

LEMMA PricedRow ==
  ASSUME NEW x, IsRow(x), NEW price
  PROVE  IsRow(Priced(x, price)) /\ Kept(x, Priced(x, price))
BY DEF IsRow, Fields, Priced, Kept

LEMMA ForgetRow ==
  ASSUME NEW x, IsRow(x), NEW E
  PROVE  /\ IsRow(Forget(x, E)) /\ Forget(x, E).alive = x.alive /\ Forget(x, E).count = x.count
         /\ Plan(Forget(x, E)) = Plan(x)
         /\ x.link \notin E => Forget(x, E) = x
<1>1. CASE x.alive /\ x.link \in E
  BY <1>1, LinkedRow DEF Forget
<1>2. CASE ~(x.alive /\ x.link \in E)
  BY <1>2 DEF Forget
<1> QED BY <1>1, <1>2

LEMMA ReversedRow ==
  ASSUME NEW f, IsFunding(f)
  PROVE  LET g == [f EXCEPT !.reversed = TRUE]
         IN  IsFunding(g) /\ g.reversed = TRUE /\ g.key = f.key /\ g.src = f.src /\ g.tgt = f.tgt /\ g.idx = f.idx
BY DEF IsFunding, FundingFields

LEMMA NewFundingRow ==
  ASSUME NEW k, NEW s, NEW t, NEW i, NEW a, NEW p, NEW g, NEW proof, NEW root
  PROVE  LET row == [key |-> k, src |-> s, tgt |-> t, idx |-> i, amount |-> a, planned |-> p, gen |-> g,
                     proof |-> proof, root |-> root, reversed |-> FALSE]
         IN  IsFunding(row) /\ row.reversed = FALSE /\ row.key = k /\ row.src = s /\ row.tgt = t /\ row.idx = i
BY DEF IsFunding, FundingFields

-----------------------------------------------------------------------------
(* Request keys.                                                           *)

KeysOnce ==
  /\ \A f \in funding : IsFunding(f) /\ f.key \in Keys /\ f.reversed \in BOOLEAN
  /\ \A f, g \in funding : f.key = g.key => f = g

\* Only the two operations of a funding write its table.
LEMMA FundingWriters ==
  ASSUME [Next]_vars
  PROVE  \/ UNCHANGED funding
         \/ \E k \in Keys, c \in Commands : ApplyParcelaFunding(k, c)
         \/ \E f \in Active : UndoParcelaFunding(f)
BY DEF Next, vars, Operation, SettleTargetParcela, RatearSource, ReverseSourceLinks, UnratearSource,
       UnsettleBySource, LinkCrossProject, UnlinkCrossProject, Update, SetParcelaStatus,
       UpdateInstallmentDate, Remove, RemovePair

LEMMA ApplyFunding ==
  ASSUME NEW k \in Keys, NEW c \in Commands, ApplyParcelaFunding(k, c)
  PROVE  \E row : /\ funding' = funding \cup {row} /\ IsFunding(row) /\ row.reversed = FALSE
                  /\ row.key = k /\ row.src = c.src /\ row.tgt = c.tgt /\ row.idx = c.idx
                  /\ \A f \in funding : f.key # k
<1> DEFINE p == CHOOSE q \in Pending(c.tgt, c.idx) : TRUE
           row == [key |-> k, src |-> c.src, tgt |-> c.tgt, idx |-> c.idx, amount |-> c.amount,
                   planned |-> expense[c.tgt].price, gen |-> p.gen, proof |-> SourceProof(c.src),
                   root |-> TargetProof(c.tgt), reversed |-> FALSE]
<1>1. funding' = funding \cup {row} /\ \A f \in funding : f.key # k
  BY DEF ApplyParcelaFunding, Unused
<1>2. /\ IsFunding(row) /\ row.reversed = FALSE /\ row.key = k /\ row.src = c.src /\ row.tgt = c.tgt
      /\ row.idx = c.idx
  BY NewFundingRow
<1> HIDE DEF row
<1> QED BY <1>1, <1>2

LEMMA KeysStep ==
  ASSUME KeysOnce, [Next]_vars
  PROVE  /\ KeysOnce'
         /\ \A f \in funding : f \in funding' \/ [f EXCEPT !.reversed = TRUE] \in funding'
<1>1. CASE UNCHANGED funding
  BY <1>1 DEF KeysOnce
<1>2. ASSUME NEW k \in Keys, NEW c \in Commands, ApplyParcelaFunding(k, c)
      PROVE  KeysOnce' /\ \A f \in funding : f \in funding'
  <2>1. PICK row : /\ funding' = funding \cup {row} /\ IsFunding(row) /\ row.reversed = FALSE
                   /\ row.key = k /\ \A f \in funding : f.key # k
    BY <1>2, ApplyFunding
  <2> QED BY <2>1 DEF KeysOnce
<1>3. ASSUME NEW f \in Active, UndoParcelaFunding(f)
      PROVE  /\ KeysOnce'
             /\ \A h \in funding : h \in funding' \/ [h EXCEPT !.reversed = TRUE] \in funding'
  <2> DEFINE g == [f EXCEPT !.reversed = TRUE]
  <2>1. f \in funding /\ IsFunding(f)  BY DEF Active, KeysOnce
  <2>2. IsFunding(g) /\ g.key = f.key /\ g.reversed = TRUE  BY <2>1, ReversedRow
  <2>3. funding' = (funding \ {f}) \cup {g}  BY <1>3 DEF UndoParcelaFunding
  <2> HIDE DEF g
  <2>4. KeysOnce'
    <3>1. \A h \in funding' : IsFunding(h) /\ h.key \in Keys /\ h.reversed \in BOOLEAN
      BY <2>1, <2>2, <2>3 DEF KeysOnce
    <3>2. \A h, j \in funding' : h.key = j.key => h = j
      BY <2>1, <2>2, <2>3 DEF KeysOnce
    <3> QED BY <3>1, <3>2 DEF KeysOnce
  <2>5. \A h \in funding : h \in funding' \/ h = f  BY <2>3
  <2>6. g \in funding'  BY <2>3
  <2> QED BY <2>4, <2>5, <2>6 DEF g
<1> QED BY <1>1, <1>2, <1>3, FundingWriters

LEMMA InitKeys == Init => KeysOnce
BY DEF Init, KeysOnce

\* A request key moves money once, in any interleaving of applications, undos and
\* repetitions (applyParcelaFunding and undoParcelaFunding; the unique request key).
THEOREM KeysMoveMoneyOnce == Spec => KeysAreSpent
<1>1. KeysOnce /\ [Next]_vars =>
        [/\ \A f \in funding : f \in funding' \/ [f EXCEPT !.reversed = TRUE] \in funding'
         /\ \A f, g \in funding' : f.key = g.key => f = g]_vars
  <2> SUFFICES ASSUME KeysOnce, [Next]_vars
               PROVE  /\ \A f \in funding : f \in funding' \/ [f EXCEPT !.reversed = TRUE] \in funding'
                      /\ \A f, g \in funding' : f.key = g.key => f = g
    OBVIOUS
  <2> QED BY KeysStep DEF KeysOnce
<1>2. KeysOnce /\ [Next]_vars => KeysOnce'
  BY KeysStep
<1> QED BY <1>1, <1>2, InitKeys, PTL DEF Spec, KeysAreSpent

-----------------------------------------------------------------------------
(* Settled or shared out.                                                  *)

\* Where the settlements, the shares and the active fundings of a step come from.
LEMMA LegacyWriters ==
  ASSUME [Next]_vars
  PROVE  \/ UNCHANGED legacy
         \/ \E c \in Settles : SettleTargetParcela(c.src, c.tgt, c.idx, c.real)
         \/ \E s \in Expenses : legacy' = legacy \ SettledBy(s) /\ UNCHANGED <<funding, share>>
<1>1. \/ UNCHANGED legacy
      \/ \E c \in Settles : SettleTargetParcela(c.src, c.tgt, c.idx, c.real)
      \/ \E s \in Expenses : UnsettleBySource(s, {}) \/ UnsettleBySource(s, {s})
  BY SettlementAssumption
     DEF SettlementAssumption, Next, vars, Operation, ApplyParcelaFunding, UndoParcelaFunding, RatearSource,
         ReverseSourceLinks, UnratearSource, LinkCrossProject, UnlinkCrossProject, Update,
         SetParcelaStatus, UpdateInstallmentDate, Remove, RemovePair
<1> QED BY <1>1 DEF UnsettleBySource

LEMMA ShareWriters ==
  ASSUME [Next]_vars
  PROVE  \/ UNCHANGED share
         \/ \E c \in Splits : RatearSource(c.src, c.parts)
         \/ \E s \in Expenses : \E removed \in BOOLEAN : \E unlinked : UnratearSource(s, removed, unlinked)
<1>1. \/ UNCHANGED share
      \/ \E c \in Splits : RatearSource(c.src, c.parts)
      \/ \E s \in Expenses : UnratearSource(s, FALSE, {})
      \/ \E s \in Expenses : UnratearSource(s, TRUE, {s})
  BY SettlementAssumption
     DEF SettlementAssumption, Next, vars, Operation, ApplyParcelaFunding, UndoParcelaFunding, SettleTargetParcela,
         ReverseSourceLinks, UnsettleBySource, LinkCrossProject, UnlinkCrossProject, Update,
         SetParcelaStatus, UpdateInstallmentDate, Remove, RemovePair
<1> QED BY <1>1

\* What a new rateio brings.
LEMMA SplitShares ==
  ASSUME NEW s, NEW parts, RatearSource(s, parts)
  PROVE  /\ UNCHANGED <<funding, legacy>> /\ SettledBy(s) = {} /\ ~Rated(s) /\ expense[s].alive
         /\ share' = (share \ SharedBy(s)) \cup
              {[src |-> s, tgt |-> t, part |-> parts[t], plan |-> Plan(Restored(s, t))] : t \in DOMAIN parts}
         /\ \A t \in DOMAIN parts :
              /\ expense[t].alive /\ SharedBy(t) = {} /\ ~InFunding(t)
              /\ \A r \in share : r.tgt = t => r.src = s
              /\ \A r \in legacy : r.tgt # t
BY DEF RatearSource, Shareable, GuardActiveFunding

\* What a new settlement brings.
LEMMA NewSettlement ==
  ASSUME NEW s, NEW t, NEW i, NEW real, SettleTargetParcela(s, t, i, real)
  PROVE  /\ UNCHANGED <<funding, share>> /\ SharedBy(s) = {} /\ ~Rated(t) /\ FundingOf(t, i) = {}
         /\ expense[s].alive /\ expense[t].alive /\ i \in Indexes(expense[t])
         /\ \E row : /\ row.src = s /\ row.tgt = t /\ row.idx = i /\ row.real = real
                     /\ legacy' = (legacy \ SettlementOf(t, i)) \cup {row}
<1> DEFINE old == SettlementOf(t, i)
           wasPaid == IF old = {} THEN i \in expense[t].paid ELSE \E r \in old : r.wasPaid
           row == [src |-> s, tgt |-> t, idx |-> i, real |-> real, wasPaid |-> wasPaid]
<1>1. legacy' = (legacy \ old) \cup {row}
  BY DEF SettleTargetParcela
<1>2. row.src = s /\ row.tgt = t /\ row.idx = i /\ row.real = real
  OBVIOUS
<1>3. /\ UNCHANGED <<funding, share>> /\ SharedBy(s) = {} /\ ~Rated(t) /\ FundingOf(t, i) = {}
      /\ expense[s].alive /\ expense[t].alive /\ i \in Indexes(expense[t])
  BY DEF SettleTargetParcela
<1> HIDE DEF row
<1> QED BY <1>1, <1>2, <1>3

LEMMA SharedStep ==
  ASSUME KeysOnce, SettledOrShared, [Next]_vars
  PROVE  SettledOrShared'
<1>1. CASE UNCHANGED <<legacy, share, funding>>
  BY <1>1 DEF SettledOrShared, InFunding, Active
<1>2. ASSUME NEW c \in Settles, SettleTargetParcela(c.src, c.tgt, c.idx, c.real)
      PROVE  SettledOrShared'
  <2>1. /\ SharedBy(c.src) = {} /\ ~Rated(c.tgt) /\ UNCHANGED <<funding, share>>
        /\ \A r \in legacy' : r \in legacy \/ (r.src = c.src /\ r.tgt = c.tgt)
    BY <1>2, NewSettlement
  <2> QED BY <2>1 DEF SettledOrShared, InFunding, Active, SharedBy, Rated
<1>3. ASSUME NEW s \in Expenses, legacy' = legacy \ SettledBy(s), UNCHANGED <<funding, share>>
      PROVE  SettledOrShared'
  BY <1>3 DEF SettledOrShared, InFunding, Active
<1>4. ASSUME NEW c \in Splits, RatearSource(c.src, c.parts)
      PROVE  SettledOrShared'
  <2>1. /\ UNCHANGED <<funding, legacy>> /\ SettledBy(c.src) = {}
        /\ \A r \in share' : r \in share \/ (r.src = c.src /\ r.tgt \in DOMAIN c.parts)
        /\ \A t \in DOMAIN c.parts : ~InFunding(t) /\ \A r \in legacy : r.tgt # t
    BY <1>4, SplitShares
  <2>2. \A e : InFunding(e)' = InFunding(e)  BY <2>1 DEF InFunding, Active
  <2> QED BY <2>1, <2>2 DEF SettledOrShared, SettledBy
<1>5. ASSUME NEW s \in Expenses, NEW removed \in BOOLEAN, NEW unlinked, UnratearSource(s, removed, unlinked)
      PROVE  SettledOrShared'
  <2>1. share' \subseteq share /\ UNCHANGED <<funding, legacy>>
    BY <1>5 DEF UnratearSource
  <2> QED BY <2>1 DEF SettledOrShared, InFunding, Active
<1>6. ASSUME NEW k \in Keys, NEW c \in Commands, ApplyParcelaFunding(k, c)
      PROVE  SettledOrShared'
  <2>1. PICK row : /\ funding' = funding \cup {row} /\ IsFunding(row) /\ row.reversed = FALSE
                   /\ row.key = k /\ row.src = c.src /\ row.tgt = c.tgt /\ row.idx = c.idx
                   /\ \A f \in funding : f.key # k
    BY <1>6, ApplyFunding
  <2>2. UNCHANGED <<legacy, share>> /\ ~InRateio(c.src) /\ ~InRateio(c.tgt)
    BY <1>6 DEF ApplyParcelaFunding, Context, Ordinary
  <2>3. \A e : InFunding(e)' => InFunding(e) \/ e \in {c.src, c.tgt}
    BY <2>1 DEF InFunding, Active
  <2> QED BY <2>2, <2>3 DEF SettledOrShared, InRateio, Rated
<1>7. ASSUME NEW f \in Active, UndoParcelaFunding(f)
      PROVE  SettledOrShared'
  <2> DEFINE g == [f EXCEPT !.reversed = TRUE]
  <2>1. funding' = (funding \ {f}) \cup {g} /\ UNCHANGED <<legacy, share>>
    BY <1>7 DEF UndoParcelaFunding
  <2>2. g.reversed = TRUE  BY ReversedRow DEF Active, KeysOnce
  <2> HIDE DEF g
  <2>3. \A e : InFunding(e)' => InFunding(e)
    BY <2>1, <2>2 DEF InFunding, Active
  <2> QED BY <2>1, <2>3 DEF SettledOrShared
<1>8. CASE UNCHANGED funding
  BY <1>1, <1>2, <1>3, <1>4, <1>5, <1>8, LegacyWriters, ShareWriters
<1> QED BY <1>6, <1>7, <1>8, FundingWriters

\* An expense is settled by installment or shared out, never both, and what is shared
\* out is not funded: each guard looks at the others' tables in every order of the
\* operations (settleTargetParcela, ratearSource and applyParcelaFunding).
THEOREM NothingIsSettledAndShared == Spec => []SettledOrShared
<1>1. Init => SettledOrShared  BY DEF Init, SettledOrShared
<1>2. KeysOnce /\ SettledOrShared /\ [Next]_vars => (KeysOnce /\ SettledOrShared)'
  BY KeysStep, SharedStep
<1> QED BY <1>1, <1>2, InitKeys, PTL DEF Spec

-----------------------------------------------------------------------------
(* What people settle and share out, in the theorems below.  A debit of    *)
(* the bank account is no purchase of a plan; a debit settles one          *)
(* installment; the siblings of a settled installment are not toggled.     *)
(* Without them the code loses a real value or a mirror, as the README     *)
(* tells.                                                                  *)

Debits == {c.src : c \in Settles} \cup {c.src : c \in Splits}
Purchases == {c.tgt : c \in Settles} \cup UNION {DOMAIN c.parts : c \in Splits}
Separate == Debits \cap Purchases = {}
SettlesOnce == \A c, d \in Settles : c.src = d.src => c.tgt = d.tgt /\ c.idx = d.idx
Untoggled == \A c \in Settles : c.tgt \notin Toggled

\* Where the rows of the two tables came from.
Origins ==
  /\ \A r \in legacy : \E c \in Settles : r.src = c.src /\ r.tgt = c.tgt /\ r.idx = c.idx
  /\ \A r \in share : \E c \in Splits : r.src = c.src /\ r.tgt \in DOMAIN c.parts

LEMMA Participants ==
  ASSUME Origins
  PROVE  /\ \A r \in legacy : r.src \in Expenses /\ r.tgt \in Expenses /\ r.src \in Debits /\ r.tgt \in Purchases
         /\ \A r \in share : r.src \in Expenses /\ r.tgt \in Expenses /\ r.src \in Debits /\ r.tgt \in Purchases
BY SettlementAssumption DEF SettlementAssumption, Origins, Debits, Purchases

LEMMA OriginsStep ==
  ASSUME Origins, [Next]_vars
  PROVE  Origins'
<1>1. \A r \in legacy' : \E c \in Settles : r.src = c.src /\ r.tgt = c.tgt /\ r.idx = c.idx
  <2>1. CASE legacy' \subseteq legacy
    BY <2>1 DEF Origins
  <2>2. ASSUME NEW c \in Settles, SettleTargetParcela(c.src, c.tgt, c.idx, c.real)
        PROVE  \A r \in legacy' : r \in legacy \/ (r.src = c.src /\ r.tgt = c.tgt /\ r.idx = c.idx)
    BY <2>2, NewSettlement
  <2> QED BY <2>1, <2>2, LegacyWriters DEF Origins
<1>2. \A r \in share' : \E c \in Splits : r.src = c.src /\ r.tgt \in DOMAIN c.parts
  <2>1. CASE share' \subseteq share
    BY <2>1 DEF Origins
  <2>2. ASSUME NEW c \in Splits, RatearSource(c.src, c.parts)
        PROVE  \A r \in share' : r \in share \/ (r.src = c.src /\ r.tgt \in DOMAIN c.parts)
    BY <2>2, SplitShares
  <2>3. ASSUME NEW s \in Expenses, NEW removed \in BOOLEAN, NEW unlinked, UnratearSource(s, removed, unlinked)
        PROVE  share' \subseteq share
    BY <2>3 DEF UnratearSource
  <2> QED BY <2>1, <2>2, <2>3, ShareWriters DEF Origins
<1> QED BY <1>1, <1>2 DEF Origins

-----------------------------------------------------------------------------
(* What each operation does to the rows of the expenses and to their       *)
(* entries.                                                                *)

Sheets ==
  /\ expense = [e \in Expenses |-> expense[e]] /\ cash = [e \in Expenses |-> cash[e]]
  /\ \A e \in Expenses : IsRow(expense[e])

\* A row lives on, with its link, when an operation only prices or pays it.
Same(e) == Kept(expense[e], expense'[e])

\* An entry that shows a settlement, and the cash flow that has one.
Shows(c, r) == c.live /\ c.by = None /\ c.idx = r.idx /\ c.paid /\ c.value = r.real
IsShown(C, r) == \E c \in C : Shows(c, r)

LEMMA TargetCashShows ==
  ASSUME NEW e, NEW x, NEW rows, NEW r \in rows, r.tgt = e, r.idx \in Indexes(x), FundingOf(e, r.idx) = {},
         \A q \in rows : q.tgt = e /\ q.idx = r.idx => q = r
  PROVE  IsShown(TargetCash(e, x, rows), r)
<1> DEFINE real(i) == {q \in rows : q.tgt = e /\ q.idx = i}
           values == [i \in Indexes(x) |-> IF real(i) = {} THEN x.price ELSE (CHOOSE q \in real(i) : TRUE).real]
           open == {i \in Indexes(x) : FundingOf(e, i) = {}}
           paid == x.paid \cup {i \in Indexes(x) : real(i) # {}}
           c == [by |-> None, gen |-> NextGen(e), idx |-> r.idx, value |-> values[r.idx],
                 paid |-> r.idx \in paid, live |-> TRUE]
<1>1. real(r.idx) = {r}  OBVIOUS
<1>2. values[r.idx] = r.real  BY <1>1
<1>3. r.idx \in open /\ r.idx \in paid  BY <1>1
<1>4. Entries(NextGen(e), values, paid, open) \subseteq TargetCash(e, x, rows)
  BY DEF TargetCash
<1>5. c \in Entries(NextGen(e), values, paid, open)
  BY <1>3 DEF Entries
<1>6. Shows(c, r)
  BY <1>2, <1>3 DEF Shows
<1> QED BY <1>4, <1>5, <1>6 DEF IsShown

\* An installment that is neither funded nor the one being written keeps its entry.
LEMMA ProjectTargetEffects ==
  ASSUME Sheets, KeysOnce, NEW t \in Expenses, NEW i, NEW rest, NEW P, ProjectTarget(t, i, rest, P),
         Cardinality(Pending(t, i)) = 1
  PROVE  /\ Sheets' /\ \A e \in Expenses : Same(e)
         /\ \A e \in Expenses : e # t => cash'[e] = cash[e]
         /\ \A r : r.idx # i /\ IsShown(cash[t], r) => IsShown(cash'[t], r)
<1> DEFINE p == CHOOSE c \in Pending(t, i) : TRUE
           keys == {f.key : f \in FundingOf(t, i)}
           kept == {c \in cash[t] : c # p /\ c.by \notin keys}
           paid == IF rest = 0 THEN expense[t].paid \cup {i} ELSE expense[t].paid \ {i}
<1>1. /\ cash' = [cash EXCEPT ![t] = kept \cup P \cup {[p EXCEPT !.value = rest, !.live = rest # 0]}]
      /\ expense' = [expense EXCEPT ![t].paid = paid]
  BY DEF ProjectTarget
<1>2. p.idx = i
  <2>1. Pending(t, i) # {}  BY FS_EmptySet
  <2> QED BY <2>1 DEF Pending
<1>3. None \notin keys
  BY SettlementAssumption DEF SettlementAssumption, KeysOnce, FundingOf, Active, None
<1> HIDE DEF p, keys, paid
<1>4. \A e \in Expenses : expense'[e] = IF e = t THEN [expense[t] EXCEPT !.paid = paid] ELSE expense[e]
  BY <1>1 DEF Sheets
<1>5. \A e \in Expenses : IsRow(expense'[e]) /\ Same(e)
  <2> TAKE e \in Expenses
  <2>1. CASE e = t
    <3>1. IsRow(expense[t])  BY DEF Sheets
    <3>2. expense'[e] = [expense[t] EXCEPT !.paid = paid]  BY <1>4, <2>1
    <3> QED BY <3>1, <3>2, <2>1, PaidRow DEF Same
  <2>2. CASE e # t
    BY <2>2, <1>4 DEF Sheets, Same, Kept
  <2> QED BY <2>1, <2>2
<1>6. Sheets'
  BY <1>1, <1>5 DEF Sheets
<1>7. ASSUME NEW r, r.idx # i, NEW c \in cash[t], Shows(c, r)
      PROVE  c \in cash'[t]
  <2>1. c \in kept  BY <1>2, <1>3, <1>7 DEF Shows
  <2> QED BY <2>1, <1>1 DEF Sheets
<1>8. \A e \in Expenses : e # t => cash'[e] = cash[e]
  BY <1>1 DEF Sheets
<1> QED BY <1>5, <1>6, <1>7, <1>8 DEF IsShown

LEMMA AlignedRow ==
  ASSUME NEW x, IsRow(x), NEW s, NEW part
  PROVE  LET y == Aligned(x, s, part)
         IN  IsRow(y) /\ y.alive = x.alive /\ y.link = x.link
<1> DEFINE price == part \div expense[s].count
           y == [x EXCEPT !.price = price, !.count = expense[s].count, !.paid = expense[s].paid]
<1>1. Aligned(x, s, part) = y  BY DEF Aligned
<1> HIDE DEF price
<1>2. IsRow(y) /\ y.alive = x.alive /\ y.link = x.link  BY DEF IsRow, Fields
<1> HIDE DEF y
<1> QED BY <1>1, <1>2

LEMMA RestoredRow ==
  ASSUME Sheets, NEW s, NEW e \in Expenses
  PROVE  /\ IsRow(Restored(s, e)) /\ Restored(s, e).alive = expense[e].alive
         /\ e \in TargetsOf(s) /\ expense[e].alive =>
              Plan(Restored(s, e)) = [price |-> PlanOf(e).price, count |-> PlanOf(e).count, paid |-> PlanOf(e).paid]
         /\ e \notin TargetsOf(s) => Plan(Restored(s, e)) = Plan(expense[e])
         /\ e \notin TargetsOf(s) \cup {s} => Restored(s, e) = expense[e]
<1>1. IsRow(expense[e])  BY DEF Sheets
<1>2. CASE e \in TargetsOf(s) /\ expense[e].alive
  <2> DEFINE p == PlanOf(e)
             y == [expense[e] EXCEPT !.price = p.price, !.count = p.count, !.paid = p.paid]
  <2>1. Restored(s, e) = y  BY <1>2 DEF Restored
  <2> HIDE DEF p
  <2>2. /\ IsRow(y) /\ y.alive = expense[e].alive
        /\ Plan(y) = [price |-> p.price, count |-> p.count, paid |-> p.paid]
    BY <1>1 DEF IsRow, Fields, Plan
  <2> HIDE DEF y
  <2> QED BY <1>2, <2>1, <2>2 DEF p
<1>3. CASE ~(e \in TargetsOf(s) /\ expense[e].alive) /\ e = s /\ TargetsOf(s) # {}
  <2>1. Restored(s, e) = [expense[e] EXCEPT !.link = Nobody]  BY <1>3 DEF Restored
  <2> QED BY <1>1, <1>3, <2>1, LinkedRow
<1>4. CASE ~(e \in TargetsOf(s) /\ expense[e].alive) /\ ~(e = s /\ TargetsOf(s) # {})
  BY <1>1, <1>4 DEF Restored
<1> QED BY <1>2, <1>3, <1>4

LEMMA ReopenedRow ==
  ASSUME Sheets, NEW s, NEW e \in Expenses
  PROVE  IsRow(Reopened(s, e)) /\ Kept(expense[e], Reopened(s, e))
BY PaidRow DEF Reopened, Sheets

LEMMA SettleEffects ==
  ASSUME Sheets, NEW s \in Expenses, NEW t \in Expenses, NEW i, NEW real, SettleTargetParcela(s, t, i, real)
  PROVE  /\ Sheets' /\ s # t
         /\ Same(t) /\ cash'[t] = TargetCash(t, expense'[t], legacy')
         /\ expense'[s].alive = expense[s].alive /\ expense'[s].link = t
         /\ \A e \in Expenses : e \notin {s, t} /\ (\A r \in SettlementOf(t, i) : r.src # e) =>
              expense'[e] = expense[e] /\ cash'[e] = cash[e]
<1> DEFINE old == SettlementOf(t, i)
           ousted == {r.src : r \in old} \ {s}
           target == [expense[t] EXCEPT !.paid = expense[t].paid \cup {i}]
           bound == [expense[s] EXCEPT !.link = t]
<1>1. s # t  BY DEF SettleTargetParcela
<1>2. expense' = [e \in Expenses |-> IF e = t THEN target ELSE IF e = s THEN bound
                    ELSE IF e \in ousted THEN Gone(expense[e]) ELSE expense[e]]
  BY DEF SettleTargetParcela
<1>3. cash' = [e \in Expenses |->
          IF e = t THEN TargetCash(t, target, legacy') ELSE IF e \in ousted THEN {} ELSE cash[e]]
  BY DEF SettleTargetParcela
<1>4. IsRow(target) /\ Kept(expense[t], target)
  BY PaidRow DEF Sheets
<1>5. IsRow(bound) /\ bound.alive = expense[s].alive /\ bound.link = t
  BY LinkedRow DEF Sheets
<1> HIDE DEF target, bound, ousted
<1>6. \A e \in Expenses : IsRow(expense'[e])
  BY <1>2, <1>4, <1>5, GoneRow DEF Sheets
<1>7. \A e \in Expenses : e \notin {s, t} /\ (\A r \in SettlementOf(t, i) : r.src # e) =>
              expense'[e] = expense[e] /\ cash'[e] = cash[e]
  BY <1>2, <1>3 DEF ousted
<1>8. expense'[t] = target /\ expense'[s] = bound /\ cash'[t] = TargetCash(t, target, legacy')
  BY <1>1, <1>2, <1>3
<1> QED BY <1>1, <1>2, <1>3, <1>4, <1>5, <1>6, <1>7, <1>8 DEF Sheets, Same

LEMMA UnsettleEffects ==
  ASSUME Sheets, NEW s \in Expenses, NEW U, UnsettleBySource(s, U)
  PROVE  /\ Sheets' /\ UNCHANGED <<funding, share>> /\ legacy' = legacy \ SettledBy(s)
         /\ \A e \in Expenses : e # s =>
              /\ expense'[e].alive = expense[e].alive /\ expense'[e].count = expense[e].count
              /\ expense[e].link \notin U => expense'[e].link = expense[e].link
              /\ cash'[e] = cash[e] \/ \E x : x.count = expense[e].count /\ cash'[e] = TargetCash(e, x, legacy')
<1> DEFINE targets == {t \in {r.tgt : r \in SettledBy(s)} : expense[t].alive}
<1>1. /\ UNCHANGED <<funding, share>> /\ legacy' = legacy \ SettledBy(s)
      /\ expense' = [e \in Expenses |->
          IF e = s THEN Gone(expense[s])
          ELSE IF e \in targets THEN Forget(Reopened(s, e), U) ELSE Forget(expense[e], U)]
      /\ cash' = [e \in Expenses |->
          IF e = s THEN {}
          ELSE IF e \in targets THEN TargetCash(e, Reopened(s, e), legacy') ELSE cash[e]]
  BY DEF UnsettleBySource
<1> HIDE DEF targets
<1>2. \A e \in Expenses : e # s =>
        /\ IsRow(expense'[e]) /\ expense'[e].alive = expense[e].alive /\ expense'[e].count = expense[e].count
        /\ expense[e].link \notin U => expense'[e].link = expense[e].link
        /\ cash'[e] = cash[e] \/ \E x : x.count = expense[e].count /\ cash'[e] = TargetCash(e, x, legacy')
  <2> TAKE e \in Expenses
  <2> HAVE e # s
  <2>1. IsRow(expense[e]) /\ IsRow(Reopened(s, e)) /\ Kept(expense[e], Reopened(s, e))
    BY ReopenedRow DEF Sheets
  <2>2. CASE e \in targets
    <3>1. expense'[e] = Forget(Reopened(s, e), U) /\ cash'[e] = TargetCash(e, Reopened(s, e), legacy')
      BY <1>1, <2>2
    <3> QED BY <2>1, <3>1, ForgetRow DEF Kept
  <2>3. CASE e \notin targets
    <3>1. expense'[e] = Forget(expense[e], U) /\ cash'[e] = cash[e]
      BY <1>1, <2>3
    <3> QED BY <2>1, <3>1, ForgetRow
  <2> QED BY <2>2, <2>3
<1>3. IsRow(expense'[s])
  BY <1>1, GoneRow DEF Sheets
<1> QED BY <1>1, <1>2, <1>3 DEF Sheets

LEMMA UnratearEffects ==
  ASSUME Sheets, NEW s \in Expenses, NEW removed, NEW U, UnratearSource(s, removed, U)
  PROVE  /\ Sheets' /\ UNCHANGED <<funding, legacy>> /\ SharedBy(s) # {} /\ share' = share \ SharedBy(s)
         /\ \A e \in Expenses : e # s =>
              /\ expense'[e].alive = expense[e].alive
              /\ Plan(expense'[e]) = Plan(Restored(s, e))
              /\ e \notin TargetsOf(s) => cash'[e] = cash[e] /\ Plan(expense'[e]) = Plan(expense[e])
              /\ e \notin TargetsOf(s) /\ expense[e].link \notin U => expense'[e] = expense[e]
<1>1. /\ UNCHANGED <<funding, legacy>> /\ SharedBy(s) # {} /\ share' = share \ SharedBy(s)
      /\ expense' = [e \in Expenses |->
           IF e = s /\ removed THEN Gone(expense[s]) ELSE Forget(Restored(s, e), U)]
      /\ cash' = [e \in Expenses |->
           IF e = s /\ removed THEN {}
           ELSE IF e \in TargetsOf(s) /\ expense[e].alive THEN TargetCash(e, Restored(s, e), legacy)
           ELSE cash[e]]
  BY DEF UnratearSource
<1>2. \A e \in Expenses : IsRow(expense'[e])
  <2> TAKE e \in Expenses
  <2>1. CASE e = s /\ removed
    BY <1>1, <2>1, GoneRow DEF Sheets
  <2>2. CASE ~(e = s /\ removed)
    BY <1>1, <2>2, RestoredRow, ForgetRow
  <2> QED BY <2>1, <2>2
<1>3. \A e \in Expenses : e # s =>
        /\ expense'[e].alive = expense[e].alive /\ Plan(expense'[e]) = Plan(Restored(s, e))
        /\ e \notin TargetsOf(s) => cash'[e] = cash[e] /\ Plan(expense'[e]) = Plan(expense[e])
        /\ e \notin TargetsOf(s) /\ expense[e].link \notin U => expense'[e] = expense[e]
  <2> TAKE e \in Expenses
  <2> HAVE e # s
  <2>1. expense'[e] = Forget(Restored(s, e), U) /\ (e \notin TargetsOf(s) => cash'[e] = cash[e])
    BY <1>1
  <2>2. /\ IsRow(Restored(s, e)) /\ Restored(s, e).alive = expense[e].alive
        /\ e \notin TargetsOf(s) => Restored(s, e) = expense[e]
    BY RestoredRow
  <2> QED BY <2>1, <2>2, ForgetRow
<1> QED BY <1>1, <1>2, <1>3 DEF Sheets

LEMMA RatearEffects ==
  ASSUME Sheets, NEW s \in Expenses, NEW parts, RatearSource(s, parts)
  PROVE  /\ Sheets' /\ s \notin DOMAIN parts
         /\ \A e \in Expenses : expense'[e].alive = expense[e].alive
         /\ \A e \in Expenses : e \notin DOMAIN parts \cup {s} => Plan(expense'[e]) = Plan(Restored(s, e))
         /\ Plan(expense'[s]) = Plan(expense[s])
         /\ \A e \in Expenses : e \notin DOMAIN parts \cup TargetsOf(s) \cup {s} =>
              expense'[e] = expense[e] /\ cash'[e] = cash[e]
<1> DEFINE aligned(t) == Aligned(Restored(s, t), s, parts[t])
<1>1. PICK first \in DOMAIN parts :
        expense' = [e \in Expenses |->
            IF e \in DOMAIN parts THEN aligned(e)
            ELSE IF e = s THEN [expense[s] EXCEPT !.link = first] ELSE Restored(s, e)]
  BY DEF RatearSource
<1>2. cash' = [e \in Expenses |->
          IF e \in DOMAIN parts THEN PlainCash(e, aligned(e))
          ELSE IF e \in TargetsOf(s) THEN TargetCash(e, Restored(s, e), legacy) ELSE cash[e]]
  BY DEF RatearSource
<1>3. s \notin DOMAIN parts
  BY DEF RatearSource, Shareable
<1>4. \A e \in Expenses : /\ IsRow(aligned(e)) /\ aligned(e).alive = expense[e].alive
  BY AlignedRow, RestoredRow
<1> HIDE DEF aligned
<1>5. IsRow(expense'[s]) /\ expense'[s].alive = expense[s].alive /\ Plan(expense'[s]) = Plan(expense[s])
  <2>1. expense'[s] = [expense[s] EXCEPT !.link = first]  BY <1>1, <1>3
  <2> QED BY <2>1, LinkedRow DEF Sheets
<1>6. \A e \in Expenses : IsRow(expense'[e]) /\ expense'[e].alive = expense[e].alive
  <2> TAKE e \in Expenses
  <2>1. CASE e \in DOMAIN parts
    BY <1>1, <1>4, <2>1
  <2>2. CASE e \notin DOMAIN parts /\ e # s
    <3>1. expense'[e] = Restored(s, e)  BY <1>1, <2>2
    <3> QED BY <3>1, RestoredRow
  <2> QED BY <1>5, <2>1, <2>2
<1>7. \A e \in Expenses : e \notin DOMAIN parts \cup {s} => expense'[e] = Restored(s, e)
  BY <1>1
<1>8. \A e \in Expenses : e \notin DOMAIN parts \cup TargetsOf(s) \cup {s} =>
              expense'[e] = expense[e] /\ cash'[e] = cash[e]
  BY <1>2, <1>7, RestoredRow
<1> QED BY <1>1, <1>2, <1>3, <1>5, <1>6, <1>7, <1>8 DEF Sheets

LEMMA LinkEffects ==
  ASSUME Sheets, NEW s \in Expenses, NEW t, expense' = [expense EXCEPT ![s].link = t], UNCHANGED cash
  PROVE  /\ Sheets' /\ \A e \in Expenses : e # s => expense'[e] = expense[e]
         /\ expense'[s].alive = expense[s].alive /\ expense'[s].count = expense[s].count
         /\ Plan(expense'[s]) = Plan(expense[s])
<1>1. \A e \in Expenses : e # s => expense'[e] = expense[e]
  BY DEF Sheets
<1>2. expense'[s] = [expense[s] EXCEPT !.link = t]
  BY DEF Sheets
<1>3. /\ IsRow(expense'[s]) /\ expense'[s].alive = expense[s].alive /\ expense'[s].count = expense[s].count
      /\ Plan(expense'[s]) = Plan(expense[s])
  BY <1>2, LinkedRow DEF Sheets
<1>4. \A e \in Expenses : IsRow(expense'[e])
  BY <1>1, <1>3 DEF Sheets
<1> QED BY <1>1, <1>3, <1>4 DEF Sheets

LEMMA UpdateEffects ==
  ASSUME Sheets, NEW e \in Expenses, NEW v, Update(e, v)
  PROVE  /\ Sheets' /\ UNCHANGED <<funding, legacy, share>>
         /\ \A o \in Expenses : Same(o)
         /\ \A o \in Expenses : InSettlement(o) \/ InRateio(o) => expense'[o] = expense[o] /\ cash'[o] = cash[o]
<1> DEFINE changed == {e} \cup {o \in LinkedTo(e) : ~InSettlement(o) /\ ~InRateio(o) /\ expense[o].price # v}
<1>1. /\ ~InSettlement(e) /\ ~InRateio(e) /\ UNCHANGED <<funding, legacy, share>>
      /\ expense' = [o \in Expenses |-> IF o \in changed THEN Priced(expense[o], v) ELSE expense[o]]
      /\ cash' = [o \in Expenses |-> IF o \in changed THEN PlainCash(o, Priced(expense[o], v)) ELSE cash[o]]
  BY DEF Update
<1>2. \A o \in changed : ~InSettlement(o) /\ ~InRateio(o)
  BY <1>1
<1> HIDE DEF changed
<1>3. \A o \in Expenses : IsRow(expense'[o]) /\ Same(o)
  BY <1>1, PricedRow DEF Sheets, Same, Kept
<1> QED BY <1>1, <1>2, <1>3 DEF Sheets

LEMMA ToggleEffects ==
  ASSUME Sheets, NEW e \in Expenses, NEW i, NEW paid, SetParcelaStatus(e, i, paid)
  PROVE  /\ Sheets' /\ UNCHANGED <<funding, legacy, share>> /\ ~InRateio(e)
         /\ \A o \in Expenses : Same(o)
         /\ \A o \in Expenses : o # e => expense'[o] = expense[o] /\ cash'[o] = cash[o]
<1> DEFINE x == [expense[e] EXCEPT !.paid = IF paid THEN expense[e].paid \cup {i} ELSE expense[e].paid \ {i}]
<1>1. /\ ~InRateio(e) /\ UNCHANGED <<funding, legacy, share>> /\ expense' = [expense EXCEPT ![e] = x]
      /\ cash' = [cash EXCEPT ![e] = PlainCash(e, x)]
  BY DEF SetParcelaStatus
<1>2. IsRow(x) /\ Kept(expense[e], x)
  BY PaidRow DEF Sheets
<1> HIDE DEF x
<1>3. expense'[e] = x /\ \A o \in Expenses : o # e => expense'[o] = expense[o] /\ cash'[o] = cash[o]
  BY <1>1 DEF Sheets
<1> QED BY <1>1, <1>2, <1>3 DEF Sheets, Same, Kept

LEMMA MoveEffects ==
  ASSUME Sheets, SettledOrShared, NEW e \in Expenses, NEW i, UpdateInstallmentDate(e, i)
  PROVE  /\ Sheets' /\ UNCHANGED <<expense, funding, legacy, share>>
         /\ \A r \in legacy : r.tgt \in Expenses =>
              cash'[r.tgt] = cash[r.tgt] \/ cash'[r.tgt] = TargetCash(r.tgt, expense[r.tgt], legacy)
<1> DEFINE target == \E r \in legacy : r.tgt = e
           pair == IF target \/ SharedBy(e) # {} THEN {} ELSE {o \in LinkedTo(e) : ~InSettlement(o)}
<1>1. /\ UNCHANGED <<expense, funding, legacy, share>>
      /\ cash' = [o \in Expenses |->
          IF o = e /\ target THEN TargetCash(e, expense[e], legacy)
          ELSE IF o \in {e} \cup pair \cup TargetsOf(e) THEN PlainCash(o, expense[o]) ELSE cash[o]]
  BY DEF UpdateInstallmentDate
<1>2. \A r \in legacy : r.tgt \notin pair /\ r.tgt \notin TargetsOf(e)
  BY DEF InSettlement, TargetsOf, SharedBy, SettledOrShared
<1> QED BY <1>1, <1>2 DEF Sheets

LEMMA PairEffects ==
  ASSUME Sheets, NEW e \in Expenses, RemovePair(e)
  PROVE  /\ Sheets' /\ UNCHANGED <<funding, legacy, share>>
         /\ \E gone \in SUBSET Expenses :
              /\ e \in gone /\ \A o \in gone : o = e \/ (~InSettlement(o) /\ ~InRateio(o))
              /\ \A o \in Expenses : o \notin gone =>
                   /\ expense'[o].alive = expense[o].alive /\ Plan(expense'[o]) = Plan(expense[o])
                   /\ expense'[o].count = expense[o].count /\ cash'[o] = cash[o]
                   /\ expense[o].link \notin gone => expense'[o] = expense[o]
<1> DEFINE gone == {e} \cup {o \in LinkedTo(e) : ~InSettlement(e) /\ ~InSettlement(o) /\ ~InRateio(o)}
<1>1. /\ UNCHANGED <<funding, legacy, share>>
      /\ expense' = [o \in Expenses |->
          IF o \in gone THEN [expense[o] EXCEPT !.alive = FALSE] ELSE Forget(expense[o], gone)]
      /\ cash' = [o \in Expenses |-> IF o \in gone THEN {} ELSE cash[o]]
  BY DEF RemovePair
<1>2. gone \subseteq Expenses /\ e \in gone /\ \A o \in gone : o = e \/ (~InSettlement(o) /\ ~InRateio(o))
  BY DEF LinkedTo
<1> HIDE DEF gone
<1>3. \A o \in Expenses : IsRow(expense'[o])
  <2> TAKE o \in Expenses
  <2>1. CASE o \in gone
    <3>1. expense'[o] = [expense[o] EXCEPT !.alive = FALSE]  BY <1>1, <2>1
    <3> QED BY <3>1, DeadRow DEF Sheets
  <2>2. CASE o \notin gone
    <3>1. expense'[o] = Forget(expense[o], gone)  BY <1>1, <2>2
    <3> QED BY <3>1, ForgetRow DEF Sheets
  <2> QED BY <2>1, <2>2
<1>4. \A o \in Expenses : o \notin gone =>
        /\ expense'[o].alive = expense[o].alive /\ Plan(expense'[o]) = Plan(expense[o])
        /\ expense'[o].count = expense[o].count /\ cash'[o] = cash[o]
        /\ expense[o].link \notin gone => expense'[o] = expense[o]
  <2> TAKE o \in Expenses
  <2> HAVE o \notin gone
  <2>1. expense'[o] = Forget(expense[o], gone) /\ cash'[o] = cash[o]  BY <1>1
  <2> QED BY <2>1, ForgetRow DEF Sheets
<1> QED BY <1>1, <1>2, <1>3, <1>4 DEF Sheets

-----------------------------------------------------------------------------
(* Settled installments.                                                   *)

Standing(r) ==
  /\ expense[r.src].alive /\ expense[r.src].link = r.tgt
  /\ r.idx \in Indexes(expense[r.tgt]) /\ FundingOf(r.tgt, r.idx) = {} /\ IsShown(cash[r.tgt], r)

\* One settlement per installment: the table's unique key.
OnePerInstallment == \A q, r \in legacy : q.tgt = r.tgt /\ q.idx = r.idx => q = r

LEMMA OnePerInstallmentStep ==
  ASSUME OnePerInstallment, [Next]_vars
  PROVE  OnePerInstallment'
<1>1. CASE legacy' \subseteq legacy
  BY <1>1 DEF OnePerInstallment
<1>2. ASSUME NEW c \in Settles, SettleTargetParcela(c.src, c.tgt, c.idx, c.real)
      PROVE  OnePerInstallment'
  <2>1. PICK row : row.src = c.src /\ row.tgt = c.tgt /\ row.idx = c.idx /\ row.real = c.real
                   /\ legacy' = (legacy \ SettlementOf(c.tgt, c.idx)) \cup {row}
    BY <1>2, NewSettlement
  <2> QED BY <2>1 DEF OnePerInstallment, SettlementOf
<1> QED BY <1>1, <1>2, LegacyWriters

\* An entry that stays, or is written again by a regeneration that knows the settlements.
LEMMA StillShown ==
  ASSUME NEW r \in legacy', OnePerInstallment', Standing(r), UNCHANGED funding,
         \/ cash'[r.tgt] = cash[r.tgt]
         \/ \E x : x.count = expense[r.tgt].count /\ cash'[r.tgt] = TargetCash(r.tgt, x, legacy')
  PROVE  IsShown(cash'[r.tgt], r) /\ (FundingOf(r.tgt, r.idx) = {})'
<1>1. FundingOf(r.tgt, r.idx) = {} /\ FundingOf(r.tgt, r.idx)' = {}
  BY DEF Standing, FundingOf, Active
<1>2. ASSUME NEW x, x.count = expense[r.tgt].count, cash'[r.tgt] = TargetCash(r.tgt, x, legacy')
      PROVE  IsShown(cash'[r.tgt], r)
  <2>1. r.idx \in Indexes(x)  BY <1>2 DEF Standing, Indexes
  <2>2. \A q \in legacy' : q.tgt = r.tgt /\ q.idx = r.idx => q = r  BY DEF OnePerInstallment
  <2> QED BY <1>1, <1>2, <2>1, <2>2, TargetCashShows
<1> QED BY <1>1, <1>2 DEF Standing

\* A step, by what it does to the rows.
Relinked(s) ==
  /\ SettledBy(s) = {} /\ ~InRateio(s) /\ ~InFunding(s) /\ UNCHANGED <<cash, funding, legacy, share>>
  /\ \E t : /\ t = Nobody \/ (t \in Expenses /\ ~InFunding(t))
            /\ expense' = [expense EXCEPT ![s].link = t]
RemovedPair(e) ==
  RemovePair(e) /\ ~InRateio(e) /\ ~InFunding(e) /\ SettledBy(e) = {} /\ \A r \in legacy : r.tgt # e

LEMMA Steps ==
  ASSUME [Next]_vars
  PROVE  \/ UNCHANGED vars
         \/ \E k \in Keys, c \in Commands : ApplyParcelaFunding(k, c)
         \/ \E f \in Active : UndoParcelaFunding(f)
         \/ \E c \in Settles : SettleTargetParcela(c.src, c.tgt, c.idx, c.real)
         \/ \E c \in Splits : RatearSource(c.src, c.parts)
         \/ \E s \in Expenses : \E U \in SUBSET {s} : UnsettleBySource(s, U)
         \/ \E s \in Expenses, removed \in BOOLEAN : \E U \in SUBSET {s} : UnratearSource(s, removed, U)
         \/ \E s \in Expenses : Relinked(s)
         \/ \E e \in Expenses, v \in Prices : Update(e, v)
         \/ \E e \in Toggled, paid \in BOOLEAN : \E i : SetParcelaStatus(e, i, paid)
         \/ \E e \in Expenses : \E i : UpdateInstallmentDate(e, i)
         \/ \E e \in Expenses : RemovedPair(e)
<1> SUFFICES ASSUME Operation
             PROVE  \/ \E k \in Keys, c \in Commands : ApplyParcelaFunding(k, c)
                    \/ \E f \in Active : UndoParcelaFunding(f)
                    \/ \E c \in Settles : SettleTargetParcela(c.src, c.tgt, c.idx, c.real)
                    \/ \E c \in Splits : RatearSource(c.src, c.parts)
                    \/ \E s \in Expenses : \E U \in SUBSET {s} : UnsettleBySource(s, U)
                    \/ \E s \in Expenses, removed \in BOOLEAN : \E U \in SUBSET {s} : UnratearSource(s, removed, U)
                    \/ \E s \in Expenses : Relinked(s)
                    \/ \E e \in Expenses, v \in Prices : Update(e, v)
                    \/ \E e \in Toggled, paid \in BOOLEAN : \E i : SetParcelaStatus(e, i, paid)
                    \/ \E e \in Expenses : \E i : UpdateInstallmentDate(e, i)
                    \/ \E e \in Expenses : RemovedPair(e)
  BY DEF Next
<1>1. ASSUME NEW s \in Expenses, ReverseSourceLinks(s)
      PROVE  \/ \E U \in SUBSET {s} : UnsettleBySource(s, U)
             \/ \E U \in SUBSET {s} : UnratearSource(s, FALSE, U)
  BY <1>1 DEF ReverseSourceLinks
<1>2. ASSUME NEW l \in Links, LinkCrossProject(l[1], l[2]) \/ UnlinkCrossProject(l[1])
      PROVE  \E s \in Expenses : Relinked(s)
  <2>1. l[1] \in Expenses /\ l[2] \in Expenses  BY SettlementAssumption DEF SettlementAssumption
  <2>2. Relinked(l[1])
    BY <1>2, <2>1 DEF LinkCrossProject, UnlinkCrossProject, MayRelink, Relinked, GuardActiveFunding
  <2> QED BY <2>1, <2>2
<1>3. ASSUME NEW e \in Removed, Remove(e)
      PROVE  /\ e \in Expenses
             /\ \/ \E U \in SUBSET {e} : UnsettleBySource(e, U)
                \/ \E U \in SUBSET {e} : UnratearSource(e, TRUE, U)
                \/ RemovedPair(e)
  BY <1>3, SettlementAssumption DEF SettlementAssumption, Remove, RemovedPair, InRateio
<1>4. Edited \cup Toggled \cup Moved \subseteq Expenses
  BY SettlementAssumption DEF SettlementAssumption
<1>5. CASE \E s \in Expenses : ReverseSourceLinks(s)
  BY <1>1, <1>5
<1>6. CASE \E l \in Links : LinkCrossProject(l[1], l[2]) \/ UnlinkCrossProject(l[1])
  BY <1>2, <1>6
<1>7. CASE \E e \in Removed : Remove(e)
  BY <1>3, <1>7
<1>8. CASE \/ \E e \in Edited, v \in Prices : Update(e, v)
           \/ \E e \in Moved : \E i \in Indexes(expense[e]) : UpdateInstallmentDate(e, i)
  BY <1>4, <1>8
<1>9. CASE \E e \in Toggled, paid \in BOOLEAN : \E i \in Indexes(expense[e]) : SetParcelaStatus(e, i, paid)
  BY <1>9
<1> QED BY <1>5, <1>6, <1>7, <1>8, <1>9 DEF Operation

\* The participants of a funding are expenses.
FundingExpenses == \A f \in funding : f.src \in Expenses /\ f.tgt \in Expenses

LEMMA FundingExpensesStep ==
  ASSUME KeysOnce, FundingExpenses, [Next]_vars
  PROVE  FundingExpenses'
<1>1. CASE UNCHANGED funding
  BY <1>1 DEF FundingExpenses
<1>2. ASSUME NEW k \in Keys, NEW c \in Commands, ApplyParcelaFunding(k, c)
      PROVE  FundingExpenses'
  <2>1. PICK row : /\ funding' = funding \cup {row} /\ IsFunding(row) /\ row.reversed = FALSE
                   /\ row.key = k /\ row.src = c.src /\ row.tgt = c.tgt /\ row.idx = c.idx
                   /\ \A f \in funding : f.key # k
    BY <1>2, ApplyFunding
  <2> QED BY <2>1, SettlementAssumption DEF SettlementAssumption, FundingExpenses
<1>3. ASSUME NEW f \in Active, UndoParcelaFunding(f)
      PROVE  FundingExpenses'
  <2> DEFINE g == [f EXCEPT !.reversed = TRUE]
  <2>1. f \in funding /\ IsFunding(f)  BY DEF Active, KeysOnce
  <2>2. g.src = f.src /\ g.tgt = f.tgt  BY <2>1, ReversedRow
  <2>3. funding' = (funding \ {f}) \cup {g}  BY <1>3 DEF UndoParcelaFunding
  <2> HIDE DEF g
  <2> QED BY <2>1, <2>2, <2>3 DEF FundingExpenses
<1> QED BY <1>1, <1>2, <1>3, FundingWriters

\* A funding or its undo leaves the rows alive and the settled installments alone.
FundingLeaves ==
  /\ Sheets' /\ UNCHANGED <<legacy, share>> /\ \A e \in Expenses : Same(e)
  /\ \A r \in legacy : r.tgt \in Expenses /\ FundingOf(r.tgt, r.idx) = {} /\ IsShown(cash[r.tgt], r) =>
       FundingOf(r.tgt, r.idx)' = {} /\ IsShown(cash'[r.tgt], r)

LEMMA FundingEffects ==
  ASSUME Sheets, KeysOnce, NEW t \in Expenses, NEW i, NEW rest, NEW P, ProjectTarget(t, i, rest, P),
         TargetOccurrence(t, i), UNCHANGED <<legacy, share>>,
         \A r : r.tgt # t \/ r.idx # i => FundingOf(r.tgt, r.idx)' \subseteq FundingOf(r.tgt, r.idx)
  PROVE  FundingLeaves
<1>1. SettlementOf(t, i) = {} /\ Cardinality(Pending(t, i)) = 1
  BY DEF TargetOccurrence
<1>2. /\ Sheets' /\ \A e \in Expenses : Same(e)
      /\ \A e \in Expenses : e # t => cash'[e] = cash[e]
      /\ \A r : r.idx # i /\ IsShown(cash[t], r) => IsShown(cash'[t], r)
  BY <1>1, ProjectTargetEffects
<1>3. \A r \in legacy : r.tgt # t \/ r.idx # i
  BY <1>1 DEF SettlementOf
<1> QED BY <1>2, <1>3 DEF FundingLeaves

LEMMA FundingStep ==
  ASSUME Sheets, KeysOnce, FundingExpenses,
         \/ \E k \in Keys, c \in Commands : ApplyParcelaFunding(k, c)
         \/ \E f \in Active : UndoParcelaFunding(f)
  PROVE  FundingLeaves
<1>1. ASSUME NEW k \in Keys, NEW c \in Commands, ApplyParcelaFunding(k, c)
      PROVE  FundingLeaves
  <2>1. PICK row : /\ funding' = funding \cup {row} /\ IsFunding(row) /\ row.reversed = FALSE
                   /\ row.key = k /\ row.src = c.src /\ row.tgt = c.tgt /\ row.idx = c.idx
                   /\ \A f \in funding : f.key # k
    BY <1>1, ApplyFunding
  <2>2. c.tgt \in Expenses  BY SettlementAssumption DEF SettlementAssumption
  <2>3. /\ TargetOccurrence(c.tgt, c.idx) /\ UNCHANGED <<legacy, share>>
        /\ \E rest, P : ProjectTarget(c.tgt, c.idx, rest, P)
    BY <1>1 DEF ApplyParcelaFunding, Context
  <2>4. \A r : r.tgt # c.tgt \/ r.idx # c.idx => FundingOf(r.tgt, r.idx)' \subseteq FundingOf(r.tgt, r.idx)
    BY <2>1 DEF FundingOf, Active
  <2> QED BY <2>2, <2>3, <2>4, FundingEffects
<1>2. ASSUME NEW f \in Active, UndoParcelaFunding(f)
      PROVE  FundingLeaves
  <2> DEFINE g == [f EXCEPT !.reversed = TRUE]
  <2>1. f \in funding /\ IsFunding(f)  BY DEF Active, KeysOnce
  <2>2. g.reversed = TRUE  BY <2>1, ReversedRow
  <2>3. funding' = (funding \ {f}) \cup {g}  BY <1>2 DEF UndoParcelaFunding
  <2> HIDE DEF g
  <2>4. /\ TargetOccurrence(f.tgt, f.idx) /\ UNCHANGED <<legacy, share>>
        /\ \E rest, P : ProjectTarget(f.tgt, f.idx, rest, P)
    BY <1>2 DEF UndoParcelaFunding, Context
  <2>5. \A r : FundingOf(r.tgt, r.idx)' \subseteq FundingOf(r.tgt, r.idx)
    BY <2>2, <2>3 DEF FundingOf, Active
  <2> QED BY <2>1, <2>4, <2>5, FundingEffects DEF FundingExpenses
<1> QED BY <1>1, <1>2

-----------------------------------------------------------------------------
(* What the rateios share out lives on, with a plan to come back to.       *)

SharedLive == \A r \in share : expense[r.tgt].alive

Books == Sheets /\ KeysOnce /\ FundingExpenses /\ Origins /\ SettledOrShared /\ SharedLive

LEMMA BooksInit == Init => Books
<1> SUFFICES ASSUME Init PROVE Books  OBVIOUS
<1>1. \A e \in Expenses : IsRow(expense[e])
  BY DEF Init, IsRow, Fields
<1>2. expense = [e \in Expenses |-> expense[e]] /\ cash = [e \in Expenses |-> cash[e]]
  BY DEF Init
<1> QED BY <1>1, <1>2 DEF Init, Books, Sheets, KeysOnce, FundingExpenses, Origins, SettledOrShared, SharedLive

LEMMA BooksStep ==
  ASSUME Separate, Books, [Next]_vars
  PROVE  Books'
<1>1. (KeysOnce /\ FundingExpenses /\ Origins /\ SettledOrShared)'
  BY KeysStep, FundingExpensesStep, OriginsStep, SharedStep DEF Books
<1> SUFFICES Sheets' /\ SharedLive'
  BY <1>1 DEF Books
<1>2. Sheets /\ KeysOnce /\ FundingExpenses /\ SettledOrShared /\ SharedLive
  BY DEF Books
<1>3. \A r \in share : r.tgt \in Expenses /\ r.tgt \in Purchases
  BY Participants DEF Books
<1>4. CASE UNCHANGED vars
  BY <1>2, <1>4 DEF vars, Sheets, SharedLive
<1>5. CASE \/ \E k \in Keys, c \in Commands : ApplyParcelaFunding(k, c)
           \/ \E f \in Active : UndoParcelaFunding(f)
  <2>1. FundingLeaves  BY <1>2, <1>5, FundingStep
  <2> QED BY <1>2, <1>3, <2>1 DEF FundingLeaves, Same, Kept, SharedLive
<1>6. ASSUME NEW c \in Settles, SettleTargetParcela(c.src, c.tgt, c.idx, c.real)
      PROVE  Sheets' /\ SharedLive'
  <2>1. c.src \in Expenses /\ c.tgt \in Expenses /\ c.src \in Debits
    BY SettlementAssumption DEF SettlementAssumption, Debits
  <2>2. /\ Sheets' /\ Same(c.tgt)
        /\ \A e \in Expenses : e \notin {c.src, c.tgt} /\ (\A r \in SettlementOf(c.tgt, c.idx) : r.src # e) =>
              expense'[e] = expense[e]
    BY <1>2, <1>6, <2>1, SettleEffects
  <2>3. \A r \in share : r.tgt # c.src /\ \A q \in SettlementOf(c.tgt, c.idx) : q.src # r.tgt
    BY <1>3, <2>1, Participants DEF Books, Separate, SettlementOf
  <2>4. UNCHANGED share  BY <1>6, NewSettlement
  <2> QED BY <1>2, <1>3, <2>2, <2>3, <2>4 DEF SharedLive, Same, Kept
<1>7. ASSUME NEW c \in Splits, RatearSource(c.src, c.parts)
      PROVE  Sheets' /\ SharedLive'
  <2>1. c.src \in Expenses /\ \A t \in DOMAIN c.parts : t \in Expenses
    BY SettlementAssumption DEF SettlementAssumption
  <2>2. Sheets' /\ \A e \in Expenses : expense'[e].alive = expense[e].alive
    BY <1>2, <1>7, <2>1, RatearEffects
  <2>3. /\ \A r \in share' : r \in share \/ r.tgt \in DOMAIN c.parts
        /\ \A t \in DOMAIN c.parts : expense[t].alive
    BY <1>7, SplitShares
  <2> QED BY <1>2, <1>3, <2>1, <2>2, <2>3 DEF SharedLive
<1>8. ASSUME NEW s \in Expenses, NEW U \in SUBSET {s}, UnsettleBySource(s, U)
      PROVE  Sheets' /\ SharedLive'
  <2>1. /\ Sheets' /\ UNCHANGED share
        /\ \A e \in Expenses : e # s => expense'[e].alive = expense[e].alive
    BY <1>2, <1>8, UnsettleEffects
  <2>2. SettledBy(s) # {}  BY <1>8 DEF UnsettleBySource
  <2>3. \A r \in share : r.tgt # s
    BY <1>3, <2>2, Participants DEF Books, Separate, SettledBy
  <2> QED BY <1>2, <1>3, <2>1, <2>3 DEF SharedLive
<1>9. ASSUME NEW s \in Expenses, NEW removed \in BOOLEAN, NEW U \in SUBSET {s}, UnratearSource(s, removed, U)
      PROVE  Sheets' /\ SharedLive'
  <2>1. /\ Sheets' /\ SharedBy(s) # {} /\ share' = share \ SharedBy(s)
        /\ \A e \in Expenses : e # s => expense'[e].alive = expense[e].alive
    BY <1>2, <1>9, UnratearEffects
  <2>2. \A r \in share : r.tgt # s
    BY <1>3, <2>1, Participants DEF Books, Separate, SharedBy
  <2> QED BY <1>2, <1>3, <2>1, <2>2 DEF SharedLive
<1>10. ASSUME NEW s \in Expenses, Relinked(s)
       PROVE  Sheets' /\ SharedLive'
  <2>1. PICK t : expense' = [expense EXCEPT ![s].link = t]  BY <1>10 DEF Relinked
  <2>2. UNCHANGED <<cash, share>>  BY <1>10 DEF Relinked
  <2>3. Sheets' /\ \A e \in Expenses : expense'[e].alive = expense[e].alive
    BY <1>2, <2>1, <2>2, LinkEffects
  <2> QED BY <1>2, <1>3, <2>2, <2>3 DEF SharedLive
<1>11. ASSUME NEW e \in Expenses, NEW v \in Prices, Update(e, v)
       PROVE  Sheets' /\ SharedLive'
  BY <1>2, <1>3, <1>11, UpdateEffects DEF SharedLive, Same, Kept
<1>12. ASSUME NEW e \in Toggled, NEW i, NEW paid \in BOOLEAN, SetParcelaStatus(e, i, paid)
       PROVE  Sheets' /\ SharedLive'
  <2>1. e \in Expenses  BY SettlementAssumption DEF SettlementAssumption
  <2> QED BY <1>2, <1>3, <1>12, <2>1, ToggleEffects DEF SharedLive, Same, Kept
<1>13. ASSUME NEW e \in Expenses, NEW i, UpdateInstallmentDate(e, i)
       PROVE  Sheets' /\ SharedLive'
  BY <1>2, <1>3, <1>13, MoveEffects DEF SharedLive
<1>14. ASSUME NEW e \in Expenses, RemovedPair(e)
       PROVE  Sheets' /\ SharedLive'
  <2>1. RemovePair(e) /\ ~Rated(e)  BY <1>14 DEF RemovedPair, InRateio
  <2>2. Sheets' /\ UNCHANGED share  BY <1>2, <2>1, PairEffects
  <2>3. PICK gone \in SUBSET Expenses :
              /\ \A o \in gone : o = e \/ (~InSettlement(o) /\ ~InRateio(o))
              /\ \A o \in Expenses : o \notin gone => expense'[o].alive = expense[o].alive
    BY <1>2, <2>1, PairEffects
  <2>4. \A r \in share : r.tgt \notin gone
    BY <2>1, <2>3 DEF InRateio, Rated
  <2> QED BY <1>2, <1>3, <2>2, <2>3, <2>4 DEF SharedLive
<1> QED BY <1>4, <1>5, <1>6, <1>7, <1>8, <1>9, <1>10, <1>11, <1>12, <1>13, <1>14, Steps

IsPlan(p) == p = [price |-> p.price, count |-> p.count, paid |-> p.paid]

\* Every allocation has the plan its target had, and history remembers it.
Remembered ==
  /\ \A r \in share : r.plan = planned[r.tgt]
  /\ \A e \in Expenses : IsPlan(planned[e]) /\ (Rated(e) \/ planned[e] = Plan(expense[e]))

LEMMA RestoredPlan ==
  ASSUME Separate, Books, Remembered, NEW s \in Expenses, NEW t \in TargetsOf(s)
  PROVE  t \in Expenses /\ Plan(Restored(s, t)) = planned[t] /\ t # s
<1>1. PICK r \in share : r.src = s /\ r.tgt = t
  BY DEF TargetsOf, SharedBy
<1>2. t \in Expenses /\ t # s /\ expense[t].alive
  BY <1>1, Participants DEF Books, SharedLive, Separate
<1>3. PlanOf(t) = planned[t]
  <2> DEFINE plans == {q.plan : q \in {q \in share : q.tgt = t}}
  <2>1. plans = {planned[t]}  BY <1>1 DEF Remembered
  <2> QED BY <2>1 DEF PlanOf
<1>4. IsPlan(planned[t])  BY <1>2 DEF Remembered
<1> QED BY <1>2, <1>3, <1>4, RestoredRow DEF Books, IsPlan

LEMMA PlanStep ==
  ASSUME Separate, Books, Remembered, [Next]_vars
  PROVE  /\ Remembered'
         /\ \A t \in Expenses : (Rated(t) /\ \A r \in share' : r.tgt # t) => Plan(expense'[t]) = planned[t]
<1>1. CASE UNCHANGED vars
  BY <1>1 DEF vars, Remembered, Rated
<1>2. ASSUME Next, \A r \in share' : r.plan = planned[r.tgt],
             \A t \in Expenses : (Rated(t) /\ \A r \in share' : r.tgt # t) => Plan(expense'[t]) = planned[t]
      PROVE  /\ Remembered'
             /\ \A t \in Expenses : (Rated(t) /\ \A r \in share' : r.tgt # t) => Plan(expense'[t]) = planned[t]
  <2>1. planned' = [e \in Expenses |-> IF \E r \in share' : r.tgt = e THEN planned[e] ELSE Plan(expense'[e])]
    BY <1>2 DEF Next
  <2>2. \A e \in Expenses : IsPlan(planned[e]) /\ IsPlan(Plan(expense'[e]))
    BY DEF Remembered, IsPlan, Plan
  <2>3. \A e \in Expenses : IsPlan(planned'[e]) /\ (Rated(e)' \/ planned'[e] = Plan(expense'[e]))
    BY <2>1, <2>2 DEF Rated
  <2>4. \A r \in share' : r.tgt \in Expenses
    <3>1. Origins'  BY OriginsStep DEF Books
    <3>2. (\A r \in share : r.src \in Expenses /\ r.tgt \in Expenses /\ r.src \in Debits /\ r.tgt \in Purchases)'
      BY <3>1, Participants, PTL
    <3> QED BY <3>2
  <2>5. \A r \in share' : r.plan = planned'[r.tgt]
    BY <1>2, <2>1, <2>4
  <2> QED BY <1>2, <2>3, <2>5 DEF Remembered, Plan
<1>3. CASE UNCHANGED share
  BY <1>1, <1>2, <1>3 DEF Remembered, Rated
<1>4. ASSUME Next, NEW c \in Splits, RatearSource(c.src, c.parts)
      PROVE  /\ Remembered'
             /\ \A t \in Expenses : (Rated(t) /\ \A r \in share' : r.tgt # t) => Plan(expense'[t]) = planned[t]
  <2>1. c.src \in Expenses /\ \A t \in DOMAIN c.parts : t \in Expenses
    BY SettlementAssumption DEF SettlementAssumption
  <2>2. /\ share' = (share \ SharedBy(c.src)) \cup
             {[src |-> c.src, tgt |-> t, part |-> c.parts[t], plan |-> Plan(Restored(c.src, t))] : t \in DOMAIN c.parts}
        /\ \A t \in DOMAIN c.parts : \A r \in share : r.tgt = t => r.src = c.src
    BY <1>4, SplitShares
  <2>3. \A t \in DOMAIN c.parts : Plan(Restored(c.src, t)) = planned[t]
    <3> TAKE t \in DOMAIN c.parts
    <3>1. CASE t \in TargetsOf(c.src)
      BY <2>1, <3>1, RestoredPlan
    <3>2. CASE t \notin TargetsOf(c.src)
      <4>1. ~Rated(t)  BY <2>2, <3>2 DEF TargetsOf, SharedBy, Rated
      <4>2. planned[t] = Plan(expense[t])  BY <2>1, <4>1 DEF Remembered
      <4> QED BY <2>1, <3>2, <4>2, RestoredRow DEF Books
    <3> QED BY <3>1, <3>2
  <2>4. \A r \in share' : r.plan = planned[r.tgt]
    <3> TAKE r \in share'
    <3>1. CASE r \in share
      BY <3>1 DEF Remembered
    <3>2. CASE r \notin share
      <4>1. PICK t \in DOMAIN c.parts :
              r = [src |-> c.src, tgt |-> t, part |-> c.parts[t], plan |-> Plan(Restored(c.src, t))]
        BY <2>2, <3>2
      <4> QED BY <2>3, <4>1
    <3> QED BY <3>1, <3>2
  <2>5. \A t \in Expenses : (Rated(t) /\ \A r \in share' : r.tgt # t) => Plan(expense'[t]) = planned[t]
    <3> SUFFICES ASSUME NEW t \in Expenses, Rated(t), \A r \in share' : r.tgt # t
                 PROVE  Plan(expense'[t]) = planned[t]
      OBVIOUS
    <3>1. t \notin DOMAIN c.parts
      <4> SUFFICES ASSUME t \in DOMAIN c.parts PROVE FALSE  OBVIOUS
      <4> DEFINE row == [src |-> c.src, tgt |-> t, part |-> c.parts[t], plan |-> Plan(Restored(c.src, t))]
      <4>1. row \in share' /\ row.tgt = t  BY <2>2
      <4> QED BY <4>1
    <3>2. t \in TargetsOf(c.src)  BY <2>2 DEF Rated, TargetsOf, SharedBy
    <3>3. t # c.src /\ Plan(Restored(c.src, t)) = planned[t]  BY <2>1, <3>2, RestoredPlan
    <3> QED BY <1>4, <2>1, <3>1, <3>3, RatearEffects DEF Books
  <2> QED BY <1>2, <1>4, <2>4, <2>5
<1>5. ASSUME Next, NEW s \in Expenses, NEW removed \in BOOLEAN, NEW unlinked, UnratearSource(s, removed, unlinked)
      PROVE  /\ Remembered'
             /\ \A t \in Expenses : (Rated(t) /\ \A r \in share' : r.tgt # t) => Plan(expense'[t]) = planned[t]
  <2>1. share' = share \ SharedBy(s)  BY <1>5 DEF UnratearSource
  <2>2. \A t \in Expenses : (Rated(t) /\ \A r \in share' : r.tgt # t) => Plan(expense'[t]) = planned[t]
    <3> SUFFICES ASSUME NEW t \in Expenses, Rated(t), \A r \in share' : r.tgt # t
                 PROVE  Plan(expense'[t]) = planned[t]
      OBVIOUS
    <3>1. t \in TargetsOf(s)  BY <2>1 DEF Rated, TargetsOf, SharedBy
    <3>2. t # s /\ Plan(Restored(s, t)) = planned[t]  BY <3>1, RestoredPlan
    <3> QED BY <1>5, <3>2, UnratearEffects DEF Books
  <2>3. \A r \in share' : r.plan = planned[r.tgt]
    BY <2>1 DEF Remembered
  <2> QED BY <1>2, <1>5, <2>2, <2>3
<1>6. CASE Next
  BY <1>3, <1>4, <1>5, <1>6, ShareWriters
<1> QED BY <1>1, <1>6

\* When a rateio ends, by its undo, by the removal of its source or by a new rateio
\* without the target, the target gets back the plan it had before the first one, if
\* debits and purchases are different expenses (unratearSource and ratearSource).
THEOREM PlansAreGivenBack ==
  ASSUME Separate
  PROVE  Spec => PlansComeBack
<1>1. Init => Books /\ Remembered
  <2> SUFFICES ASSUME Init PROVE Remembered  BY BooksInit
  <2>1. \A e \in Expenses : planned[e] = Plan(expense[e])  BY DEF Init
  <2>2. \A e \in Expenses : IsPlan(Plan(expense[e]))  BY DEF IsPlan, Plan
  <2> QED BY <2>1, <2>2 DEF Init, Remembered
<1>2. Books /\ Remembered /\ [Next]_vars => (Books /\ Remembered)'
  BY BooksStep, PlanStep
<1>3. Books /\ Remembered /\ [Next]_vars =>
        [\A t \in Expenses : (Rated(t) /\ \A r \in share' : r.tgt # t) => Plan(expense'[t]) = planned[t]]_vars
  BY PlanStep
<1> QED BY <1>1, <1>2, <1>3, PTL DEF Spec, PlansComeBack

-----------------------------------------------------------------------------
(* Settlements stand.                                                      *)

AllStanding == OnePerInstallment /\ \A r \in legacy : Standing(r)

\* A step that keeps the settlement's row, its mirror and its target.
LEMMA KeptStanding ==
  ASSUME NEW r \in legacy, Standing(r), r \in legacy', OnePerInstallment', UNCHANGED funding,
         expense'[r.src].alive = expense[r.src].alive, expense'[r.src].link = expense[r.src].link,
         expense'[r.tgt].count = expense[r.tgt].count,
         \/ cash'[r.tgt] = cash[r.tgt]
         \/ \E x : x.count = expense[r.tgt].count /\ cash'[r.tgt] = TargetCash(r.tgt, x, legacy')
  PROVE  Standing(r)'
<1>1. IsShown(cash'[r.tgt], r) /\ (FundingOf(r.tgt, r.idx) = {})'
  BY StillShown
<1> QED BY <1>1 DEF Standing, Indexes

LEMMA SettleStanding ==
  ASSUME Separate, SettlesOnce, Books, AllStanding, OnePerInstallment', NEW c \in Settles,
         SettleTargetParcela(c.src, c.tgt, c.idx, c.real)
  PROVE  \A r \in legacy' : Standing(r)'
<1> DEFINE s == c.src
           t == c.tgt
           i == c.idx
<1>1. s \in Expenses /\ t \in Expenses /\ s \in Debits /\ t \in Purchases
  BY SettlementAssumption DEF SettlementAssumption, Debits, Purchases
<1>2. /\ s # t /\ Same(t) /\ cash'[t] = TargetCash(t, expense'[t], legacy')
      /\ expense'[s].alive = expense[s].alive /\ expense'[s].link = t
      /\ \A e \in Expenses : e \notin {s, t} /\ (\A r \in SettlementOf(t, i) : r.src # e) =>
           expense'[e] = expense[e] /\ cash'[e] = cash[e]
  BY <1>1, SettleEffects DEF Books
<1>3. /\ UNCHANGED <<funding, share>> /\ FundingOf(t, i) = {} /\ expense[s].alive /\ i \in Indexes(expense[t])
  BY NewSettlement
<1>4. PICK row : row.src = s /\ row.tgt = t /\ row.idx = i /\ row.real = c.real
                 /\ legacy' = (legacy \ SettlementOf(t, i)) \cup {row}
  BY NewSettlement
<1> HIDE DEF s, t, i
<1>5. Standing(row)'
  <2>1. \A q \in legacy' : q.tgt = t /\ q.idx = row.idx => q = row
    BY <1>4 DEF OnePerInstallment
  <2>2. row.idx \in Indexes(expense'[t])
    BY <1>2, <1>3, <1>4 DEF Same, Kept, Indexes
  <2>3. IsShown(cash'[t], row)
    <3>1. IsShown(TargetCash(t, expense'[t], legacy'), row)
      BY <1>3, <1>4, <2>1, <2>2, TargetCashShows
    <3> QED BY <1>2, <3>1
  <2>4. FundingOf(t, i)' = {}
    BY <1>3 DEF FundingOf, Active
  <2> QED BY <1>2, <1>3, <1>4, <2>2, <2>3, <2>4 DEF Standing
<1>6. ASSUME NEW r \in legacy, r \notin SettlementOf(t, i)
      PROVE  Standing(r)'
  <2>1. r.src \in Expenses /\ r.tgt \in Expenses /\ r.src # t /\ r.tgt # s
    BY <1>1, Participants DEF Books, Separate
  <2>2. \A q \in legacy : q.src = r.src => q.tgt = r.tgt /\ q.idx = r.idx
    BY DEF Books, Origins, SettlesOnce
  <2>3. PICK d \in Settles : r.src = d.src /\ r.tgt = d.tgt /\ r.idx = d.idx
    BY DEF Books, Origins
  <2>4. r.src # s
    BY <1>6, <2>3 DEF SettlesOnce, SettlementOf, s, t, i
  <2>5. \A q \in SettlementOf(t, i) : q.src # r.src
    BY <1>6, <2>2 DEF SettlementOf
  <2>6. \A q \in SettlementOf(t, i) : q.src # r.tgt
    BY Participants DEF Books, Separate, SettlementOf
  <2>7. expense'[r.src] = expense[r.src]
    BY <1>2, <2>1, <2>4, <2>5
  <2>8. expense'[r.tgt].count = expense[r.tgt].count
    BY <1>2, <2>1, <2>6 DEF Same, Kept
  <2>9. \/ cash'[r.tgt] = cash[r.tgt]
        \/ \E x : x.count = expense[r.tgt].count /\ cash'[r.tgt] = TargetCash(r.tgt, x, legacy')
    <3>1. CASE r.tgt = t
      BY <1>2, <2>8, <3>1
    <3>2. CASE r.tgt # t
      BY <1>2, <2>1, <2>6, <3>2
    <3> QED BY <3>1, <3>2
  <2>10. r \in legacy' /\ Standing(r)  BY <1>4, <1>6 DEF AllStanding
  <2> QED BY <1>3, <2>7, <2>8, <2>9, <2>10, KeptStanding
<1> QED BY <1>4, <1>5, <1>6

LEMMA StandingStep ==
  ASSUME Separate, SettlesOnce, Untoggled, Books, AllStanding, [Next]_vars
  PROVE  AllStanding'
<1>1. OnePerInstallment'
  BY OnePerInstallmentStep DEF AllStanding
<1>2. Sheets /\ KeysOnce /\ FundingExpenses /\ SettledOrShared
  BY DEF Books
<1>3. \A r \in legacy :
        /\ r.src \in Expenses /\ r.tgt \in Expenses /\ r.src \in Debits /\ r.tgt \in Purchases
        /\ Standing(r) /\ InSettlement(r.src) /\ InSettlement(r.tgt)
  BY Participants DEF Books, AllStanding, InSettlement
<1>4. \A q, r \in legacy : q.src # r.tgt
  BY <1>3 DEF Separate
<1>5. \A q \in share, r \in legacy : q.src # r.tgt /\ q.tgt # r.src /\ q.src # r.src /\ q.tgt # r.tgt
  BY <1>2, <1>3, Participants DEF Books, Separate, SettledOrShared
<1> SUFFICES \A r \in legacy' : Standing(r)'
  BY <1>1 DEF AllStanding
<1>6. CASE UNCHANGED vars
  BY <1>3, <1>6 DEF vars, Standing, FundingOf, Active
<1>7. CASE \/ \E k \in Keys, c \in Commands : ApplyParcelaFunding(k, c)
           \/ \E f \in Active : UndoParcelaFunding(f)
  <2>1. FundingLeaves  BY <1>2, <1>7, FundingStep
  <2> QED BY <1>3, <2>1 DEF FundingLeaves, Same, Kept, Standing, Indexes
<1>8. ASSUME NEW c \in Settles, SettleTargetParcela(c.src, c.tgt, c.idx, c.real)
      PROVE  \A r \in legacy' : Standing(r)'
  BY <1>1, <1>8, SettleStanding
<1>9. ASSUME NEW c \in Splits, RatearSource(c.src, c.parts)
      PROVE  \A r \in legacy' : Standing(r)'
  <2>1. c.src \in Expenses /\ c.src \in Debits /\ \A t \in DOMAIN c.parts : t \in Purchases
    BY SettlementAssumption DEF SettlementAssumption, Debits, Purchases
  <2>2. \A e \in Expenses : e \notin DOMAIN c.parts \cup TargetsOf(c.src) \cup {c.src} =>
              expense'[e] = expense[e] /\ cash'[e] = cash[e]
    BY <1>2, <1>9, <2>1, RatearEffects
  <2>3. /\ UNCHANGED <<funding, legacy>> /\ SettledBy(c.src) = {}
        /\ \A t \in DOMAIN c.parts : \A r \in legacy : r.tgt # t
    BY <1>9, SplitShares
  <2>4. ASSUME NEW r \in legacy
        PROVE  /\ r.src \notin DOMAIN c.parts \cup TargetsOf(c.src) \cup {c.src}
               /\ r.tgt \notin DOMAIN c.parts \cup TargetsOf(c.src) \cup {c.src}
    BY <1>3, <1>5, <2>1, <2>3 DEF SettledBy, TargetsOf, SharedBy, Separate
  <2> QED BY <1>1, <1>3, <2>2, <2>3, <2>4, KeptStanding
<1>10. ASSUME NEW s \in Expenses, NEW U \in SUBSET {s}, UnsettleBySource(s, U)
       PROVE  \A r \in legacy' : Standing(r)'
  <2>1. /\ UNCHANGED funding /\ legacy' = legacy \ SettledBy(s)
        /\ \A e \in Expenses : e # s =>
              /\ expense'[e].alive = expense[e].alive /\ expense'[e].count = expense[e].count
              /\ expense[e].link \notin U => expense'[e].link = expense[e].link
              /\ cash'[e] = cash[e] \/ \E x : x.count = expense[e].count /\ cash'[e] = TargetCash(e, x, legacy')
    BY <1>2, <1>10, UnsettleEffects
  <2>2. SettledBy(s) # {}  BY <1>10 DEF UnsettleBySource
  <2> SUFFICES ASSUME NEW r \in legacy' PROVE Standing(r)'  OBVIOUS
  <2>3. r \in legacy /\ r.src # s /\ r.tgt # s
    BY <1>4, <2>1, <2>2 DEF SettledBy
  <2>4. expense[r.src].link \notin U  BY <1>3, <2>3 DEF Standing
  <2> QED BY <1>1, <1>3, <2>1, <2>3, <2>4, KeptStanding
<1>11. ASSUME NEW s \in Expenses, NEW removed \in BOOLEAN, NEW U \in SUBSET {s}, UnratearSource(s, removed, U)
       PROVE  \A r \in legacy' : Standing(r)'
  <2>1. /\ UNCHANGED <<funding, legacy>> /\ SharedBy(s) # {}
        /\ \A e \in Expenses : e # s =>
              /\ e \notin TargetsOf(s) => cash'[e] = cash[e] /\ Plan(expense'[e]) = Plan(expense[e])
              /\ e \notin TargetsOf(s) /\ expense[e].link \notin U => expense'[e] = expense[e]
    BY <1>2, <1>11, UnratearEffects
  <2> SUFFICES ASSUME NEW r \in legacy PROVE Standing(r)'  BY <2>1
  <2>2. /\ r.src # s /\ r.tgt # s /\ r.src \notin TargetsOf(s) /\ r.tgt \notin TargetsOf(s)
    BY <1>5, <2>1 DEF TargetsOf, SharedBy
  <2>3. expense[r.src].link \notin U  BY <1>3, <2>2 DEF Standing
  <2>4. Plan(expense'[r.tgt]) = Plan(expense[r.tgt])  BY <1>3, <2>1, <2>2
  <2>5. expense'[r.tgt].count = expense[r.tgt].count  BY <2>4 DEF Plan
  <2> QED BY <1>1, <1>3, <2>1, <2>2, <2>3, <2>5, KeptStanding
<1>12. ASSUME NEW s \in Expenses, Relinked(s)
       PROVE  \A r \in legacy' : Standing(r)'
  <2>1. SettledBy(s) = {} /\ UNCHANGED <<cash, funding, legacy>>  BY <1>12 DEF Relinked
  <2>2. PICK t : expense' = [expense EXCEPT ![s].link = t]  BY <1>12 DEF Relinked
  <2>3. /\ \A e \in Expenses : e # s => expense'[e] = expense[e]
        /\ expense'[s].count = expense[s].count
    BY <1>2, <2>1, <2>2, LinkEffects
  <2>4. \A r \in legacy : r.src # s  BY <2>1 DEF SettledBy
  <2> QED BY <1>1, <1>3, <2>1, <2>3, <2>4, KeptStanding
<1>13. ASSUME NEW e \in Expenses, NEW v \in Prices, Update(e, v)
       PROVE  \A r \in legacy' : Standing(r)'
  <2>1. /\ UNCHANGED <<funding, legacy>>
        /\ \A o \in Expenses : InSettlement(o) => expense'[o] = expense[o] /\ cash'[o] = cash[o]
    BY <1>2, <1>13, UpdateEffects
  <2> QED BY <1>1, <1>3, <2>1, KeptStanding
<1>14. ASSUME NEW e \in Toggled, NEW i, NEW paid \in BOOLEAN, SetParcelaStatus(e, i, paid)
       PROVE  \A r \in legacy' : Standing(r)'
  <2>1. e \in Expenses  BY SettlementAssumption DEF SettlementAssumption
  <2>2. /\ UNCHANGED <<funding, legacy>>
        /\ \A o \in Expenses : Same(o)
        /\ \A o \in Expenses : o # e => cash'[o] = cash[o]
    BY <1>2, <1>14, <2>1, ToggleEffects
  <2>3. \A r \in legacy : r.tgt # e
    BY DEF Books, Origins, Untoggled
  <2> QED BY <1>1, <1>3, <2>2, <2>3, KeptStanding DEF Same, Kept
<1>15. ASSUME NEW e \in Expenses, NEW i, UpdateInstallmentDate(e, i)
       PROVE  \A r \in legacy' : Standing(r)'
  <2>1. /\ UNCHANGED <<expense, funding, legacy>>
        /\ \A r \in legacy : r.tgt \in Expenses =>
              cash'[r.tgt] = cash[r.tgt] \/ cash'[r.tgt] = TargetCash(r.tgt, expense[r.tgt], legacy)
    BY <1>2, <1>15, MoveEffects
  <2> QED BY <1>1, <1>3, <2>1, KeptStanding
<1>16. ASSUME NEW e \in Expenses, RemovedPair(e)
       PROVE  \A r \in legacy' : Standing(r)'
  <2>1. RemovePair(e) /\ SettledBy(e) = {} /\ \A r \in legacy : r.tgt # e
    BY <1>16 DEF RemovedPair
  <2>2. UNCHANGED <<funding, legacy>>  BY <1>2, <2>1, PairEffects
  <2>3. PICK gone \in SUBSET Expenses :
              /\ \A o \in gone : o = e \/ (~InSettlement(o) /\ ~InRateio(o))
              /\ \A o \in Expenses : o \notin gone =>
                   /\ expense'[o].count = expense[o].count /\ cash'[o] = cash[o]
                   /\ expense[o].link \notin gone => expense'[o] = expense[o]
    BY <1>2, <2>1, PairEffects
  <2>4. \A r \in legacy : r.src \notin gone /\ r.tgt \notin gone /\ expense[r.src].link = r.tgt
    BY <1>3, <2>1, <2>3 DEF SettledBy, Standing
  <2> QED BY <1>1, <1>3, <2>2, <2>3, <2>4, KeptStanding
<1> QED BY <1>6, <1>7, <1>8, <1>9, <1>10, <1>11, <1>12, <1>13, <1>14, <1>15, <1>16, Steps

\* A settled installment shows in its project's cash flow as paid, with the real value
\* and not the planned one, and the debit that paid it lives on as its mirror, whatever
\* people fund, share out, link, edit, move and remove beside it
\* (settleTargetParcela, unsettleBySource, regenerateTargetCashEntries).
THEOREM SettlementsAreKept ==
  ASSUME Separate, SettlesOnce, Untoggled
  PROVE  Spec => []SettlementsStand
<1>1. Init => Books /\ AllStanding
  BY BooksInit DEF Init, AllStanding, OnePerInstallment
<1>2. Books /\ AllStanding /\ [Next]_vars => (Books /\ AllStanding)'
  BY BooksStep, StandingStep
<1>3. AllStanding => SettlementsStand
  BY DEF AllStanding, Standing, SettlementsStand, RealValueIsShown, SettledByALiveMirror, Live, IsShown, Shows
<1> QED BY <1>1, <1>2, <1>3, PTL DEF Spec
-----------------------------------------------------------------------------
(* Sums are counted by units: Units(f, S) has f[x] elements for each x.    *)

Units(f, S) == UNION {{x} \X (1..f[x]) : x \in S}

LEMMA LeastSet ==
  ASSUME NEW S, IsFiniteSet(S), NEW C \in SUBSET SUBSET S, C # {}
  PROVE  \E s \in C : \A t \in C : ~(t \subseteq s /\ t # s)
<1>1. C \subseteq FiniteSubsetsOf(S)
  BY FS_Subset DEF FiniteSubsetsOf
<1>2. IsWellFoundedOn(StrictSubsetOrdering(S), FiniteSubsetsOf(S))
  BY FS_StrictSubsetOrderingWellFounded
<1>3. PICK X \in C : \A Y \in C : ~ (<<Y, X>> \in StrictSubsetOrdering(S))
  BY <1>1, <1>2, WFMin
<1> QED BY <1>3 DEF StrictSubsetOrdering

LEMMA UnitsOfOne ==
  ASSUME NEW x, NEW n \in Nat
  PROVE  IsFiniteSet({x} \X (1..n)) /\ Cardinality({x} \X (1..n)) = n
<1>1. IsFiniteSet({x}) /\ Cardinality({x}) = 1
  BY FS_Singleton
<1>2. IsFiniteSet(1..n) /\ Cardinality(1..n) = n
  BY FS_Interval
<1>3. IsFiniteSet({x} \X (1..n)) /\ Cardinality({x} \X (1..n)) = 1 * n
  BY <1>1, <1>2, FS_Product, ZenonT(30)
<1> QED BY <1>3

LEMMA UnitsFinite ==
  ASSUME NEW S, IsFiniteSet(S), NEW f, \A x \in S : f[x] \in Nat
  PROVE  IsFiniteSet(Units(f, S)) /\ Cardinality(Units(f, S)) \in Nat
<1> DEFINE C == {s \in SUBSET S : ~IsFiniteSet(Units(f, s))}
<1>1. ASSUME C # {} PROVE FALSE
  <2>0. C \in SUBSET SUBSET S
    OBVIOUS
  <2>1. PICK s \in C : \A t \in C : ~(t \subseteq s /\ t # s)
    <3> HIDE DEF C
    <3> QED BY <1>1, <2>0, LeastSet
  <2>2. s # {}
    <3>1. Units(f, {}) = {}  BY DEF Units
    <3> QED BY <3>1, FS_EmptySet
  <2>3. PICK x \in s : f[x] \in Nat
    BY <2>2
  <2>4. IsFiniteSet(Units(f, s \ {x}))
    BY <2>1, <2>3
  <2>5. Units(f, s) = Units(f, s \ {x}) \cup ({x} \X (1..f[x]))
    BY <2>3 DEF Units
  <2>6. IsFiniteSet(Units(f, s \ {x}) \cup ({x} \X (1..f[x])))
    BY <2>3, <2>4, UnitsOfOne, FS_Union
  <2> QED BY <2>1, <2>5, <2>6
<1> QED BY <1>1, FS_CardinalityType

LEMMA UnitsAdd ==
  ASSUME NEW S, IsFiniteSet(S), NEW f, \A x \in S : f[x] \in Nat, NEW x \in S
  PROVE  Cardinality(Units(f, S)) = f[x] + Cardinality(Units(f, S \ {x}))
<1> DEFINE A == {x} \X (1..f[x])
           B == Units(f, S \ {x})
<1>1. IsFiniteSet(A) /\ Cardinality(A) = f[x] /\ f[x] \in Nat
  BY UnitsOfOne
<1>2. IsFiniteSet(B) /\ Cardinality(B) \in Nat
  <2>1. IsFiniteSet(S \ {x})
    BY FS_RemoveElement
  <2> QED BY <2>1, UnitsFinite
<1>3. Units(f, S) = A \cup B /\ A \cap B = {}
  BY DEF Units
<1>4. Cardinality(A \cap B) = 0
  BY <1>3, FS_EmptySet
<1> HIDE DEF A, B
<1>5. Cardinality(A \cup B) = Cardinality(A) + Cardinality(B) - Cardinality(A \cap B)
  BY <1>1, <1>2, FS_Union
<1>6. Cardinality(A \cup B) = f[x] + Cardinality(B)
  BY <1>1, <1>2, <1>4, <1>5
<1> QED BY <1>3, <1>6 DEF B

\* What the sum of Functions chooses its values by.
Adds(g, f, S) ==
  g = [s \in SUBSET S |-> IF s = {} THEN 0
                          ELSE LET x == CHOOSE x \in s : TRUE IN f[x] + g[s \ {x}]]

LEMMA SumIsUnits ==
  ASSUME NEW S, IsFiniteSet(S), NEW f, \A x \in S : f[x] \in Nat
  PROVE  SumFunctionOnSet(f, S) = Cardinality(Units(f, S))
<1> DEFINE u == [s \in SUBSET S |-> Cardinality(Units(f, s))]
<1>1. Adds(u, f, S)
  <2>1. ASSUME NEW s \in SUBSET S, s # {}
        PROVE  u[s] = LET x == CHOOSE x \in s : TRUE IN f[x] + u[s \ {x}]
    <3> DEFINE x == CHOOSE x \in s : TRUE
    <3>1. x \in s
      BY <2>1
    <3>2. IsFiniteSet(s) /\ \A y \in s : f[y] \in Nat
      BY FS_Subset
    <3> HIDE DEF x
    <3>3. u[s] = f[x] + u[s \ {x}]
      BY <3>1, <3>2, UnitsAdd
    <3> QED BY <3>3 DEF x
  <2>2. u[{}] = 0
    <3>1. Units(f, {}) = {}  BY DEF Units
    <3>2. u[{}] = Cardinality({})  BY <3>1
    <3> QED BY <3>2, FS_EmptySet
  <2>3. u = [s \in SUBSET S |-> u[s]]
    OBVIOUS
  <2> HIDE DEF u
  <2> QED BY <2>1, <2>2, <2>3 DEF Adds
<1>2. ASSUME NEW g, Adds(g, f, S) PROVE g[S] = u[S]
  <2> DEFINE C == {s \in SUBSET S : g[s] # u[s]}
  <2>1. ASSUME C # {} PROVE FALSE
    <3>0. C \in SUBSET SUBSET S
      OBVIOUS
    <3>1. PICK s \in C : \A t \in C : ~(t \subseteq s /\ t # s)
      <4> HIDE DEF C
      <4> QED BY <2>1, <3>0, LeastSet
    <3> HIDE DEF u
    <3>2. s # {}
      BY <1>1, <1>2 DEF Adds
    <3> DEFINE x == CHOOSE x \in s : TRUE
    <3>3. x \in s
      BY <3>2
    <3> HIDE DEF x
    <3>4. g[s \ {x}] = u[s \ {x}]
      BY <3>1, <3>3
    <3>5. g[s] = f[x] + g[s \ {x}]
      BY <3>2, <1>2 DEF Adds, x
    <3>6. u[s] = f[x] + u[s \ {x}]
      BY <3>2, <1>1 DEF Adds, x
    <3> QED BY <3>4, <3>5, <3>6
  <2> QED BY <2>1
<1>3. SumFunctionOnSet(f, S) = (CHOOSE g : Adds(g, f, S))[S]
  BY DEF SumFunctionOnSet, FoldFunctionOnSet, MapThenFoldSet, Adds
<1>4. Adds(CHOOSE g : Adds(g, f, S), f, S)
  BY <1>1
<1>5. (CHOOSE g : Adds(g, f, S))[S] = u[S]
  BY <1>2, <1>4
<1> QED BY <1>3, <1>5

\* A sum over other elements with the same terms.
LEMMA SumRenamed ==
  ASSUME NEW S, IsFiniteSet(S), NEW T, NEW h \in Bijection(S, T),
         NEW f, NEW g, \A x \in S : f[x] \in Nat /\ g[h[x]] = f[x]
  PROVE  IsFiniteSet(T) /\ SumFunctionOnSet(g, T) = SumFunctionOnSet(f, S)
<1> DEFINE m == [p \in Units(f, S) |-> <<h[p[1]], p[2]>>]
<1>1. h \in [S -> T] /\ (\A x, y \in S : h[x] = h[y] => x = y) /\ \A y \in T : \E x \in S : h[x] = y
  BY DEF Bijection, Injection, Surjection, IsInjective
<1>2. m \in Bijection(Units(f, S), Units(g, T))
  <2>1. \A p \in Units(f, S) : p[1] \in S /\ p[2] \in 1..f[p[1]] /\ p = <<p[1], p[2]>>
    BY DEF Units
  <2>2. m \in [Units(f, S) -> Units(g, T)]
    <3> SUFFICES ASSUME NEW p \in Units(f, S) PROVE <<h[p[1]], p[2]>> \in Units(g, T)
      OBVIOUS
    <3>1. h[p[1]] \in T /\ p[2] \in 1..g[h[p[1]]]  BY <1>1, <2>1
    <3> QED BY <3>1 DEF Units
  <2>3. ASSUME NEW p \in Units(f, S), NEW q \in Units(f, S), m[p] = m[q] PROVE p = q
    <3>1. h[p[1]] = h[q[1]] /\ p[2] = q[2]  BY <2>3
    <3> QED BY <1>1, <2>1, <3>1
  <2>4. ASSUME NEW q \in Units(g, T) PROVE \E p \in Units(f, S) : m[p] = q
    <3>1. PICK y \in T : q[1] = y /\ q[2] \in 1..g[y] /\ q = <<y, q[2]>>  BY DEF Units
    <3>2. PICK x \in S : h[x] = y  BY <1>1
    <3>3. <<x, q[2]>> \in Units(f, S)  BY <3>1, <3>2 DEF Units
    <3>4. m[<<x, q[2]>>] = q  BY <3>1, <3>2, <3>3
    <3> QED BY <3>3, <3>4
  <2> QED BY <2>2, <2>3, <2>4 DEF Bijection, Injection, Surjection, IsInjective
<1> HIDE DEF m
<1>3. IsFiniteSet(Units(f, S))
  BY UnitsFinite
<1>4. Cardinality(Units(g, T)) = Cardinality(Units(f, S))
  BY <1>2, <1>3, FS_Bijection DEF ExistsBijection
<1>5. IsFiniteSet(T)
  BY FS_Bijection DEF ExistsBijection
<1>6. \A y \in T : g[y] \in Nat
  BY <1>1
<1> QED BY <1>4, <1>5, <1>6, SumIsUnits

\* A sum of equal terms.
LEMMA SumOfEquals ==
  ASSUME NEW S, IsFiniteSet(S), NEW f, NEW n \in Nat, \A x \in S : f[x] = n
  PROVE  SumFunctionOnSet(f, S) = n * Cardinality(S)
<1>1. Units(f, S) = S \X (1..n)
  BY DEF Units
<1>2. IsFiniteSet(1..n) /\ Cardinality(1..n) = n
  BY FS_Interval
<1>3. Cardinality(S) \in Nat
  BY FS_CardinalityType
<1>4. Cardinality(S \X (1..n)) = Cardinality(S) * n
  BY <1>2, <1>3, FS_Product
<1> QED BY <1>1, <1>3, <1>4, SumIsUnits

-----------------------------------------------------------------------------
(* What the rateios share out adds up.  A source keeps its count, so the   *)
(* parts must divide by it: a part that does not is paid in unequal        *)
(* installments, which the model leaves out.                               *)

Divided ==
  \A c \in Splits : \A t \in DOMAIN c.parts : \E p \in Nat : c.parts[t] = p * Count[c.src]

Counted == \A s \in Debits : s \in Expenses => expense[s].count = Count[s]

\* A cash flow of equal entries, one per installment.
IsPlain(C, x) == \E g, paid : C = Entries(g, [i \in Indexes(x) |-> x.price], paid, Indexes(x))

\* The size of an interval that starts at zero: the installments of an expense are one.
LEMMA ZeroTo ==
  ASSUME NEW m \in Int
  PROVE  IsFiniteSet(0..m) /\ Cardinality(0..m) = IF 0 > m THEN 0 ELSE m - 0 + 1
<1>1. 0 \in Int
  OBVIOUS
<1> QED BY <1>1, FS_Interval, ZenonT(30)

LEMMA PlainSum ==
  ASSUME NEW C, NEW x, x.price \in Nat, x.count \in Nat, IsPlain(C, x)
  PROVE  {c \in C : c.live} = C /\ Sum(C) = x.price * x.count
<1>1. PICK g, paid : C = Entries(g, [i \in Indexes(x) |-> x.price], paid, Indexes(x))
  BY DEF IsPlain
<1> DEFINE entry(i) == [by |-> None, gen |-> g, idx |-> i, value |-> x.price, paid |-> i \in paid, live |-> TRUE]
           h == [i \in Indexes(x) |-> entry(i)]
           n == x.count
           f == [c \in C |-> c.value]
<1>2. C = {entry(i) : i \in Indexes(x)}
  BY <1>1 DEF Entries
<1>3. \A c \in C : c.live /\ c.value = x.price
  BY <1>2
<1>4. h \in Bijection(Indexes(x), C)
  <2>1. \A i, j \in Indexes(x) : h[i] = h[j] => i = j
    <3> SUFFICES ASSUME NEW i \in Indexes(x), NEW j \in Indexes(x), h[i] = h[j] PROVE i = j
      OBVIOUS
    <3>1. h[i].idx = i /\ h[j].idx = j  OBVIOUS
    <3> QED BY <3>1
  <2> QED BY <1>2, <2>1 DEF Bijection, Injection, Surjection, IsInjective
<1>5. IsFiniteSet(Indexes(x)) /\ Cardinality(Indexes(x)) = n
  <2>1. PICK m \in Int : m = n - 1
    OBVIOUS
  <2>2. IsFiniteSet(0..m) /\ Cardinality(0..m) = IF 0 > m THEN 0 ELSE m - 0 + 1
    BY ZeroTo
  <2>3. Indexes(x) = 0..m /\ Cardinality(0..m) = n
    BY <2>1, <2>2 DEF Indexes
  <2> QED BY <2>2, <2>3
<1> HIDE DEF h
<1>6. IsFiniteSet(C) /\ Cardinality(C) = n
  BY <1>4, <1>5, FS_Bijection DEF ExistsBijection
<1>7. \A c \in C : f[c] = x.price
  BY <1>3
<1>8. Sum(C) = SumFunctionOnSet(f, C)
  BY DEF Sum, SumFunction
<1> HIDE DEF f
<1>9. SumFunctionOnSet(f, C) = x.price * n
  BY <1>6, <1>7, SumOfEquals
<1> QED BY <1>3, <1>8, <1>9

\* The rows that share out one source.
PartsOf(S) == SumFunction([q \in S |-> q.part])

\* An allocation of a rateio: its source is a mirror of a target, its target shows
\* its part.
Shared(r) ==
  /\ expense[r.src].alive /\ expense[r.src].link \in TargetsOf(r.src)
  /\ PartsOf(SharedBy(r.src)) = expense[r.src].price * expense[r.src].count
  /\ expense[r.tgt].price \in Nat /\ expense[r.tgt].count \in Nat
  /\ expense[r.tgt].price * expense[r.tgt].count = r.part
  /\ IsPlain(cash[r.tgt], expense[r.tgt])

OneSource == \A q, r \in share : q.tgt = r.tgt => q = r
Allotted == Counted /\ OneSource /\ \A r \in share : Shared(r)

LEMMA AllottedAddsUp ==
  ASSUME Books, Allotted
  PROVE  SharesStand
<1>1. SettledOrShared /\ \A r \in share : expense[r.tgt].alive
  BY DEF Books, SharedLive
<1>2. ASSUME NEW r \in share
      PROVE  Total(expense[r.tgt]) = r.part /\ Sum(Live(r.tgt)) = r.part
  <2>1. Shared(r)  BY DEF Allotted
  <2>2. Live(r.tgt) = cash[r.tgt] /\ Sum(cash[r.tgt]) = expense[r.tgt].price * expense[r.tgt].count
    BY <2>1, PlainSum DEF Shared, Live
  <2> QED BY <2>1, <2>2 DEF Shared, Total
<1>3. ASSUME NEW r \in share
      PROVE  SumFunction([q \in SharedBy(r.src) |-> q.part]) = Total(expense[r.src])
             /\ expense[r.src].alive /\ expense[r.src].link \in TargetsOf(r.src)
  BY DEF Allotted, Shared, PartsOf, Total
<1> QED BY <1>1, <1>2, <1>3 DEF SharesStand, SharesAddUp

\* Another's step leaves an allocation as it is.
Untouched(e) == expense'[e] = expense[e]
SamePlan(e) == expense'[e].price = expense[e].price /\ expense'[e].count = expense[e].count
Quiet(r) ==
  /\ Untouched(r.src) /\ SamePlan(r.tgt)
  /\ cash'[r.tgt] = cash[r.tgt] \/ IsPlain(cash'[r.tgt], expense[r.tgt])

LEMMA QuietShared ==
  ASSUME NEW r, Shared(r), Quiet(r), SharedBy(r.src)' = SharedBy(r.src)
  PROVE  Shared(r)'
<1>1. IsPlain(cash'[r.tgt], expense[r.tgt])
  BY DEF Shared, Quiet
<1>2. Indexes(expense'[r.tgt]) = Indexes(expense[r.tgt])
  BY DEF Quiet, SamePlan, Indexes
<1>3. IsPlain(cash'[r.tgt], expense'[r.tgt])
  BY <1>1, <1>2 DEF IsPlain, Quiet, SamePlan
<1>4. TargetsOf(r.src)' = TargetsOf(r.src)
  BY DEF TargetsOf
<1> QED BY <1>3, <1>4 DEF Shared, Quiet, Untouched, SamePlan

LEMMA QuietStep ==
  ASSUME Allotted, UNCHANGED share, \A r \in share : Quiet(r)
  PROVE  OneSource' /\ \A r \in share' : Shared(r)'
<1>1. \A s : SharedBy(s)' = SharedBy(s)  BY DEF SharedBy
<1> QED BY <1>1, QuietShared DEF Allotted, OneSource

LEMMA PlainCashIsPlain ==
  ASSUME NEW e, NEW x
  PROVE  IsPlain(PlainCash(e, x), x)
BY DEF PlainCash, IsPlain

\* Who takes part in a rateio: debits on one side, purchases on the other.
LEMMA Sharers ==
  ASSUME Separate, Books, Allotted, NEW r \in share
  PROVE  /\ r.src \in Expenses /\ r.tgt \in Expenses /\ r.src \in Debits /\ r.tgt \in Purchases
         /\ r.src \notin Purchases /\ r.tgt \notin Debits /\ r.src # r.tgt
         /\ expense[r.src].link \in Purchases /\ Rated(expense[r.src].link)
         /\ SettledBy(r.src) = {} /\ InRateio(r.src) /\ InRateio(r.tgt) /\ Rated(r.tgt) /\ SharedBy(r.src) # {}
<1>1. \A q \in share : q.src \in Expenses /\ q.tgt \in Expenses /\ q.src \in Debits /\ q.tgt \in Purchases
  BY Participants DEF Books
<1>2. PICK q \in share : q.tgt = expense[r.src].link
  BY DEF Allotted, Shared, TargetsOf, SharedBy
<1>3. SettledBy(r.src) = {}
  BY DEF Books, SettledOrShared, SettledBy
<1> QED BY <1>1, <1>2, <1>3 DEF Separate, InRateio, Rated, SharedBy

LEMMA FundingQuiet ==
  ASSUME Separate, Books, Allotted,
         \/ \E k \in Keys, c \in Commands : ApplyParcelaFunding(k, c)
         \/ \E f \in Active : UndoParcelaFunding(f)
  PROVE  Counted' /\ UNCHANGED share /\ \A r \in share : Quiet(r)
<1>1. FundingLeaves
  BY FundingStep DEF Books
<1>2. PICK t \in Expenses : /\ ~InRateio(t) /\ \E i, rest, P : ProjectTarget(t, i, rest, P)
  <2>1. CASE \E k \in Keys, c \in Commands : ApplyParcelaFunding(k, c)
    BY <2>1, SettlementAssumption DEF SettlementAssumption, ApplyParcelaFunding, Context, Ordinary
  <2>2. CASE \E f \in Active : UndoParcelaFunding(f)
    BY <2>2 DEF UndoParcelaFunding, Context, Ordinary, Books, FundingExpenses, Active
  <2> QED BY <2>1, <2>2
<1>3. \A e \in Expenses : e # t => expense'[e] = expense[e] /\ cash'[e] = cash[e]
  <2>1. PICK i, rest, P : ProjectTarget(t, i, rest, P)  BY <1>2
  <2> QED BY <2>1 DEF ProjectTarget, Books, Sheets
<1>4. Counted'
  BY <1>1 DEF FundingLeaves, Same, Kept, Allotted, Counted
<1>5. \A r \in share : Quiet(r)
  BY <1>2, <1>3, Sharers DEF Quiet, Untouched, SamePlan
<1> QED BY <1>1, <1>4, <1>5 DEF FundingLeaves

LEMMA SettleQuiet ==
  ASSUME Separate, Books, Allotted, NEW c \in Settles, SettleTargetParcela(c.src, c.tgt, c.idx, c.real)
  PROVE  Counted' /\ UNCHANGED share /\ \A r \in share : Quiet(r)
<1>1. /\ c.src \in Expenses /\ c.tgt \in Expenses /\ c.src \in Debits /\ c.tgt \in Purchases
  BY SettlementAssumption DEF SettlementAssumption, Debits, Purchases
<1>2. \A e \in Expenses : e \notin {c.src, c.tgt} /\ (\A q \in SettlementOf(c.tgt, c.idx) : q.src # e) =>
          expense'[e] = expense[e] /\ cash'[e] = cash[e]
  BY <1>1, SettleEffects DEF Books
<1>3. UNCHANGED share /\ SharedBy(c.src) = {} /\ ~Rated(c.tgt)
  BY NewSettlement
<1>4. ASSUME NEW r \in share PROVE Quiet(r)
  <2>1. r.src \notin {c.src, c.tgt} /\ r.tgt \notin {c.src, c.tgt}
    BY <1>1, <1>3, Sharers
  <2>2. \A q \in legacy : q.src # r.src /\ q.src # r.tgt
    BY Sharers, Participants DEF Books, SettledBy
  <2> QED BY <1>2, <2>1, <2>2, Sharers DEF Quiet, Untouched, SamePlan, SettlementOf
<1>5. \A e \in Expenses : e \in Debits => expense'[e].count = expense[e].count
  <2> SUFFICES ASSUME NEW e \in Expenses, e # c.tgt PROVE expense'[e].count = expense[e].count
    BY <1>1 DEF Separate
  <2> DEFINE old == SettlementOf(c.tgt, c.idx)
             ousted == {r.src : r \in old} \ {c.src}
  <2>1. expense'[e] = IF e = c.src THEN [expense[c.src] EXCEPT !.link = c.tgt]
                      ELSE IF e \in ousted THEN Gone(expense[e]) ELSE expense[e]
    BY DEF SettleTargetParcela
  <2> HIDE DEF ousted
  <2> QED BY <2>1, LinkedRow, GoneRow DEF Books, Sheets
<1> QED BY <1>3, <1>4, <1>5 DEF Allotted, Counted

LEMMA UnsettleQuiet ==
  ASSUME Separate, Books, Allotted, NEW s \in Expenses, NEW U \in SUBSET {s}, UnsettleBySource(s, U)
  PROVE  Counted' /\ UNCHANGED share /\ \A r \in share : Quiet(r)
<1> DEFINE targets == {t \in {r.tgt : r \in SettledBy(s)} : expense[t].alive}
<1>1. /\ UNCHANGED share /\ SettledBy(s) # {}
      /\ expense' = [e \in Expenses |->
          IF e = s THEN Gone(expense[s])
          ELSE IF e \in targets THEN Forget(Reopened(s, e), U) ELSE Forget(expense[e], U)]
      /\ cash' = [e \in Expenses |->
          IF e = s THEN {}
          ELSE IF e \in targets THEN TargetCash(e, Reopened(s, e), legacy \ SettledBy(s)) ELSE cash[e]]
  BY DEF UnsettleBySource
<1>2. s \in Debits /\ \A t \in targets : t \in Purchases /\ ~Rated(t)
  BY <1>1, Participants DEF Books, SettledBy, SettledOrShared, Rated
<1> HIDE DEF targets
<1>3. ASSUME NEW r \in share PROVE Quiet(r)
  <2>1. r.src # s /\ r.tgt # s /\ r.src \notin targets /\ r.tgt \notin targets
    BY <1>1, <1>2, Sharers
  <2>2. r.src \in Expenses /\ r.tgt \in Expenses /\ expense[r.src].link \notin U
    BY <1>2, Sharers DEF Separate
  <2>3. /\ expense'[r.src] = Forget(expense[r.src], U) /\ expense'[r.tgt] = Forget(expense[r.tgt], U)
        /\ cash'[r.tgt] = cash[r.tgt]
    BY <1>1, <2>1, <2>2
  <2>4. /\ Forget(expense[r.src], U) = expense[r.src]
        /\ Plan(Forget(expense[r.tgt], U)) = Plan(expense[r.tgt])
    BY <2>2, ForgetRow DEF Books, Sheets
  <2> QED BY <2>3, <2>4 DEF Quiet, Untouched, SamePlan, Plan
<1>4. \A e \in Expenses : expense'[e].count = expense[e].count
  <2>1. \A e \in Expenses : e # s => expense'[e].count = expense[e].count
    BY UnsettleEffects DEF Books
  <2>2. expense'[s].count = expense[s].count
    BY <1>1, GoneRow DEF Books, Sheets
  <2> QED BY <2>1, <2>2
<1> QED BY <1>1, <1>3, <1>4 DEF Allotted, Counted

LEMMA EditQuiet ==
  ASSUME Separate, Books, Allotted,
         \/ \E s \in Expenses : Relinked(s)
         \/ \E e \in Expenses, v \in Prices : Update(e, v)
         \/ \E e \in Toggled, paid \in BOOLEAN : \E i : SetParcelaStatus(e, i, paid)
         \/ \E e \in Expenses : \E i : UpdateInstallmentDate(e, i)
         \/ \E e \in Expenses : RemovedPair(e)
  PROVE  Counted' /\ UNCHANGED share /\ \A r \in share : Quiet(r)
<1>0. Sheets /\ SettledOrShared /\ \A r \in share : InRateio(r.src) /\ InRateio(r.tgt) /\ r.src \in Expenses /\ r.tgt \in Expenses
  BY Sharers DEF Books
<1>1. ASSUME NEW s \in Expenses, Relinked(s)
      PROVE  Counted' /\ UNCHANGED share /\ \A r \in share : Quiet(r)
  <2>1. PICK t : expense' = [expense EXCEPT ![s].link = t]  BY <1>1 DEF Relinked
  <2>2. ~InRateio(s) /\ UNCHANGED <<cash, share>>  BY <1>1 DEF Relinked
  <2>3. /\ \A e \in Expenses : e # s => expense'[e] = expense[e]
        /\ expense'[s].count = expense[s].count
    BY <1>0, <2>1, <2>2, LinkEffects
  <2> QED BY <1>0, <2>2, <2>3 DEF Allotted, Counted, Quiet, Untouched, SamePlan
<1>2. ASSUME NEW e \in Expenses, NEW v \in Prices, Update(e, v)
      PROVE  Counted' /\ UNCHANGED share /\ \A r \in share : Quiet(r)
  <2>1. /\ UNCHANGED share /\ \A o \in Expenses : Same(o)
        /\ \A o \in Expenses : InRateio(o) => expense'[o] = expense[o] /\ cash'[o] = cash[o]
    BY <1>0, <1>2, UpdateEffects
  <2> QED BY <1>0, <2>1 DEF Allotted, Counted, Quiet, Untouched, SamePlan, Same, Kept
<1>3. ASSUME NEW e \in Toggled, NEW i, NEW paid \in BOOLEAN, SetParcelaStatus(e, i, paid)
      PROVE  Counted' /\ UNCHANGED share /\ \A r \in share : Quiet(r)
  <2>1. e \in Expenses  BY SettlementAssumption DEF SettlementAssumption
  <2>2. /\ UNCHANGED share /\ ~InRateio(e) /\ \A o \in Expenses : Same(o)
        /\ \A o \in Expenses : o # e => expense'[o] = expense[o] /\ cash'[o] = cash[o]
    BY <1>0, <1>3, <2>1, ToggleEffects
  <2> QED BY <1>0, <2>2 DEF Allotted, Counted, Quiet, Untouched, SamePlan, Same, Kept
<1>4. ASSUME NEW e \in Expenses, NEW i, UpdateInstallmentDate(e, i)
      PROVE  Counted' /\ UNCHANGED share /\ \A r \in share : Quiet(r)
  <2> DEFINE target == \E r \in legacy : r.tgt = e
             pair == IF target \/ SharedBy(e) # {} THEN {} ELSE {o \in LinkedTo(e) : ~InSettlement(o)}
  <2>1. /\ UNCHANGED <<expense, share>>
        /\ cash' = [o \in Expenses |->
            IF o = e /\ target THEN TargetCash(e, expense[e], legacy)
            ELSE IF o \in {e} \cup pair \cup TargetsOf(e) THEN PlainCash(o, expense[o]) ELSE cash[o]]
    BY <1>4 DEF UpdateInstallmentDate
  <2>2. \A r \in share : ~(r.tgt = e /\ target)
    BY <1>0 DEF SettledOrShared
  <2> HIDE DEF pair, target
  <2>3. ASSUME NEW r \in share
        PROVE  cash'[r.tgt] = cash[r.tgt] \/ IsPlain(cash'[r.tgt], expense[r.tgt])
    <3>1. cash'[r.tgt] = cash[r.tgt] \/ cash'[r.tgt] = PlainCash(r.tgt, expense[r.tgt])
      BY <1>0, <2>1, <2>2
    <3> QED BY <3>1, PlainCashIsPlain
  <2> QED BY <2>1, <2>3 DEF Allotted, Counted, Quiet, Untouched, SamePlan
<1>5. ASSUME NEW e \in Expenses, RemovedPair(e)
      PROVE  Counted' /\ UNCHANGED share /\ \A r \in share : Quiet(r)
  <2>1. RemovePair(e) /\ ~InRateio(e)  BY <1>5 DEF RemovedPair
  <2>2. UNCHANGED share  BY <1>0, <2>1, PairEffects
  <2>3. PICK gone \in SUBSET Expenses :
              /\ \A o \in gone : o = e \/ (~InSettlement(o) /\ ~InRateio(o))
              /\ \A o \in Expenses : o \notin gone =>
                   /\ Plan(expense'[o]) = Plan(expense[o]) /\ cash'[o] = cash[o]
                   /\ expense[o].link \notin gone => expense'[o] = expense[o]
    BY <1>0, <2>1, PairEffects
  <2>4. \A r \in share : r.src \notin gone /\ r.tgt \notin gone /\ expense[r.src].link \notin gone
    BY <2>1, <2>3, Sharers DEF InRateio
  <2>5. \A r \in share : Quiet(r)
    BY <1>0, <2>3, <2>4 DEF Quiet, Untouched, SamePlan, Plan
  <2>6. \A o \in Expenses : expense'[o].count = expense[o].count
    <3> TAKE o \in Expenses
    <3>1. expense'[o] = [expense[o] EXCEPT !.alive = FALSE] \/ \E E : expense'[o] = Forget(expense[o], E)
      BY <2>1 DEF RemovePair
    <3>2. IsRow(expense[o])  BY <1>0 DEF Sheets
    <3>3. CASE expense'[o] = [expense[o] EXCEPT !.alive = FALSE]
      BY <3>2, <3>3, DeadRow
    <3>4. ASSUME NEW E, expense'[o] = Forget(expense[o], E)
          PROVE  expense'[o].count = expense[o].count
      BY <3>2, <3>4, ForgetRow
    <3> QED BY <3>1, <3>3, <3>4
  <2> QED BY <2>2, <2>5, <2>6 DEF Allotted, Counted
<1> QED BY <1>1, <1>2, <1>3, <1>4, <1>5

\* The allocations of other sources, when those of s end or are replaced.
LEMMA Others ==
  ASSUME Separate, Books, Allotted, NEW s, NEW r \in share, r.src # s
  PROVE  r.tgt \notin TargetsOf(s) /\ (s \in Debits => r.src \notin TargetsOf(s) /\ r.tgt # s /\ expense[r.src].link # s)
<1>1. r.tgt \notin TargetsOf(s)
  BY DEF Allotted, OneSource, TargetsOf, SharedBy
<1>2. TargetsOf(s) \subseteq Purchases
  BY Sharers DEF TargetsOf, SharedBy
<1> QED BY <1>1, <1>2, Sharers DEF Separate

LEMMA UnratearAllotted ==
  ASSUME Separate, Books, Allotted, NEW s \in Expenses, NEW removed \in BOOLEAN, NEW U \in SUBSET {s},
         UnratearSource(s, removed, U)
  PROVE  Allotted'
<1>1. /\ SharedBy(s) # {} /\ share' = share \ SharedBy(s)
      /\ \A e \in Expenses : e # s =>
           /\ e \notin TargetsOf(s) => cash'[e] = cash[e] /\ Plan(expense'[e]) = Plan(expense[e])
           /\ e \notin TargetsOf(s) /\ expense[e].link \notin U => expense'[e] = expense[e]
  BY UnratearEffects DEF Books
<1>2. s \in Debits /\ s \notin TargetsOf(s)
  BY <1>1, Sharers DEF SharedBy, TargetsOf
<1>3. ASSUME NEW r \in share'
      PROVE  Shared(r)'
  <2>1. r \in share /\ r.src # s  BY <1>1 DEF SharedBy
  <2>2. SharedBy(r.src)' = SharedBy(r.src)  BY <1>1, <2>1 DEF SharedBy
  <2>3. Quiet(r)
    <3>1. r.src \in Expenses /\ r.tgt \in Expenses  BY <2>1, Sharers
    <3>2. /\ r.tgt \notin TargetsOf(s) /\ r.src \notin TargetsOf(s)
          /\ r.tgt # s /\ expense[r.src].link # s
      BY <1>2, <2>1, Others
    <3>3. cash'[r.tgt] = cash[r.tgt] /\ Plan(expense'[r.tgt]) = Plan(expense[r.tgt])
      BY <1>1, <3>1, <3>2
    <3>4. expense'[r.src] = expense[r.src]
      BY <1>1, <2>1, <3>1, <3>2
    <3> QED BY <3>3, <3>4 DEF Quiet, Untouched, SamePlan, Plan
  <2> QED BY <2>1, <2>2, <2>3, QuietShared DEF Allotted
<1>4. expense'[s].count = expense[s].count
  <2>1. expense'[s] = IF removed THEN Gone(expense[s]) ELSE Forget(Restored(s, s), U)
    BY DEF UnratearSource
  <2>2. IsRow(expense[s]) /\ IsRow(Restored(s, s)) /\ Plan(Restored(s, s)) = Plan(expense[s])
    BY <1>2, RestoredRow DEF Books, Sheets
  <2>3. Restored(s, s).count = expense[s].count  BY <2>2 DEF Plan
  <2> QED BY <2>1, <2>2, <2>3, GoneRow, ForgetRow
<1>5. \A e \in Expenses : e # s /\ e \in Debits => expense'[e].count = expense[e].count
  <2>1. TargetsOf(s) \cap Debits = {}
    BY Sharers DEF TargetsOf, SharedBy
  <2> QED BY <1>1, <2>1 DEF Plan
<1>6. Counted'
  BY <1>4, <1>5 DEF Allotted, Counted
<1>7. OneSource'
  BY <1>1 DEF Allotted, OneSource
<1> QED BY <1>3, <1>6, <1>7 DEF Allotted

LEMMA Multiple ==
  ASSUME NEW p \in Nat, NEW n \in Nat, n > 0
  PROVE  (p * n) \div n = p
OBVIOUS

LEMMA RatearAllotted ==
  ASSUME Separate, Divided, Books, Allotted, NEW c \in Splits, RatearSource(c.src, c.parts)
  PROVE  Allotted'
<1> DEFINE s == c.src
           parts == c.parts
           row(t) == [src |-> s, tgt |-> t, part |-> parts[t], plan |-> Plan(Restored(s, t))]
<1>1. /\ s \in Expenses /\ DOMAIN parts \subseteq Expenses /\ s \in Debits
      /\ DOMAIN parts \subseteq Purchases
  BY SettlementAssumption DEF SettlementAssumption, Debits, Purchases
<1>2. /\ share' = (share \ SharedBy(s)) \cup {row(t) : t \in DOMAIN parts}
      /\ \A t \in DOMAIN parts : SharedBy(t) = {} /\ \A r \in share : r.tgt = t => r.src = s
  BY SplitShares
<1>3. PICK first \in DOMAIN parts :
        expense' = [e \in Expenses |->
            IF e \in DOMAIN parts THEN Aligned(Restored(s, e), s, parts[e])
            ELSE IF e = s THEN [expense[s] EXCEPT !.link = first] ELSE Restored(s, e)]
  BY DEF RatearSource
<1>4. cash' = [e \in Expenses |->
          IF e \in DOMAIN parts THEN PlainCash(e, Aligned(Restored(s, e), s, parts[e]))
          ELSE IF e \in TargetsOf(s) THEN TargetCash(e, Restored(s, e), legacy) ELSE cash[e]]
  BY DEF RatearSource
<1>5. SumFunction(parts) = Total(expense[s]) /\ expense[s].alive
  BY DEF RatearSource, Shareable
<1>6. s \notin DOMAIN parts
  BY <1>1 DEF Separate
<1>7. /\ Plan(expense'[s]) = Plan(expense[s]) /\ expense'[s].alive = expense[s].alive
      /\ \A e \in Expenses : e \notin DOMAIN parts \cup TargetsOf(s) \cup {s} =>
              expense'[e] = expense[e] /\ cash'[e] = cash[e]
  BY <1>1, RatearEffects DEF Books
<1>8. expense'[s].link = first
  <2>1. expense'[s] = [expense[s] EXCEPT !.link = first]  BY <1>1, <1>3, <1>6
  <2> QED BY <1>1, <2>1, LinkedRow DEF Books, Sheets
<1>9. expense[s].count = Count[s] /\ Count[s] \in Nat /\ Count[s] > 0
  BY <1>1, SettlementAssumption DEF SettlementAssumption, Allotted, Counted
<1>10. \A t \in DOMAIN parts : parts[t] \in Nat
  BY <1>1, <1>9 DEF Divided
<1> HIDE DEF s, parts
<1>11. \A t \in DOMAIN parts : row(t) \in share' /\ row(t).src = s /\ row(t).tgt = t /\ row(t).part = parts[t]
  BY <1>2
<1>12. \A r \in share' : (r \in share /\ r.src # s) \/ \E t \in DOMAIN parts : r = row(t)
  BY <1>2 DEF SharedBy
<1>13. SharedBy(s)' = {row(t) : t \in DOMAIN parts}
  BY <1>2, <1>11 DEF SharedBy
<1> HIDE DEF row
<1>14. PartsOf(SharedBy(s))' = SumFunction(parts)
  <2> DEFINE T == {row(t) : t \in DOMAIN parts}
             h == [t \in DOMAIN parts |-> row(t)]
             g == [q \in T |-> q.part]
  <2>1. h \in Bijection(DOMAIN parts, T)
    <3>1. h \in [DOMAIN parts -> T] /\ \A y \in T : \E t \in DOMAIN parts : h[t] = y
      OBVIOUS
    <3>2. ASSUME NEW t \in DOMAIN parts, NEW v \in DOMAIN parts, h[t] = h[v]
          PROVE  t = v
      BY <1>11, <3>2
    <3> QED BY <3>1, <3>2 DEF Bijection, Injection, Surjection, IsInjective
  <2>2. IsFiniteSet(DOMAIN parts)
    BY <1>1, FS_Subset, SettlementAssumption DEF SettlementAssumption
  <2>3. \A t \in DOMAIN parts : parts[t] \in Nat /\ g[h[t]] = parts[t]
    BY <1>10, <1>11
  <2>4. PartsOf(SharedBy(s))' = SumFunctionOnSet(g, T)
    BY <1>13 DEF PartsOf, SumFunction
  <2> HIDE DEF h, g, T
  <2>5. SumFunctionOnSet(g, T) = SumFunctionOnSet(parts, DOMAIN parts)
    BY <2>1, <2>2, <2>3, SumRenamed
  <2> QED BY <2>4, <2>5 DEF SumFunction
<1>15. ASSUME NEW t \in DOMAIN parts
       PROVE  /\ expense'[t].price \in Nat /\ expense'[t].count = Count[s]
              /\ expense'[t].price * expense'[t].count = parts[t]
              /\ IsPlain(cash'[t], expense'[t])
  <2>1. t \in Expenses /\ expense'[t] = Aligned(Restored(s, t), s, parts[t])
    BY <1>1, <1>3
  <2>2. IsPlain(cash'[t], expense'[t])
    BY <1>4, <2>1, PlainCashIsPlain
  <2>3. PICK p \in Nat : parts[t] = p * Count[s]
    BY DEF Divided, parts, s
  <2>4. IsRow(Restored(s, t))
    BY <2>1, RestoredRow DEF Books
  <2>5. expense'[t].price = parts[t] \div Count[s] /\ expense'[t].count = Count[s]
    <3> DEFINE x == Restored(s, t)
               price == parts[t] \div expense[s].count
               y == [x EXCEPT !.price = price, !.count = expense[s].count, !.paid = expense[s].paid]
    <3>1. expense'[t] = y  BY <2>1 DEF Aligned
    <3> HIDE DEF x, price
    <3>2. y.price = price /\ y.count = expense[s].count
      BY <2>4 DEF x, IsRow, Fields
    <3> QED BY <3>1, <3>2, <1>9 DEF price
  <2>6. parts[t] \div Count[s] = p
    BY <1>9, <2>3, Multiple
  <2> QED BY <1>9, <2>2, <2>3, <2>5, <2>6
<1>16. Total(expense[s]) = expense'[s].price * expense'[s].count
  BY <1>7 DEF Plan, Total
<1>17. ASSUME NEW r \in share', NEW t \in DOMAIN parts, r.src = s, r.tgt = t, r.part = parts[t]
       PROVE  Shared(r)'
  <2>1. first \in TargetsOf(s)'
    BY <1>11 DEF TargetsOf, SharedBy
  <2> QED BY <1>5, <1>7, <1>8, <1>9, <1>14, <1>15, <1>16, <1>17, <2>1 DEF Shared
<1>18. ASSUME NEW r \in share, r.src # s
       PROVE  Shared(r)'
  <2>1. r.src \notin DOMAIN parts /\ r.tgt \notin DOMAIN parts
    BY <1>1, <1>2, <1>18, Sharers
  <2>2. Quiet(r)
    BY <1>1, <1>7, <1>18, <2>1, Others, Sharers DEF Quiet, Untouched, SamePlan
  <2>3. SharedBy(r.src)' = SharedBy(r.src)
    BY <1>2, <1>11, <1>12, <1>18 DEF SharedBy
  <2> QED BY <2>2, <2>3, QuietShared DEF Allotted
<1>19. OneSource'
  <2> SUFFICES ASSUME NEW q \in share', NEW r \in share', q.tgt = r.tgt PROVE q = r
    BY DEF OneSource
  <2>1. CASE q \in share /\ r \in share
    BY <2>1 DEF Allotted, OneSource
  <2>2. CASE q \in share /\ q.src # s /\ \E t \in DOMAIN parts : r = row(t)
    BY <2>2, <1>2, <1>11
  <2>3. CASE r \in share /\ r.src # s /\ \E t \in DOMAIN parts : q = row(t)
    BY <2>3, <1>2, <1>11
  <2>4. CASE (\E t \in DOMAIN parts : q = row(t)) /\ \E t \in DOMAIN parts : r = row(t)
    BY <2>4, <1>11
  <2> QED BY <1>12, <2>1, <2>2, <2>3, <2>4
<1>20. Counted'
  <2> SUFFICES ASSUME NEW e \in Expenses, e \in Debits PROVE expense'[e].count = expense[e].count
    BY DEF Allotted, Counted
  <2>1. e \notin DOMAIN parts /\ e \notin TargetsOf(s)
    BY <1>1, Sharers DEF Separate, TargetsOf, SharedBy
  <2> QED BY <1>7, <2>1 DEF Plan
<1>21. ASSUME NEW r \in share' PROVE Shared(r)'
  BY <1>11, <1>12, <1>17, <1>18
<1> QED BY <1>19, <1>20, <1>21 DEF Allotted

LEMMA AllottedInit == Init => Allotted
BY DEF Init, Allotted, Counted, OneSource

LEMMA AllottedStep ==
  ASSUME Separate, Divided, Books, Allotted, [Next]_vars
  PROVE  Allotted'
<1>1. CASE UNCHANGED vars
  BY <1>1 DEF vars, Allotted, Counted, OneSource, Shared, TargetsOf, SharedBy, PartsOf, IsPlain, Indexes
<1>2. CASE Counted' /\ UNCHANGED share /\ \A r \in share : Quiet(r)
  BY <1>2, QuietStep DEF Allotted
<1> QED
  BY <1>1, <1>2, FundingQuiet, SettleQuiet, UnsettleQuiet, EditQuiet, UnratearAllotted, RatearAllotted, Steps

\* A rateio adds up for as long as it lasts: its parts are the source, its targets
\* show them in their cash flows, and its source is alive and the mirror of one of
\* them, whatever is funded, settled, edited, moved or removed beside it, if debits and
\* purchases are different expenses and parts divide by the source's installments
\* (ratearSource, and the guards of the edits).
THEOREM SharesAreKept ==
  ASSUME Separate, Divided
  PROVE  Spec => []SharesStand
<1>1. Init => Books /\ Allotted
  BY BooksInit, AllottedInit
<1>2. Books /\ Allotted /\ [Next]_vars => (Books /\ Allotted)'
  BY BooksStep, AllottedStep
<1>3. Books /\ Allotted => SharesStand
  BY AllottedAddsUp
<1> QED BY <1>1, <1>2, <1>3, PTL DEF Spec

-----------------------------------------------------------------------------
(* Rows and entries, with their types.                                     *)

GoodRow(x) ==
  /\ IsRow(x) /\ x.alive \in BOOLEAN /\ x.price \in Nat /\ x.count \in Nat \ {0}
  /\ x.paid \subseteq Indexes(x) /\ x.link \in Expenses \cup {Nobody}
GoodPlan(p) == p.price \in Nat /\ p.count \in Nat \ {0} /\ p.paid \subseteq 0..(p.count - 1)

EntryFields == {"by", "gen", "idx", "value", "paid", "live"}
IsEntry(c) ==
  /\ c = [k \in EntryFields |-> c[k]]
  /\ c.by \in Keys \cup {None} /\ c.value \in Nat /\ c.paid \in BOOLEAN /\ c.live \in BOOLEAN
GoodCash(C) == IsFiniteSet(C) /\ \A c \in C : IsEntry(c)

GoodExpenses == \A e \in Expenses : GoodRow(expense[e]) /\ GoodCash(cash[e])
GoodTables ==
  /\ IsFiniteSet(funding)
  /\ \A f \in funding : \E c \in Commands : f.src = c.src /\ f.tgt = c.tgt /\ f.amount = c.amount
  /\ \A r \in legacy : r.real \in Nat
  /\ \A r \in share : r.part \in Nat \ {0} /\ GoodPlan(r.plan)

LEMMA GoodPaid ==
  ASSUME NEW x, GoodRow(x), NEW paid \in SUBSET Indexes(x)
  PROVE  GoodRow([x EXCEPT !.paid = paid])
BY DEF GoodRow, IsRow, Fields, Indexes

LEMMA GoodLinked ==
  ASSUME NEW x, GoodRow(x), NEW link \in Expenses \cup {Nobody}
  PROVE  GoodRow([x EXCEPT !.link = link])
BY DEF GoodRow, IsRow, Fields, Indexes

LEMMA GoodDead ==
  ASSUME NEW x, GoodRow(x)
  PROVE  GoodRow([x EXCEPT !.alive = FALSE]) /\ GoodRow(Gone(x))
BY DEF GoodRow, IsRow, Fields, Indexes, Gone

LEMMA GoodForget ==
  ASSUME NEW x, GoodRow(x), NEW E
  PROVE  GoodRow(Forget(x, E))
BY GoodLinked DEF Forget

LEMMA GoodPriced ==
  ASSUME NEW x, GoodRow(x), NEW v \in Nat
  PROVE  GoodRow(Priced(x, v))
<1> DEFINE paid == IF x.paid = Indexes(x) THEN x.paid ELSE {}
           y == [x EXCEPT !.price = v, !.paid = paid]
<1>1. Priced(x, v) = y
  BY DEF Priced
<1>2. paid \in SUBSET Indexes(x)
  BY DEF GoodRow
<1> HIDE DEF paid
<1>3. GoodRow(y)
  BY <1>2 DEF GoodRow, IsRow, Fields, Indexes
<1> QED BY <1>1, <1>3

LEMMA GoodAligned ==
  ASSUME NEW x, GoodRow(x), NEW s, GoodRow(expense[s]), NEW part \in Nat
  PROVE  GoodRow(Aligned(x, s, part))
<1> DEFINE price == part \div expense[s].count
           count == expense[s].count
           paid == expense[s].paid
           y == [x EXCEPT !.price = price, !.count = count, !.paid = paid]
<1>1. count \in Nat \ {0} /\ paid \subseteq 0..(count - 1)
  BY DEF GoodRow, Indexes
<1>2. price \in Nat
  BY <1>1
<1>3. Aligned(x, s, part) = y
  BY DEF Aligned
<1> HIDE DEF price, count, paid
<1>4. GoodRow(y)
  BY <1>1, <1>2 DEF GoodRow, IsRow, Fields, Indexes
<1> HIDE DEF y
<1> QED BY <1>3, <1>4

LEMMA GoodRestored ==
  ASSUME GoodExpenses, GoodTables, NEW s, NEW e \in Expenses
  PROVE  GoodRow(Restored(s, e))
<1>1. GoodRow(expense[e])
  BY DEF GoodExpenses
<1>2. CASE e \in TargetsOf(s) /\ expense[e].alive
  <2> DEFINE p == PlanOf(e)
             plans == {r.plan : r \in {q \in share : q.tgt = e}}
             y == [expense[e] EXCEPT !.price = p.price, !.count = p.count, !.paid = p.paid]
  <2>1. plans # {} /\ \A q \in plans : GoodPlan(q)
    BY <1>2 DEF TargetsOf, SharedBy, GoodTables
  <2>2. p \in plans
    BY <2>1 DEF PlanOf
  <2>3. p.price \in Nat /\ p.count \in Nat \ {0} /\ p.paid \subseteq 0..(p.count - 1)
    BY <2>1, <2>2 DEF GoodPlan
  <2>4. Restored(s, e) = y
    BY <1>2 DEF Restored
  <2> HIDE DEF p
  <2>5. GoodRow(y)
    BY <1>1, <2>3 DEF GoodRow, IsRow, Fields, Indexes
  <2> HIDE DEF y
  <2> QED BY <2>4, <2>5
<1>3. CASE ~(e \in TargetsOf(s) /\ expense[e].alive)
  BY <1>1, <1>3, GoodLinked DEF Restored
<1> QED BY <1>2, <1>3

LEMMA GoodReopened ==
  ASSUME NEW s, NEW e, GoodRow(expense[e])
  PROVE  GoodRow(Reopened(s, e))
<1> DEFINE paid == expense[e].paid \ {r.idx : r \in {q \in SettledBy(s) : q.tgt = e /\ ~q.wasPaid}}
<1>1. paid \in SUBSET Indexes(expense[e])
  BY DEF GoodRow
<1>2. Reopened(s, e) = [expense[e] EXCEPT !.paid = paid]
  BY DEF Reopened
<1> HIDE DEF paid
<1> QED BY <1>1, <1>2, GoodPaid

LEMMA IndexesFinite ==
  ASSUME NEW x, x.count \in Nat
  PROVE  IsFiniteSet(Indexes(x))
<1>1. PICK m \in Int : m = x.count - 1
  OBVIOUS
<1> QED BY <1>1, ZeroTo DEF Indexes

LEMMA GoodEntries ==
  ASSUME NEW g, NEW values, NEW paid, NEW I, IsFiniteSet(I), \A i \in I : values[i] \in Nat
  PROVE  GoodCash(Entries(g, values, paid, I))
<1> DEFINE entry(i) == [by |-> None, gen |-> g, idx |-> i, value |-> values[i], paid |-> i \in paid, live |-> TRUE]
           C == {entry(i) : i \in I}
           h == [i \in I |-> entry(i)]
<1>1. Entries(g, values, paid, I) = C
  BY DEF Entries
<1>2. \A i \in I : IsEntry(entry(i))
  <2> TAKE i \in I
  <2>1. values[i] \in Nat
    OBVIOUS
  <2>2. (i \in paid) \in BOOLEAN
    OBVIOUS
  <2> QED BY <2>1, <2>2 DEF IsEntry, EntryFields
<1>3. h \in Surjection(I, C)
  BY DEF Surjection
<1>4. IsFiniteSet(C)
  <2> HIDE DEF h, C
  <2> QED BY <1>3, FS_Surjection
<1> QED BY <1>1, <1>2, <1>4 DEF GoodCash

LEMMA GoodPlain ==
  ASSUME NEW e, NEW x, GoodRow(x)
  PROVE  GoodCash(PlainCash(e, x))
<1>1. IsFiniteSet(Indexes(x)) /\ x.price \in Nat
  BY IndexesFinite DEF GoodRow
<1> QED BY <1>1, GoodEntries DEF PlainCash

LEMMA GoodUnion ==
  ASSUME NEW C, NEW D, GoodCash(C), GoodCash(D)
  PROVE  GoodCash(C \cup D)
BY FS_Union DEF GoodCash

LEMMA GoodSubset ==
  ASSUME NEW C, NEW D \in SUBSET C, GoodCash(C)
  PROVE  GoodCash(D)
BY FS_Subset DEF GoodCash

LEMMA GoodEmpty == GoodCash({})
BY FS_EmptySet DEF GoodCash

LEMMA GoodTarget ==
  ASSUME NEW e, NEW x, NEW rows, GoodCash(cash[e]), GoodRow(x), \A r \in rows : r.real \in Nat
  PROVE  GoodCash(TargetCash(e, x, rows))
<1> DEFINE real(i) == {r \in rows : r.tgt = e /\ r.idx = i}
           value(i) == IF real(i) = {} THEN x.price ELSE (CHOOSE r \in real(i) : TRUE).real
           values == [i \in Indexes(x) |-> value(i)]
           open == {i \in Indexes(x) : FundingOf(e, i) = {}}
           paid == x.paid \cup {i \in Indexes(x) : real(i) # {}}
<1>1. TargetCash(e, x, rows) = Retained(e) \cup Entries(NextGen(e), values, paid, open)
  BY DEF TargetCash
<1>2. \A i \in open : values[i] \in Nat
  <2> TAKE i \in open
  <2>1. values[i] = value(i)
    OBVIOUS
  <2>2. CASE real(i) = {}
    BY <2>1, <2>2 DEF GoodRow
  <2>3. CASE real(i) # {}
    <3>1. (CHOOSE r \in real(i) : TRUE) \in rows
      BY <2>3
    <3> QED BY <2>1, <2>3, <3>1
  <2> QED BY <2>2, <2>3
<1>3. IsFiniteSet(open)
  BY IndexesFinite, FS_Subset DEF GoodRow
<1> HIDE DEF values, open, paid
<1>4. GoodCash(Entries(NextGen(e), values, paid, open))
  BY <1>2, <1>3, GoodEntries
<1>5. GoodCash(Retained(e))
  BY GoodSubset DEF Retained
<1> QED BY <1>1, <1>4, <1>5, GoodUnion

LEMMA AmountNat ==
  ASSUME NEW F, IsFiniteSet(F), \A f \in F : f.amount \in Nat
  PROVE  Amount(F) \in Nat
<1> DEFINE a == [f \in F |-> f.amount]
<1>1. \A f \in F : a[f] \in Nat
  OBVIOUS
<1>2. Amount(F) = SumFunctionOnSet(a, F)
  BY DEF Amount, SumFunction
<1> HIDE DEF a
<1> QED BY <1>1, <1>2, SumIsUnits, UnitsFinite

LEMMA FundingAmounts ==
  ASSUME GoodTables
  PROVE  /\ IsFiniteSet(Active) /\ \A f \in funding : f.amount \in Nat \ {0}
         /\ \A e, i : IsFiniteSet(FundingOf(e, i)) /\ Amount(FundingOf(e, i)) \in Nat
         /\ \A e : IsFiniteSet(FundedBy(e)) /\ Amount(FundedBy(e)) \in Nat
<1>1. \A f \in funding : f.amount \in Nat \ {0}
  BY AmountAssumption DEF AmountAssumption, GoodTables
<1>2. IsFiniteSet(Active)
  BY FS_Subset DEF GoodTables, Active
<1>3. ASSUME NEW F \in SUBSET Active
      PROVE  IsFiniteSet(F) /\ Amount(F) \in Nat
  <2>1. IsFiniteSet(F) /\ \A f \in F : f.amount \in Nat
    BY <1>1, <1>2, FS_Subset DEF Active
  <2> QED BY <2>1, AmountNat
<1>4. \A e, i : FundingOf(e, i) \in SUBSET Active
  BY DEF FundingOf
<1>5. \A e : FundedBy(e) \in SUBSET Active
  BY DEF FundedBy
<1> QED BY <1>1, <1>2, <1>3, <1>4, <1>5

Projection(f) ==
  [by |-> f.key, gen |-> None, idx |-> f.idx, value |-> f.amount, paid |-> TRUE, live |-> TRUE]

LEMMA GoodProjections ==
  ASSUME NEW F, IsFiniteSet(F), \A f \in F : f.key \in Keys /\ f.amount \in Nat
  PROVE  GoodCash(ProjectionsOf(F))
<1> DEFINE C == {Projection(f) : f \in F}
           h == [f \in F |-> Projection(f)]
<1>1. ProjectionsOf(F) = C
  BY DEF ProjectionsOf, Projection
<1>2. \A f \in F : IsEntry(Projection(f))
  BY DEF IsEntry, EntryFields, Projection
<1>3. h \in Surjection(F, C)
  BY DEF Surjection
<1>4. IsFiniteSet(C)
  <2> HIDE DEF h, C
  <2> QED BY <1>3, FS_Surjection
<1> QED BY <1>1, <1>2, <1>4 DEF GoodCash

\* The balance that a pending entry is left with.
LEMMA BalancedEntry ==
  ASSUME NEW c, IsEntry(c), NEW v \in Nat
  PROVE  LET d == [c EXCEPT !.value = v, !.live = v # 0]
         IN  /\ IsEntry(d) /\ d.by = c.by /\ d.gen = c.gen /\ d.idx = c.idx /\ d.paid = c.paid
             /\ d.value = v /\ d.live = (v # 0)
<1> DEFINE live == v # 0
           d == [c EXCEPT !.value = v, !.live = live]
<1>1. live \in BOOLEAN
  OBVIOUS
<1> HIDE DEF live
<1>2. /\ IsEntry(d) /\ d.by = c.by /\ d.gen = c.gen /\ d.idx = c.idx /\ d.paid = c.paid
      /\ d.value = v /\ d.live = live
  BY <1>1 DEF IsEntry, EntryFields
<1> QED BY <1>2 DEF live

LEMMA GoodProject ==
  ASSUME Sheets, GoodExpenses, NEW t \in Expenses, NEW i \in Indexes(expense[t]), NEW rest \in Nat, NEW P, GoodCash(P),
         Pending(t, i) # {}, ProjectTarget(t, i, rest, P)
  PROVE  GoodExpenses'
<1> DEFINE p == CHOOSE c \in Pending(t, i) : TRUE
           kept == {c \in cash[t] : c # p /\ c.by \notin {f.key : f \in FundingOf(t, i)}}
           d == [p EXCEPT !.value = rest, !.live = rest # 0]
           paid == IF rest = 0 THEN expense[t].paid \cup {i} ELSE expense[t].paid \ {i}
<1>1. /\ cash' = [cash EXCEPT ![t] = kept \cup P \cup {d}]
      /\ expense' = [expense EXCEPT ![t].paid = paid]
  BY DEF ProjectTarget
<1>2. p \in cash[t]
  BY DEF Pending
<1>3. GoodRow(expense[t]) /\ GoodCash(cash[t])
  BY DEF GoodExpenses
<1>4. IsEntry(d)
  BY <1>2, <1>3, BalancedEntry DEF GoodCash
<1>5. kept \in SUBSET cash[t] /\ paid \in SUBSET Indexes(expense[t])
  BY <1>3 DEF GoodRow
<1> HIDE DEF p, kept, d, paid
<1>6. GoodCash({d})
  BY <1>4, FS_Singleton DEF GoodCash
<1>7. GoodCash(kept \cup P \cup {d})
  BY <1>3, <1>5, <1>6, GoodSubset, GoodUnion
<1>8. GoodRow([expense[t] EXCEPT !.paid = paid])
  BY <1>3, <1>5, GoodPaid
<1>9. /\ expense'[t] = [expense[t] EXCEPT !.paid = paid] /\ cash'[t] = kept \cup P \cup {d}
      /\ \A e \in Expenses : e # t => expense'[e] = expense[e] /\ cash'[e] = cash[e]
  BY <1>1 DEF Sheets
<1> QED BY <1>7, <1>8, <1>9 DEF GoodExpenses, GoodRow, Indexes, GoodCash, IsEntry

LEMMA GoodInit == Init => GoodExpenses /\ GoodTables
<1> SUFFICES ASSUME Init PROVE GoodExpenses /\ GoodTables
  OBVIOUS
<1>1. ASSUME NEW e \in Expenses
      PROVE  GoodRow(expense[e]) /\ GoodCash(cash[e])
  <2> DEFINE I == 0..(Count[e] - 1)
             paid == IF e \in Settled THEN I ELSE {}
  <2>1. Price[e] \in Nat /\ Count[e] \in Nat \ {0} /\ paid \in SUBSET I
    BY SettlementAssumption DEF SettlementAssumption
  <2>2. expense[e] = [alive |-> TRUE, price |-> Price[e], count |-> Count[e], paid |-> paid, link |-> Nobody]
    BY DEF Init
  <2>3. cash[e] = Entries(1, [i \in I |-> Price[e]], expense[e].paid, I)
    BY DEF Init
  <2>4. GoodRow(expense[e])
    <3> HIDE DEF paid
    <3> QED BY <2>1, <2>2 DEF GoodRow, IsRow, Fields, Indexes
  <2>5. IsFiniteSet(I)
    BY <2>1, <2>2, IndexesFinite DEF Indexes
  <2> HIDE DEF I
  <2>6. GoodCash(cash[e])
    BY <2>1, <2>3, <2>5, GoodEntries
  <2> QED BY <2>4, <2>6
<1>2. GoodTables
  BY FS_EmptySet DEF Init, GoodTables
<1> QED BY <1>1, <1>2 DEF GoodExpenses

LEMMA GoodNext ==
  ASSUME \A e \in Expenses : GoodRow(expense'[e]) /\ GoodCash(cash'[e])
  PROVE  GoodExpenses'
BY DEF GoodExpenses, GoodRow, Indexes, GoodCash, IsEntry

\* What a funding or its undo writes.
LEMMA GoodFunding ==
  ASSUME Sheets, KeysOnce, GoodExpenses, GoodTables,
         \/ \E k \in Keys, c \in Commands : ApplyParcelaFunding(k, c)
         \/ \E f \in Active : UndoParcelaFunding(f)
  PROVE  GoodExpenses' /\ GoodTables'
<1>1. ASSUME NEW k \in Keys, NEW c \in Commands, ApplyParcelaFunding(k, c)
      PROVE  GoodExpenses' /\ GoodTables'
  <2> DEFINE F == FundingOf(c.tgt, c.idx)
             row == [key |-> k, src |-> c.src, tgt |-> c.tgt, idx |-> c.idx, amount |-> c.amount,
                     planned |-> expense[c.tgt].price, gen |-> (CHOOSE q \in Pending(c.tgt, c.idx) : TRUE).gen,
                     proof |-> SourceProof(c.src), root |-> TargetProof(c.tgt), reversed |-> FALSE]
             rest == Remaining(c.tgt, c.idx) - c.amount
  <2>1. /\ TargetOccurrence(c.tgt, c.idx) /\ c.amount <= Remaining(c.tgt, c.idx)
        /\ funding' = funding \cup {row} /\ UNCHANGED <<legacy, share>>
        /\ ProjectTarget(c.tgt, c.idx, rest, ProjectionsOf(F \cup {row}))
    BY <1>1 DEF ApplyParcelaFunding, Context, Affordable
  <2>2. /\ row.key = k /\ row.src = c.src /\ row.tgt = c.tgt /\ row.amount = c.amount
        /\ c.tgt \in Expenses /\ c.amount \in Nat \ {0}
    BY SettlementAssumption, AmountAssumption DEF SettlementAssumption, AmountAssumption
  <2>3. c.idx \in Indexes(expense[c.tgt]) /\ Pending(c.tgt, c.idx) # {}
    BY <2>1, FS_EmptySet DEF TargetOccurrence
  <2> HIDE DEF row
  <2>4. rest \in Nat
    BY <2>1, <2>2, FundingAmounts DEF Remaining, GoodExpenses, GoodRow
  <2>5. IsFiniteSet(F \cup {row}) /\ \A f \in F \cup {row} : f.key \in Keys /\ f.amount \in Nat
    <3>0. IsFiniteSet(F)
      BY FundingAmounts
    <3>1. \A f \in F : f \in funding
      BY DEF FundingOf, Active
    <3>2. IsFiniteSet(F \cup {row})
      BY <3>0, FS_AddElement
    <3>3. \A f \in F : f.key \in Keys /\ f.amount \in Nat
      BY <3>1, FundingAmounts DEF KeysOnce
    <3> QED BY <2>2, <3>2, <3>3
  <2> HIDE DEF rest, F
  <2>6. GoodCash(ProjectionsOf(F \cup {row}))
    BY <2>5, GoodProjections
  <2>7. GoodExpenses'
    BY <2>1, <2>2, <2>3, <2>4, <2>6, GoodProject
  <2>8. IsFiniteSet(funding')
    BY <2>1, FS_AddElement DEF GoodTables
  <2> QED BY <2>1, <2>2, <2>7, <2>8 DEF GoodTables, GoodPlan
<1>2. ASSUME NEW f \in Active, UndoParcelaFunding(f)
      PROVE  GoodExpenses' /\ GoodTables'
  <2> DEFINE F == FundingOf(f.tgt, f.idx) \ {f}
             g == [f EXCEPT !.reversed = TRUE]
             rest == Remaining(f.tgt, f.idx) + f.amount
  <2>1. /\ TargetOccurrence(f.tgt, f.idx)
        /\ funding' = (funding \ {f}) \cup {g} /\ UNCHANGED <<legacy, share>>
        /\ ProjectTarget(f.tgt, f.idx, rest, ProjectionsOf(F))
    BY <1>2 DEF UndoParcelaFunding, Context
  <2>2. f \in funding /\ f.tgt \in Expenses /\ f.amount \in Nat
    BY FundingAmounts, SettlementAssumption DEF SettlementAssumption, GoodTables, Active
  <2>3. f.idx \in Indexes(expense[f.tgt]) /\ Pending(f.tgt, f.idx) # {}
    <3>1. f.idx \in Indexes(expense[f.tgt]) /\ Cardinality(Pending(f.tgt, f.idx)) = 1
      BY <2>1 DEF TargetOccurrence
    <3> QED BY <3>1, FS_EmptySet
  <2>4. rest \in Nat
    BY <2>1, <2>2, FundingAmounts DEF Remaining, TargetOccurrence, GoodExpenses, GoodRow
  <2>5. IsFiniteSet(F) /\ \A h \in F : h.key \in Keys /\ h.amount \in Nat
    BY FundingAmounts, FS_Subset DEF FundingOf, Active, KeysOnce
  <2>6. g.src = f.src /\ g.tgt = f.tgt /\ g.amount = f.amount
    BY <2>2 DEF KeysOnce, IsFunding, FundingFields
  <2> HIDE DEF rest, F, g
  <2>7. GoodCash(ProjectionsOf(F))
    BY <2>5, GoodProjections
  <2>8. GoodExpenses'
    BY <2>1, <2>2, <2>3, <2>4, <2>7, GoodProject
  <2>9. IsFiniteSet(funding')
    BY <2>1, FS_AddElement, FS_Subset DEF GoodTables
  <2>10. \A h \in funding' : \E c \in Commands : h.src = c.src /\ h.tgt = c.tgt /\ h.amount = c.amount
    BY <2>1, <2>2, <2>6 DEF GoodTables
  <2> QED BY <2>1, <2>8, <2>9, <2>10 DEF GoodTables, GoodPlan
<1> QED BY <1>1, <1>2

LEMMA GoodSettle ==
  ASSUME GoodExpenses, GoodTables, NEW c \in Settles, SettleTargetParcela(c.src, c.tgt, c.idx, c.real)
  PROVE  GoodExpenses' /\ GoodTables'
<1> DEFINE old == SettlementOf(c.tgt, c.idx)
           ousted == {r.src : r \in old} \ {c.src}
           paid == expense[c.tgt].paid \cup {c.idx}
           target == [expense[c.tgt] EXCEPT !.paid = paid]
           bound == [expense[c.src] EXCEPT !.link = c.tgt]
<1>1. c.src \in Expenses /\ c.tgt \in Expenses /\ c.real \in Nat
  BY SettlementAssumption, AmountAssumption DEF SettlementAssumption, AmountAssumption
<1>2. expense' = [e \in Expenses |-> IF e = c.tgt THEN target ELSE IF e = c.src THEN bound
                    ELSE IF e \in ousted THEN Gone(expense[e]) ELSE expense[e]]
  BY DEF SettleTargetParcela
<1>3. cash' = [e \in Expenses |->
          IF e = c.tgt THEN TargetCash(c.tgt, target, legacy') ELSE IF e \in ousted THEN {} ELSE cash[e]]
  BY DEF SettleTargetParcela
<1>4. /\ c.idx \in Indexes(expense[c.tgt]) /\ UNCHANGED <<funding, share>>
      /\ \A r \in legacy' : r \in legacy \/ r.real = c.real
  BY NewSettlement
<1>5. \A r \in legacy' : r.real \in Nat
  BY <1>1, <1>4 DEF GoodTables
<1>6. GoodRow(target)
  <2>1. GoodRow(expense[c.tgt]) /\ paid \in SUBSET Indexes(expense[c.tgt])
    BY <1>1, <1>4 DEF GoodExpenses, GoodRow
  <2> HIDE DEF paid
  <2> QED BY <2>1, GoodPaid
<1>7. GoodRow(bound)
  BY <1>1, GoodLinked DEF GoodExpenses
<1> HIDE DEF target, bound, ousted
<1>8. GoodCash(TargetCash(c.tgt, target, legacy'))
  BY <1>1, <1>5, <1>6, GoodTarget DEF GoodExpenses
<1>9. \A e \in Expenses : GoodRow(expense'[e]) /\ GoodCash(cash'[e])
  BY <1>2, <1>3, <1>6, <1>7, <1>8, GoodDead, GoodEmpty DEF GoodExpenses
<1> QED BY <1>4, <1>5, <1>9, GoodNext DEF GoodTables, GoodPlan

LEMMA GoodUnsettle ==
  ASSUME GoodExpenses, GoodTables, NEW s \in Expenses, NEW U, UnsettleBySource(s, U)
  PROVE  GoodExpenses' /\ GoodTables'
<1> DEFINE targets == {t \in {r.tgt : r \in SettledBy(s)} : expense[t].alive}
<1>1. /\ UNCHANGED <<funding, share>> /\ legacy' \subseteq legacy
      /\ expense' = [e \in Expenses |->
          IF e = s THEN Gone(expense[s])
          ELSE IF e \in targets THEN Forget(Reopened(s, e), U) ELSE Forget(expense[e], U)]
      /\ cash' = [e \in Expenses |->
          IF e = s THEN {}
          ELSE IF e \in targets THEN TargetCash(e, Reopened(s, e), legacy') ELSE cash[e]]
  BY DEF UnsettleBySource
<1> HIDE DEF targets
<1>2. \A r \in legacy' : r.real \in Nat
  BY <1>1 DEF GoodTables
<1>3. ASSUME NEW e \in Expenses
      PROVE  GoodRow(expense'[e]) /\ GoodCash(cash'[e])
  <2>1. GoodRow(expense[e]) /\ GoodCash(cash[e]) /\ GoodRow(Reopened(s, e))
    BY GoodReopened DEF GoodExpenses
  <2>2. GoodCash(TargetCash(e, Reopened(s, e), legacy'))
    BY <1>2, <2>1, GoodTarget
  <2> QED BY <1>1, <2>1, <2>2, GoodDead, GoodForget, GoodEmpty
<1> QED BY <1>1, <1>2, <1>3, GoodNext DEF GoodTables, GoodPlan

LEMMA GoodRatear ==
  ASSUME Sheets, GoodExpenses, GoodTables, NEW c \in Splits, RatearSource(c.src, c.parts)
  PROVE  GoodExpenses' /\ GoodTables'
<1> DEFINE s == c.src
           parts == c.parts
           aligned(t) == Aligned(Restored(s, t), s, parts[t])
           row(t) == [src |-> s, tgt |-> t, part |-> parts[t], plan |-> Plan(Restored(s, t))]
<1>1. s \in Expenses /\ DOMAIN parts \subseteq Expenses /\ \A t \in DOMAIN parts : parts[t] \in Nat
  BY SettlementAssumption, AmountAssumption DEF SettlementAssumption, AmountAssumption
<1>2. PICK first \in DOMAIN parts :
          expense' = [e \in Expenses |->
            IF e \in DOMAIN parts THEN aligned(e)
            ELSE IF e = s THEN [expense[s] EXCEPT !.link = first] ELSE Restored(s, e)]
  BY DEF RatearSource
<1>3. /\ cash' = [e \in Expenses |->
          IF e \in DOMAIN parts THEN PlainCash(e, aligned(e))
          ELSE IF e \in TargetsOf(s) THEN TargetCash(e, Restored(s, e), legacy) ELSE cash[e]]
      /\ share' = (share \ SharedBy(s)) \cup {row(t) : t \in DOMAIN parts}
      /\ UNCHANGED <<funding, legacy>> /\ \A t \in DOMAIN parts : parts[t] > 0
  BY DEF RatearSource, Shareable
<1>4. \A e \in Expenses : GoodRow(Restored(s, e))
  BY GoodRestored
<1>5. \A e \in DOMAIN parts : GoodRow(aligned(e)) /\ GoodCash(PlainCash(e, aligned(e)))
  <2> TAKE e \in DOMAIN parts
  <2>1. GoodRow(Restored(s, e)) /\ GoodRow(expense[s]) /\ parts[e] \in Nat
    BY <1>1, <1>4 DEF GoodExpenses
  <2>2. GoodRow(aligned(e))
    BY <2>1, GoodAligned
  <2> HIDE DEF aligned
  <2> QED BY <2>2, GoodPlain
<1>6. \A e \in Expenses : GoodCash(TargetCash(e, Restored(s, e), legacy))
  BY <1>4, GoodTarget DEF GoodExpenses, GoodTables
<1>7. GoodRow([expense[s] EXCEPT !.link = first])
  BY <1>1, GoodLinked DEF GoodExpenses
<1>8. \A t \in DOMAIN parts : row(t).part \in Nat \ {0} /\ GoodPlan(row(t).plan)
  <2> TAKE t \in DOMAIN parts
  <2>1. GoodRow(Restored(s, t))
    BY <1>1, <1>4
  <2>2. GoodPlan(Plan(Restored(s, t)))
    BY <2>1 DEF GoodPlan, Plan, GoodRow, Indexes
  <2> QED BY <1>1, <1>3, <2>2
<1> HIDE DEF aligned, row
<1>9. \A e \in Expenses : GoodRow(expense'[e]) /\ GoodCash(cash'[e])
  BY <1>2, <1>3, <1>4, <1>5, <1>6, <1>7 DEF GoodExpenses
<1>10. \A r \in share' : r.part \in Nat \ {0} /\ GoodPlan(r.plan)
  BY <1>3, <1>8 DEF GoodTables
<1> QED BY <1>3, <1>9, <1>10, GoodNext DEF GoodTables, GoodPlan

LEMMA GoodUnratear ==
  ASSUME GoodExpenses, GoodTables, NEW s \in Expenses, NEW removed, NEW U, UnratearSource(s, removed, U)
  PROVE  GoodExpenses' /\ GoodTables'
<1>1. /\ UNCHANGED <<funding, legacy>> /\ share' \subseteq share
      /\ expense' = [e \in Expenses |->
           IF e = s /\ removed THEN Gone(expense[s]) ELSE Forget(Restored(s, e), U)]
      /\ cash' = [e \in Expenses |->
           IF e = s /\ removed THEN {}
           ELSE IF e \in TargetsOf(s) /\ expense[e].alive THEN TargetCash(e, Restored(s, e), legacy)
           ELSE cash[e]]
  BY DEF UnratearSource
<1>2. ASSUME NEW e \in Expenses
      PROVE  GoodRow(expense'[e]) /\ GoodCash(cash'[e])
  <2>1. GoodRow(expense[e]) /\ GoodCash(cash[e]) /\ GoodRow(Restored(s, e))
    BY GoodRestored DEF GoodExpenses
  <2>2. GoodCash(TargetCash(e, Restored(s, e), legacy))
    BY <2>1, GoodTarget DEF GoodTables
  <2> QED BY <1>1, <2>1, <2>2, GoodDead, GoodForget, GoodEmpty
<1> QED BY <1>1, <1>2, GoodNext DEF GoodTables, GoodPlan

\* What people write into the rows by hand.
LEMMA GoodEdit ==
  ASSUME Sheets, GoodExpenses, GoodTables,
         \/ \E s \in Expenses : Relinked(s)
         \/ \E e \in Expenses, v \in Prices : Update(e, v)
         \/ \E e \in Toggled, paid \in BOOLEAN : \E i : SetParcelaStatus(e, i, paid)
         \/ \E e \in Expenses : \E i : UpdateInstallmentDate(e, i)
         \/ \E e \in Expenses : RemovedPair(e)
  PROVE  GoodExpenses' /\ GoodTables'
<1>0. \A e \in Expenses : GoodRow(expense[e]) /\ GoodCash(cash[e])
  BY DEF GoodExpenses
<1> SUFFICES /\ UNCHANGED <<funding, legacy, share>>
             /\ \A e \in Expenses : GoodRow(expense'[e]) /\ GoodCash(cash'[e])
  BY GoodNext DEF GoodTables, GoodPlan
<1>1. CASE \E s \in Expenses : Relinked(s)
  <2>1. PICK s \in Expenses, t \in Expenses \cup {Nobody} :
          expense' = [expense EXCEPT ![s].link = t] /\ UNCHANGED <<cash, funding, legacy, share>>
    BY <1>1 DEF Relinked
  <2>2. /\ expense'[s] = [expense[s] EXCEPT !.link = t]
        /\ \A e \in Expenses : e # s => expense'[e] = expense[e]
    BY <2>1 DEF Sheets
  <2>3. GoodRow(expense'[s])
    BY <1>0, <2>2, GoodLinked
  <2> QED BY <1>0, <2>1, <2>2, <2>3
<1>2. CASE \E e \in Expenses, v \in Prices : Update(e, v)
  <2>1. PICK e \in Expenses, v \in Prices : Update(e, v)
    BY <1>2
  <2>2. /\ UNCHANGED <<funding, legacy, share>>
        /\ \A o \in Expenses :
             \/ expense'[o] = expense[o] /\ cash'[o] = cash[o]
             \/ expense'[o] = Priced(expense[o], v) /\ cash'[o] = PlainCash(o, Priced(expense[o], v))
    BY <2>1 DEF Update
  <2>3. \A o \in Expenses : GoodRow(Priced(expense[o], v)) /\ GoodCash(PlainCash(o, Priced(expense[o], v)))
    BY <1>0, GoodPriced, GoodPlain, AmountAssumption DEF AmountAssumption
  <2> QED BY <1>0, <2>2, <2>3
<1>3. CASE \E e \in Toggled, paid \in BOOLEAN : \E i : SetParcelaStatus(e, i, paid)
  <2>0. PICK e \in Toggled, paid \in BOOLEAN : \E i : SetParcelaStatus(e, i, paid)
    BY <1>3
  <2>1. PICK i \in Indexes(expense[e]) : SetParcelaStatus(e, i, paid)
    BY <2>0 DEF SetParcelaStatus
  <2> DEFINE P == IF paid THEN expense[e].paid \cup {i} ELSE expense[e].paid \ {i}
             x == [expense[e] EXCEPT !.paid = P]
  <2>2. e \in Expenses /\ P \in SUBSET Indexes(expense[e])
    BY <1>0, SettlementAssumption DEF SettlementAssumption, GoodRow
  <2>3. /\ UNCHANGED <<funding, legacy, share>> /\ expense' = [expense EXCEPT ![e] = x]
        /\ cash' = [cash EXCEPT ![e] = PlainCash(e, x)]
    BY <2>1 DEF SetParcelaStatus
  <2> HIDE DEF P
  <2>4. GoodRow(x)
    BY <1>0, <2>2, GoodPaid
  <2> HIDE DEF x
  <2>5. /\ expense'[e] = x /\ cash'[e] = PlainCash(e, x)
        /\ \A o \in Expenses : o # e => expense'[o] = expense[o] /\ cash'[o] = cash[o]
    BY <2>2, <2>3 DEF Sheets
  <2> QED BY <1>0, <2>3, <2>4, <2>5, GoodPlain
<1>4. CASE \E e \in Expenses : \E i : UpdateInstallmentDate(e, i)
  <2>1. PICK e \in Expenses : \E i : UpdateInstallmentDate(e, i)
    BY <1>4
  <2>2. /\ UNCHANGED <<expense, funding, legacy, share>>
        /\ \A o \in Expenses : cash'[o] \in {cash[o], TargetCash(o, expense[o], legacy), PlainCash(o, expense[o])}
    BY <2>1 DEF UpdateInstallmentDate
  <2>3. \A o \in Expenses : GoodCash(TargetCash(o, expense[o], legacy)) /\ GoodCash(PlainCash(o, expense[o]))
    BY <1>0, GoodTarget, GoodPlain DEF GoodTables
  <2> QED BY <1>0, <2>2, <2>3
<1>5. CASE \E e \in Expenses : RemovedPair(e)
  <2>1. PICK e \in Expenses : RemovePair(e)
    BY <1>5 DEF RemovedPair
  <2>2. /\ UNCHANGED <<funding, legacy, share>>
        /\ \A o \in Expenses : /\ \/ expense'[o] = [expense[o] EXCEPT !.alive = FALSE]
                                  \/ \E E : expense'[o] = Forget(expense[o], E)
                               /\ cash'[o] = cash[o] \/ cash'[o] = {}
    BY <2>1 DEF RemovePair
  <2>3. ASSUME NEW o \in Expenses
        PROVE  GoodRow(expense'[o]) /\ GoodCash(cash'[o])
    <3>1. GoodRow([expense[o] EXCEPT !.alive = FALSE])
      BY <1>0, GoodDead
    <3>2. \A E : GoodRow(Forget(expense[o], E))
      BY <1>0, GoodForget
    <3> QED BY <1>0, <2>2, <3>1, <3>2, GoodEmpty
  <2> QED BY <2>2, <2>3
<1> QED BY <1>1, <1>2, <1>3, <1>4, <1>5

LEMMA GoodStep ==
  ASSUME Sheets, KeysOnce, GoodExpenses, GoodTables, [Next]_vars
  PROVE  GoodExpenses' /\ GoodTables'
<1>1. CASE UNCHANGED vars
  BY <1>1, GoodNext DEF vars, GoodExpenses, GoodTables, GoodPlan
<1> QED BY <1>1, GoodFunding, GoodSettle, GoodUnsettle, GoodRatear, GoodUnratear, GoodEdit, Steps

-----------------------------------------------------------------------------
(* What pays is never what is paid for, of fundings as of settlements and  *)
(* rateios.                                                                *)

Payers == Debits \cup {c.src : c \in Commands}
Payees == Purchases \cup {c.tgt : c \in Commands}
Apart == Payers \cap Payees = {}

LEMMA ApartSeparate == Apart => Separate
BY DEF Apart, Payers, Payees, Separate

LEMMA Parties ==
  ASSUME GoodTables
  PROVE  /\ \A f \in funding : f.src \in Expenses /\ f.tgt \in Expenses /\ f.src \in Payers /\ f.tgt \in Payees
         /\ \A e : InFunding(e) => e \in Expenses /\ e # Nobody
         /\ \A f \in Active : f \in funding /\ InFunding(f.src) /\ InFunding(f.tgt)
BY SettlementAssumption DEF SettlementAssumption, GoodTables, Payers, Payees, InFunding, Active

\* The entries of one installment; what a funded one has beside its projections.
At(C, i) == {c \in C : c.idx = i}
Balance(g, i, v) ==
  [by |-> None, gen |-> g, idx |-> i, value |-> v, paid |-> FALSE, live |-> v # 0]

\* An active funding: its participants are as its proof says, its installment has the
\* projections of its fundings and the balance that remains, and nothing else.
SourceStands(f) ==
  /\ expense[f.src].alive /\ expense[f.src].link = Nobody /\ ~InRateio(f.src)
  /\ Debit(f.src) /\ SettledBy(f.src) = {} /\ f.proof = SourceProof(f.src)
TargetStands(f) ==
  /\ expense[f.tgt].alive /\ expense[f.tgt].link = Nobody /\ ~InRateio(f.tgt)
  /\ f.root = TargetProof(f.tgt) /\ f.planned = expense[f.tgt].price
  /\ f.idx \in Indexes(expense[f.tgt]) /\ SettlementOf(f.tgt, f.idx) = {}
Balanced(f) ==
  /\ Remaining(f.tgt, f.idx) \in Nat
  /\ f.idx \in expense[f.tgt].paid <=> Remaining(f.tgt, f.idx) = 0
  /\ At(cash[f.tgt], f.idx) =
       {Balance(f.gen, f.idx, Remaining(f.tgt, f.idx))} \cup ProjectionsOf(FundingOf(f.tgt, f.idx))
Secured(f) ==
  /\ Project[f.src] # Project[f.tgt] /\ Available(f.src) \in Nat
  /\ SourceStands(f) /\ TargetStands(f) /\ Balanced(f)

\* Only settlements link to what is funded; an entry is tagged or hidden only under a funding.
Mirrored ==
  \A e, o \in Expenses : InFunding(e) /\ expense[o].alive /\ expense[o].link = e =>
    \E r \in legacy : r.src = o /\ r.tgt = e
Untagged(C, e) == \A c \in C : FundingOf(e, c.idx) = {} => c.by = None /\ c.live
Secure ==
  /\ \A f \in Active : Secured(f)
  /\ Mirrored /\ \A e \in Expenses : Untagged(cash[e], e)

\* What carries a key is the projection of an active funding of its installment.
LEMMA Tagged ==
  ASSUME Secure, NEW e \in Expenses, NEW c \in cash[e], c.by # None
  PROVE  \E h \in FundingOf(e, c.idx) : c = Projection(h)
<1>1. PICK f \in FundingOf(e, c.idx) : TRUE
  BY DEF Secure, Untagged
<1>2. f \in Active /\ f.tgt = e /\ f.idx = c.idx
  BY <1>1 DEF FundingOf
<1>3. c \in {Balance(f.gen, f.idx, Remaining(e, c.idx))} \cup ProjectionsOf(FundingOf(e, c.idx))
  BY <1>2 DEF Secure, Secured, Balanced, At
<1>4. c # Balance(f.gen, f.idx, Remaining(e, c.idx))
  BY DEF Balance
<1> QED BY <1>3, <1>4 DEF ProjectionsOf, Projection

\* A regeneration keeps the entries of a funded installment and adds none to it.
LEMMA TargetAt ==
  ASSUME Secure, NEW e \in Expenses, NEW i, FundingOf(e, i) # {}, NEW x, NEW rows
  PROVE  At(TargetCash(e, x, rows), i) = At(cash[e], i)
<1>1. PICK f \in FundingOf(e, i) : TRUE
  OBVIOUS
<1>2. f \in Active /\ f.tgt = e /\ f.idx = i
  BY <1>1 DEF FundingOf
<1>3. At(cash[e], i) = {Balance(f.gen, i, Remaining(e, i))} \cup ProjectionsOf(FundingOf(e, i))
  BY <1>2 DEF Secure, Secured, Balanced
<1>4. ASSUME NEW c \in At(cash[e], i)
      PROVE  c \in Retained(e)
  <2>1. c \in cash[e]
    BY DEF At
  <2>2. CASE c = Balance(f.gen, i, Remaining(e, i))
    <3>1. c.by = None /\ c.gen = f.gen /\ c.idx = f.idx
      BY <1>2, <2>2 DEF Balance
    <3> QED BY <1>2, <2>1, <3>1 DEF Retained
  <2>3. CASE c \in ProjectionsOf(FundingOf(e, i))
    <3>1. PICK h \in FundingOf(e, i) : c.by = h.key
      BY <2>3 DEF ProjectionsOf
    <3> QED BY <2>1, <3>1 DEF Retained, FundingOf
  <2> QED BY <1>3, <2>2, <2>3
<1>5. ASSUME NEW c \in TargetCash(e, x, rows), c.idx = i
      PROVE  c \in cash[e]
  <2>1. c \in Retained(e) \/ FundingOf(e, c.idx) = {}
    BY DEF TargetCash, Entries
  <2> QED BY <1>5, <2>1 DEF Retained
<1>6. Retained(e) \subseteq TargetCash(e, x, rows)
  BY DEF TargetCash
<1> QED BY <1>4, <1>5, <1>6 DEF At

LEMMA TargetUntagged ==
  ASSUME Secure, NEW e \in Expenses, NEW x, NEW rows
  PROVE  Untagged(TargetCash(e, x, rows), e)
<1> SUFFICES ASSUME NEW c \in TargetCash(e, x, rows), FundingOf(e, c.idx) = {}
             PROVE  c.by = None /\ c.live
  BY DEF Untagged
<1>1. CASE c \in Retained(e)
  BY <1>1 DEF Retained, Secure, Untagged
<1>2. CASE c \notin Retained(e)
  BY <1>2 DEF TargetCash, Entries
<1> QED BY <1>1, <1>2

LEMMA PlainUntagged ==
  ASSUME NEW e, NEW x
  PROVE  Untagged(PlainCash(e, x), e)
BY DEF Untagged, PlainCash, Entries

-----------------------------------------------------------------------------
(* A step that leaves the fundings as they are.                            *)

Calm ==
  /\ UNCHANGED funding
  /\ \A f \in Active :
       /\ expense'[f.src] = expense[f.src] /\ cash'[f.src] = cash[f.src]
       /\ Kept(expense[f.tgt], expense'[f.tgt]) /\ expense'[f.tgt].price = expense[f.tgt].price
       /\ f.idx \in expense'[f.tgt].paid <=> f.idx \in expense[f.tgt].paid
       /\ At(cash'[f.tgt], f.idx) = At(cash[f.tgt], f.idx)
       /\ ~InRateio(f.src)' /\ ~InRateio(f.tgt)'
       /\ SettledBy(f.src)' = {} /\ SettlementOf(f.tgt, f.idx)' = {}
  /\ Mirrored' /\ \A e \in Expenses : Untagged(cash'[e], e)

LEMMA CalmSecure ==
  ASSUME Secure, Calm
  PROVE  Secure'
<1>1. /\ UNCHANGED funding /\ Active' = Active
      /\ \A e, i : FundingOf(e, i)' = FundingOf(e, i)
      /\ \A e : FundedBy(e)' = FundedBy(e)
  BY DEF Calm, Active, FundingOf, FundedBy
<1>2. ASSUME NEW f \in Active
      PROVE  Secured(f)'
  <2>1. /\ expense'[f.src] = expense[f.src] /\ cash'[f.src] = cash[f.src]
        /\ Kept(expense[f.tgt], expense'[f.tgt]) /\ expense'[f.tgt].price = expense[f.tgt].price
        /\ f.idx \in expense'[f.tgt].paid <=> f.idx \in expense[f.tgt].paid
        /\ At(cash'[f.tgt], f.idx) = At(cash[f.tgt], f.idx)
        /\ ~InRateio(f.src)' /\ ~InRateio(f.tgt)'
        /\ SettledBy(f.src)' = {} /\ SettlementOf(f.tgt, f.idx)' = {}
    BY DEF Calm
  <2>2. SourceStands(f) /\ TargetStands(f) /\ Balanced(f) /\ Project[f.src] # Project[f.tgt]
    BY DEF Secure, Secured
  <2>3. SourceStands(f)'
    BY <2>1, <2>2 DEF SourceStands, Debit, Live, SourceProof
  <2>4. TargetStands(f)'
    BY <2>1, <2>2 DEF TargetStands, TargetProof, Kept, Indexes
  <2>5. Remaining(f.tgt, f.idx)' = Remaining(f.tgt, f.idx) /\ Available(f.src)' = Available(f.src)
    BY <1>1, <2>1 DEF Remaining, Available, Amount
  <2>6. Balanced(f)'
    BY <1>1, <2>1, <2>2, <2>5 DEF Balanced, At, Balance, ProjectionsOf
  <2>7. Available(f.src)' \in Nat
    BY <2>5 DEF Secure, Secured
  <2> QED BY <2>2, <2>3, <2>4, <2>6, <2>7 DEF Secured
<1>3. \A e \in Expenses : Untagged(cash[e], e)'
  BY <1>1 DEF Calm, Untagged
<1> QED BY <1>1, <1>2, <1>3 DEF Secure, Calm

\* Such is a step that does not come near those who take part in one.
LEMMA AsideIsCalm ==
  ASSUME Secure, GoodTables, UNCHANGED <<funding, legacy>>,
         \A e \in Expenses : InFunding(e) => expense'[e] = expense[e] /\ cash'[e] = cash[e],
         \A e \in Expenses : ~InFunding(e) => Untagged(cash'[e], e),
         \A r \in share' : r \in share \/ (~InFunding(r.src) /\ ~InFunding(r.tgt)),
         \A o \in Expenses : expense'[o].alive => expense[o].alive,
         \A o \in Expenses : expense'[o].link = expense[o].link \/ ~InFunding(expense'[o].link)
  PROVE  Calm
<1>1. ASSUME NEW f \in Active
      PROVE  /\ f.src \in Expenses /\ f.tgt \in Expenses /\ InFunding(f.src) /\ InFunding(f.tgt)
             /\ ~InRateio(f.src)' /\ ~InRateio(f.tgt)'
             /\ SettledBy(f.src)' = {} /\ SettlementOf(f.tgt, f.idx)' = {}
  <2>1. /\ f.src \in Expenses /\ f.tgt \in Expenses /\ InFunding(f.src) /\ InFunding(f.tgt)
    BY Parties
  <2>2. /\ ~InRateio(f.src) /\ ~InRateio(f.tgt)
        /\ SettledBy(f.src) = {} /\ SettlementOf(f.tgt, f.idx) = {}
    BY DEF Secure, Secured, SourceStands, TargetStands
  <2>3. ~InRateio(f.src)' /\ ~InRateio(f.tgt)'
    BY <2>1, <2>2 DEF InRateio, Rated, SharedBy
  <2> QED BY <2>1, <2>2, <2>3 DEF SettledBy, SettlementOf
<1>2. \A e : InFunding(e)' = InFunding(e)
  BY DEF InFunding, Active
<1>3. Mirrored'
  BY <1>2 DEF Secure, Mirrored
<1>4. \A e \in Expenses : Untagged(cash'[e], e)
  BY DEF Secure
<1> QED BY <1>1, <1>3, <1>4 DEF Calm, Kept, At

\* Who takes part in a funding takes part in nothing else that shares or links.
LEMMA Bystander ==
  ASSUME Secure, GoodTables, NEW e, InFunding(e)
  PROVE  /\ e \in Expenses /\ expense[e].link = Nobody /\ ~InRateio(e) /\ InSettlement(e)
         /\ \A s : e \notin TargetsOf(s)
<1>1. e \in Expenses /\ expense[e].link = Nobody /\ ~InRateio(e)
  <2>1. PICK f \in Active : e \in {f.src, f.tgt}
    BY DEF InFunding
  <2>2. SourceStands(f) /\ TargetStands(f) /\ f.src \in Expenses /\ f.tgt \in Expenses
    BY Parties DEF Secure, Secured
  <2> QED BY <2>1, <2>2 DEF SourceStands, TargetStands
<1>2. \A s : e \notin TargetsOf(s)
  BY <1>1 DEF TargetsOf, SharedBy, InRateio, Rated
<1> QED BY <1>1, <1>2 DEF InSettlement

LEMMA NobodyPays == GoodTables => ~InFunding(Nobody)
BY Parties, SettlementAssumption DEF SettlementAssumption

LEMMA EmptyUntagged ==
  ASSUME NEW e
  PROVE  Untagged({}, e)
BY DEF Untagged

LEMMA RestoredLink ==
  ASSUME Sheets, NEW s, NEW e \in Expenses
  PROVE  Restored(s, e).link \in {expense[e].link, Nobody}
<1>1. IsRow(expense[e])  BY DEF Sheets
<1>2. CASE e \in TargetsOf(s) /\ expense[e].alive
  <2> DEFINE p == PlanOf(e)
             y == [expense[e] EXCEPT !.price = p.price, !.count = p.count, !.paid = p.paid]
  <2>1. Restored(s, e) = y  BY <1>2 DEF Restored
  <2> HIDE DEF p
  <2>2. y.link = expense[e].link
    BY <1>1 DEF IsRow, Fields
  <2> HIDE DEF y
  <2> QED BY <2>1, <2>2
<1>3. CASE ~(e \in TargetsOf(s) /\ expense[e].alive) /\ e = s /\ TargetsOf(s) # {}
  <2>1. Restored(s, e) = [expense[e] EXCEPT !.link = Nobody]  BY <1>3 DEF Restored
  <2> QED BY <1>1, <2>1, LinkedRow
<1>4. CASE ~(e \in TargetsOf(s) /\ expense[e].alive) /\ ~(e = s /\ TargetsOf(s) # {})
  BY <1>4 DEF Restored
<1> QED BY <1>2, <1>3, <1>4

LEMMA GoneLink ==
  ASSUME NEW x, IsRow(x)
  PROVE  Gone(x).alive = FALSE /\ Gone(x).link = Nobody
BY DEF IsRow, Fields, Gone

LEMMA DeadLink ==
  ASSUME NEW x, IsRow(x)
  PROVE  ~[x EXCEPT !.alive = FALSE].alive /\ [x EXCEPT !.alive = FALSE].link = x.link
BY DEF IsRow, Fields

LEMMA ForgetLink ==
  ASSUME NEW x, IsRow(x), NEW E
  PROVE  Forget(x, E).link \in {x.link, Nobody} /\ Forget(x, E).alive = x.alive
         /\ (x.link \notin E => Forget(x, E) = x)
BY LinkedRow DEF Forget

LEMMA CalmRatear ==
  ASSUME Secure, GoodTables, Sheets, NEW c \in Splits, RatearSource(c.src, c.parts)
  PROVE  Calm
<1> DEFINE s == c.src
           parts == c.parts
           aligned(t) == Aligned(Restored(s, t), s, parts[t])
<1>1. s \in Expenses /\ DOMAIN parts \subseteq Expenses
  BY SettlementAssumption DEF SettlementAssumption
<1>2. /\ \A e \in Expenses : expense'[e].alive = expense[e].alive
      /\ \A e \in Expenses : e \notin DOMAIN parts \cup TargetsOf(s) \cup {s} =>
              expense'[e] = expense[e] /\ cash'[e] = cash[e]
  BY <1>1, RatearEffects
<1>3. ~InFunding(s) /\ \A t \in DOMAIN parts : ~InFunding(t)
  BY DEF RatearSource, Shareable, GuardActiveFunding
<1>4. /\ UNCHANGED <<funding, legacy>>
      /\ \A r \in share' : r \in share \/ (r.src = s /\ r.tgt \in DOMAIN parts)
  BY SplitShares
<1>5. PICK first \in DOMAIN parts :
        expense' = [e \in Expenses |->
            IF e \in DOMAIN parts THEN aligned(e)
            ELSE IF e = s THEN [expense[s] EXCEPT !.link = first] ELSE Restored(s, e)]
  BY DEF RatearSource
<1>6. cash' = [e \in Expenses |->
          IF e \in DOMAIN parts THEN PlainCash(e, aligned(e))
          ELSE IF e \in TargetsOf(s) THEN TargetCash(e, Restored(s, e), legacy) ELSE cash[e]]
  BY DEF RatearSource
<1>7. \A e \in Expenses : aligned(e).link \in {expense[e].link, Nobody}
  <2> TAKE e \in Expenses
  <2>1. IsRow(Restored(s, e)) /\ Restored(s, e).link \in {expense[e].link, Nobody}
    BY RestoredRow, RestoredLink
  <2>2. aligned(e).link = Restored(s, e).link
    BY <2>1, AlignedRow
  <2> QED BY <2>1, <2>2
<1> HIDE DEF aligned
<1>8. \A o \in Expenses : expense'[o].link = expense[o].link \/ ~InFunding(expense'[o].link)
  <2> TAKE o \in Expenses
  <2>1. CASE o \in DOMAIN parts
    BY <1>5, <1>7, <2>1, NobodyPays
  <2>2. CASE o \notin DOMAIN parts /\ o = s
    <3>1. expense'[o] = [expense[s] EXCEPT !.link = first]  BY <1>5, <2>2
    <3> QED BY <1>1, <1>3, <3>1, LinkedRow DEF Sheets
  <2>3. CASE o \notin DOMAIN parts /\ o # s
    <3>1. expense'[o] = Restored(s, o)  BY <1>5, <2>3
    <3> QED BY <3>1, RestoredLink, NobodyPays
  <2> QED BY <2>1, <2>2, <2>3
<1>9. \A e \in Expenses : Untagged(cash'[e], e)
  BY <1>6, PlainUntagged, TargetUntagged DEF Secure
<1>10. \A e \in Expenses : InFunding(e) => expense'[e] = expense[e] /\ cash'[e] = cash[e]
  BY <1>2, <1>3, Bystander
<1>11. \A r \in share' : r \in share \/ (~InFunding(r.src) /\ ~InFunding(r.tgt))
  BY <1>3, <1>4
<1> QED BY <1>2, <1>4, <1>8, <1>9, <1>10, <1>11, AsideIsCalm

LEMMA CalmUnratear ==
  ASSUME Secure, GoodTables, Sheets, NEW s \in Expenses, NEW removed \in BOOLEAN, NEW U \in SUBSET {s},
         UnratearSource(s, removed, U)
  PROVE  Calm
<1>1. /\ UNCHANGED <<funding, legacy>> /\ SharedBy(s) # {} /\ share' = share \ SharedBy(s)
      /\ expense' = [e \in Expenses |->
           IF e = s /\ removed THEN Gone(expense[s]) ELSE Forget(Restored(s, e), U)]
      /\ cash' = [e \in Expenses |->
           IF e = s /\ removed THEN {}
           ELSE IF e \in TargetsOf(s) /\ expense[e].alive THEN TargetCash(e, Restored(s, e), legacy)
           ELSE cash[e]]
  BY DEF UnratearSource
<1>2. ~InFunding(s)
  BY <1>1, Bystander DEF InRateio
<1>3. \A e \in Expenses : IsRow(Restored(s, e)) /\ Restored(s, e).alive = expense[e].alive
                         /\ Restored(s, e).link \in {expense[e].link, Nobody}
  BY RestoredRow, RestoredLink
<1>4. IsRow(Gone(expense[s])) /\ Gone(expense[s]).alive = FALSE /\ Gone(expense[s]).link = Nobody
  BY GoneRow, GoneLink DEF Sheets
<1>5. ASSUME NEW o \in Expenses
      PROVE  /\ expense'[o].alive => expense[o].alive
             /\ expense'[o].link = expense[o].link \/ ~InFunding(expense'[o].link)
             /\ Untagged(cash'[o], o)
  <2>1. CASE o = s /\ removed
    <3>1. expense'[o] = Gone(expense[s]) /\ cash'[o] = {}  BY <1>1, <2>1
    <3> QED BY <1>4, <3>1, NobodyPays, EmptyUntagged
  <2>2. CASE ~(o = s /\ removed)
    <3>1. expense'[o] = Forget(Restored(s, o), U) /\ cash'[o] \in {cash[o], TargetCash(o, Restored(s, o), legacy)}
      BY <1>1, <2>2
    <3>2. /\ Forget(Restored(s, o), U).link \in {Restored(s, o).link, Nobody}
          /\ Forget(Restored(s, o), U).alive = Restored(s, o).alive
      BY <1>3, ForgetLink
    <3> QED BY <1>3, <3>1, <3>2, NobodyPays, TargetUntagged DEF Secure
  <2> QED BY <2>1, <2>2
<1>6. ASSUME NEW e \in Expenses, InFunding(e)
      PROVE  expense'[e] = expense[e] /\ cash'[e] = cash[e]
  <2>1. e # s /\ e \notin TargetsOf(s) /\ expense[e].link \notin U
    BY <1>2, <1>6, Bystander, SettlementAssumption DEF SettlementAssumption
  <2>2. expense'[e] = Forget(Restored(s, e), U) /\ cash'[e] = cash[e] /\ Restored(s, e) = expense[e]
    BY <1>1, <2>1, RestoredRow
  <2>3. IsRow(expense[e])  BY DEF Sheets
  <2> QED BY <2>1, <2>2, <2>3, ForgetLink
<1> QED BY <1>1, <1>5, <1>6, AsideIsCalm

LEMMA CalmRelinked ==
  ASSUME Secure, GoodTables, Sheets, NEW s \in Expenses, Relinked(s)
  PROVE  Calm
<1>1. PICK t : /\ t = Nobody \/ (t \in Expenses /\ ~InFunding(t))
               /\ expense' = [expense EXCEPT ![s].link = t]
  BY DEF Relinked
<1>2. ~InFunding(s) /\ UNCHANGED <<cash, funding, legacy, share>>
  BY DEF Relinked
<1>3. /\ expense'[s] = [expense[s] EXCEPT !.link = t]
      /\ \A e \in Expenses : e # s => expense'[e] = expense[e]
  BY <1>1 DEF Sheets
<1>4. expense'[s].alive = expense[s].alive /\ expense'[s].link = t
  <2>1. IsRow(expense[s])
    BY DEF Sheets
  <2> QED BY <1>3, <2>1, LinkedRow
<1>5. ~InFunding(t)
  BY <1>1, NobodyPays
<1>6. \A e \in Expenses : Untagged(cash'[e], e)
  BY <1>2 DEF Secure
<1>7. /\ \A e \in Expenses : InFunding(e) => expense'[e] = expense[e] /\ cash'[e] = cash[e]
      /\ \A o \in Expenses : expense'[o].alive => expense[o].alive
      /\ \A o \in Expenses : expense'[o].link = expense[o].link \/ ~InFunding(expense'[o].link)
  BY <1>2, <1>3, <1>4, <1>5
<1> QED BY <1>2, <1>6, <1>7, AsideIsCalm

LEMMA CalmUpdate ==
  ASSUME Secure, GoodTables, Sheets, NEW e \in Expenses, NEW v, Update(e, v)
  PROVE  Calm
<1>1. /\ UNCHANGED <<funding, legacy, share>> /\ \A o \in Expenses : Same(o)
      /\ \A o \in Expenses : InSettlement(o) => expense'[o] = expense[o] /\ cash'[o] = cash[o]
  BY UpdateEffects
<1>2. \A o \in Expenses : cash'[o] \in {cash[o], PlainCash(o, Priced(expense[o], v))}
  BY DEF Update
<1>3. \A o \in Expenses : Untagged(cash'[o], o)
  BY <1>2, PlainUntagged DEF Secure
<1>4. \A o \in Expenses : InFunding(o) => expense'[o] = expense[o] /\ cash'[o] = cash[o]
  BY <1>1 DEF InSettlement
<1>5. \A o \in Expenses : expense'[o].alive = expense[o].alive /\ expense'[o].link = expense[o].link
  BY <1>1 DEF Same, Kept
<1> QED BY <1>1, <1>3, <1>4, <1>5, AsideIsCalm

LEMMA CalmToggle ==
  ASSUME Secure, GoodTables, Sheets, NEW e \in Expenses, NEW i, NEW paid, SetParcelaStatus(e, i, paid)
  PROVE  Calm
<1>1. /\ UNCHANGED <<funding, legacy, share>> /\ \A o \in Expenses : Same(o)
      /\ \A o \in Expenses : o # e => expense'[o] = expense[o] /\ cash'[o] = cash[o]
  BY ToggleEffects
<1>2. ~InFunding(e) /\ \E x : cash' = [cash EXCEPT ![e] = PlainCash(e, x)]
  BY DEF SetParcelaStatus, GuardActiveFunding
<1>3. \A o \in Expenses : cash'[o] = cash[o] \/ \E x : cash'[o] = PlainCash(o, x)
  BY <1>2 DEF Sheets
<1>4. \A o \in Expenses : Untagged(cash'[o], o)
  BY <1>3, PlainUntagged DEF Secure
<1>5. \A o \in Expenses : expense'[o].alive = expense[o].alive /\ expense'[o].link = expense[o].link
  BY <1>1 DEF Same, Kept
<1> QED BY <1>1, <1>2, <1>4, <1>5, AsideIsCalm

LEMMA CalmMove ==
  ASSUME Secure, GoodTables, Sheets, NEW e \in Expenses, NEW i, UpdateInstallmentDate(e, i)
  PROVE  Calm
<1> DEFINE target == \E r \in legacy : r.tgt = e
           pair == IF target \/ SharedBy(e) # {} THEN {} ELSE {o \in LinkedTo(e) : ~InSettlement(o)}
<1>1. /\ UNCHANGED <<expense, funding, legacy, share>> /\ ~InFunding(e)
      /\ cash' = [o \in Expenses |->
          IF o = e /\ target THEN TargetCash(e, expense[e], legacy)
          ELSE IF o \in {e} \cup pair \cup TargetsOf(e) THEN PlainCash(o, expense[o]) ELSE cash[o]]
  BY DEF UpdateInstallmentDate, GuardActiveFunding
<1>2. \A o \in Expenses : InFunding(o) => o \notin pair /\ o # e /\ o \notin TargetsOf(e)
  BY <1>1, Bystander
<1> HIDE DEF pair
<1>3. \A o \in Expenses : InFunding(o) => cash'[o] = cash[o]
  BY <1>1, <1>2
<1>4. \A o \in Expenses : cash'[o] \in {cash[o], TargetCash(o, expense[o], legacy), PlainCash(o, expense[o])}
  BY <1>1
<1>5. \A o \in Expenses : Untagged(cash'[o], o)
  BY <1>4, PlainUntagged, TargetUntagged DEF Secure
<1> QED BY <1>1, <1>3, <1>5, AsideIsCalm

LEMMA CalmRemoved ==
  ASSUME Secure, GoodTables, Sheets, NEW e \in Expenses, RemovedPair(e)
  PROVE  Calm
<1> DEFINE gone == {e} \cup {o \in LinkedTo(e) : ~InSettlement(e) /\ ~InSettlement(o) /\ ~InRateio(o)}
<1>1. /\ UNCHANGED <<funding, legacy, share>> /\ ~InFunding(e)
      /\ expense' = [o \in Expenses |->
          IF o \in gone THEN [expense[o] EXCEPT !.alive = FALSE] ELSE Forget(expense[o], gone)]
      /\ cash' = [o \in Expenses |-> IF o \in gone THEN {} ELSE cash[o]]
  BY DEF RemovedPair, RemovePair
<1>2. gone \subseteq Expenses /\ \A o \in gone : ~InFunding(o)
  BY <1>1 DEF LinkedTo, InSettlement
<1> HIDE DEF gone
<1>3. ASSUME NEW o \in Expenses
      PROVE  /\ expense'[o].alive => expense[o].alive
             /\ expense'[o].link = expense[o].link \/ ~InFunding(expense'[o].link)
             /\ Untagged(cash'[o], o)
  <2>1. IsRow(expense[o]) /\ Untagged(cash[o], o)
    BY DEF Sheets, Secure
  <2>2. CASE o \in gone
    <3>1. expense'[o] = [expense[o] EXCEPT !.alive = FALSE] /\ cash'[o] = {}
      BY <1>1, <2>2
    <3> QED BY <2>1, <3>1, DeadLink, EmptyUntagged
  <2>3. CASE o \notin gone
    <3>1. expense'[o] = Forget(expense[o], gone) /\ cash'[o] = cash[o]
      BY <1>1, <2>3
    <3> QED BY <2>1, <3>1, ForgetLink, NobodyPays
  <2> QED BY <2>2, <2>3
<1>4. ASSUME NEW o \in Expenses, InFunding(o)
      PROVE  expense'[o] = expense[o] /\ cash'[o] = cash[o]
  <2>1. o \notin gone /\ expense[o].link \notin gone
    BY <1>2, <1>4, Bystander, SettlementAssumption DEF SettlementAssumption
  <2>2. expense'[o] = Forget(expense[o], gone) /\ cash'[o] = cash[o]
    BY <1>1, <2>1
  <2>3. IsRow(expense[o])  BY DEF Sheets
  <2> QED BY <2>1, <2>2, <2>3, ForgetLink
<1> QED BY <1>1, <1>3, <1>4, AsideIsCalm

LEMMA CalmSettle ==
  ASSUME Apart, Secure, GoodTables, Sheets, Origins, GoodExpenses,
         NEW c \in Settles, SettleTargetParcela(c.src, c.tgt, c.idx, c.real)
  PROVE  Calm
<1> DEFINE s == c.src
           t == c.tgt
           i == c.idx
           old == SettlementOf(t, i)
           ousted == {r.src : r \in old} \ {s}
           target == [expense[t] EXCEPT !.paid = expense[t].paid \cup {i}]
           bound == [expense[s] EXCEPT !.link = t]
<1>1. s \in Expenses /\ t \in Expenses /\ s \in Payers /\ t \in Payees
  BY SettlementAssumption DEF SettlementAssumption, Payers, Payees, Debits, Purchases
<1>2. /\ UNCHANGED <<funding, share>> /\ FundingOf(t, i) = {} /\ ~InFunding(s) /\ s # t
      /\ expense[t].alive /\ expense[s].alive
  BY DEF SettleTargetParcela, GuardActiveFunding
<1>3. PICK row : /\ row.src = s /\ row.tgt = t /\ row.idx = i
                 /\ legacy' = (legacy \ old) \cup {row}
  BY NewSettlement
<1>4. /\ expense' = [e \in Expenses |-> IF e = t THEN target ELSE IF e = s THEN bound
                    ELSE IF e \in ousted THEN Gone(expense[e]) ELSE expense[e]]
      /\ cash' = [e \in Expenses |->
          IF e = t THEN TargetCash(t, target, legacy') ELSE IF e \in ousted THEN {} ELSE cash[e]]
  BY DEF SettleTargetParcela
<1>5. /\ \A e \in Payees : e \notin ousted
      /\ \A f \in Active : f.src \notin ousted
  BY Participants DEF SettlementOf, SettledBy, Apart, Payers, Payees, Secure, Secured, SourceStands
<1>6. /\ target.alive = expense[t].alive /\ target.link = expense[t].link /\ target.count = expense[t].count
      /\ target.price = expense[t].price /\ target.paid = expense[t].paid \cup {i}
      /\ bound.link = t
  BY <1>1 DEF Sheets, IsRow, Fields
<1> HIDE DEF target, bound
<1>7. ASSUME NEW f \in Active
      PROVE  /\ expense'[f.src] = expense[f.src] /\ cash'[f.src] = cash[f.src]
             /\ Kept(expense[f.tgt], expense'[f.tgt]) /\ expense'[f.tgt].price = expense[f.tgt].price
             /\ f.idx \in expense'[f.tgt].paid <=> f.idx \in expense[f.tgt].paid
             /\ At(cash'[f.tgt], f.idx) = At(cash[f.tgt], f.idx)
             /\ ~InRateio(f.src)' /\ ~InRateio(f.tgt)'
             /\ SettledBy(f.src)' = {} /\ SettlementOf(f.tgt, f.idx)' = {}
  <2>1. /\ f.src \in Expenses /\ f.tgt \in Expenses /\ f.src # s /\ f.src # t /\ f.tgt # s /\ f.tgt \in Payees
        /\ f.src \notin ousted /\ f.tgt \notin ousted
    BY <1>1, <1>2, <1>5, Parties DEF Apart
  <2>2. f.tgt = t => f.idx # i
    BY <1>2 DEF FundingOf
  <2>3. expense'[f.src] = expense[f.src] /\ cash'[f.src] = cash[f.src]
    BY <1>4, <2>1
  <2>4. SourceStands(f) /\ TargetStands(f)
    BY DEF Secure, Secured
  <2>5. ~InRateio(f.src)' /\ ~InRateio(f.tgt)'
    BY <1>2, <2>4 DEF InRateio, Rated, SharedBy, SourceStands, TargetStands
  <2>6. SettledBy(f.src)' = {} /\ SettlementOf(f.tgt, f.idx)' = {}
    <3> HIDE DEF old
    <3> QED BY <1>3, <2>1, <2>2, <2>4 DEF SettledBy, SettlementOf, SourceStands, TargetStands
  <2>7. CASE f.tgt = t
    <3>1. expense'[t] = target /\ cash'[t] = TargetCash(t, target, legacy')
      BY <1>1, <1>4
    <3>2. At(cash'[t], f.idx) = At(cash[t], f.idx)
      <4>1. FundingOf(t, f.idx) # {}
        BY <2>7 DEF FundingOf
      <4> QED BY <1>1, <3>1, <4>1, TargetAt
    <3> QED BY <1>6, <2>2, <2>3, <2>5, <2>6, <2>7, <3>1, <3>2 DEF Kept
  <2>8. CASE f.tgt # t
    <3>1. expense'[f.tgt] = expense[f.tgt] /\ cash'[f.tgt] = cash[f.tgt]
      BY <1>4, <2>1, <2>8
    <3> QED BY <2>3, <2>5, <2>6, <3>1 DEF Kept
  <2> QED BY <2>7, <2>8
<1>8. Mirrored'
  <2>1. \A e : InFunding(e)' = InFunding(e)
    BY <1>2 DEF InFunding, Active
  <2> SUFFICES ASSUME NEW e \in Expenses, NEW o \in Expenses, InFunding(e), expense'[o].alive, expense'[o].link = e
               PROVE  \E r \in legacy' : r.src = o /\ r.tgt = e
    BY <2>1 DEF Mirrored
  <2>2. CASE o = s
    <3>1. expense'[o] = bound
      BY <1>1, <1>2, <1>4, <2>2
    <3> QED BY <1>3, <1>6, <2>2, <3>1
  <2>3. CASE o = t
    <3>1. expense'[o] = target
      BY <1>1, <1>4, <2>3
    <3>2. \E r \in legacy : r.src = t /\ r.tgt = e
      BY <1>1, <1>6, <2>3, <3>1 DEF Secure, Mirrored
    <3> QED BY <1>1, <3>2, Participants DEF Apart, Payers
  <2>4. CASE o \notin {s, t} /\ o \in ousted
    <3>1. expense'[o] = Gone(expense[o])
      BY <1>4, <2>4
    <3> QED BY <3>1, GoneLink DEF Sheets
  <2>5. CASE o \notin {s, t} /\ o \notin ousted
    <3>1. expense'[o] = expense[o]
      BY <1>4, <2>5
    <3>2. PICK r \in legacy : r.src = o /\ r.tgt = e
      BY <3>1 DEF Secure, Mirrored
    <3>3. r \notin old
      BY <2>5, <3>2
    <3> QED BY <1>3, <3>2, <3>3
  <2> QED BY <2>2, <2>3, <2>4, <2>5
<1>9. \A e \in Expenses : Untagged(cash'[e], e)
  BY <1>4, TargetUntagged, EmptyUntagged DEF Secure
<1> QED BY <1>2, <1>7, <1>8, <1>9 DEF Calm

LEMMA CalmUnsettle ==
  ASSUME Apart, Secure, GoodTables, Sheets, Origins, NEW s \in Expenses, NEW U \in SUBSET {s}, UnsettleBySource(s, U)
  PROVE  Calm
<1> DEFINE targets == {t \in {r.tgt : r \in SettledBy(s)} : expense[t].alive}
           reopened(t) == {r.idx : r \in {q \in SettledBy(s) : q.tgt = t /\ ~q.wasPaid}}
<1>1. /\ UNCHANGED <<funding, share>> /\ legacy' = legacy \ SettledBy(s) /\ ~InFunding(s)
      /\ expense' = [e \in Expenses |->
          IF e = s THEN Gone(expense[s])
          ELSE IF e \in targets THEN Forget(Reopened(s, e), U) ELSE Forget(expense[e], U)]
      /\ cash' = [e \in Expenses |->
          IF e = s THEN {}
          ELSE IF e \in targets THEN TargetCash(e, Reopened(s, e), legacy') ELSE cash[e]]
  BY DEF UnsettleBySource, GuardActiveFunding
<1>2. \A e \in targets : e \in Payees
  BY Participants DEF SettledBy, Payees
<1> HIDE DEF targets
<1>3. ASSUME NEW e \in Expenses
      PROVE  /\ IsRow(Reopened(s, e)) /\ Kept(expense[e], Reopened(s, e))
             /\ Reopened(s, e).price = expense[e].price
             /\ Reopened(s, e).paid = expense[e].paid \ reopened(e)
  <2>1. Reopened(s, e) = [expense[e] EXCEPT !.paid = expense[e].paid \ reopened(e)]
    BY DEF Reopened
  <2> HIDE DEF reopened
  <2> QED BY <2>1 DEF Sheets, IsRow, Fields, Kept
<1>4. ASSUME NEW f \in Active
      PROVE  /\ expense'[f.src] = expense[f.src] /\ cash'[f.src] = cash[f.src]
             /\ Kept(expense[f.tgt], expense'[f.tgt]) /\ expense'[f.tgt].price = expense[f.tgt].price
             /\ f.idx \in expense'[f.tgt].paid <=> f.idx \in expense[f.tgt].paid
             /\ At(cash'[f.tgt], f.idx) = At(cash[f.tgt], f.idx)
             /\ ~InRateio(f.src)' /\ ~InRateio(f.tgt)'
             /\ SettledBy(f.src)' = {} /\ SettlementOf(f.tgt, f.idx)' = {}
  <2>1. SourceStands(f) /\ TargetStands(f)
    BY DEF Secure, Secured
  <2>2. /\ f.src \in Expenses /\ f.tgt \in Expenses /\ f.src # s /\ f.tgt # s /\ f.src \notin targets
        /\ expense[f.src].link \notin U /\ expense[f.tgt].link \notin U
    BY <1>1, <1>2, <2>1, Parties, SettlementAssumption
      DEF SettlementAssumption, Apart, SourceStands, TargetStands
  <2>3. expense'[f.src] = expense[f.src] /\ cash'[f.src] = cash[f.src]
    <3>1. expense'[f.src] = Forget(expense[f.src], U) /\ cash'[f.src] = cash[f.src]
      BY <1>1, <2>2
    <3> QED BY <2>2, <3>1, ForgetLink DEF Sheets
  <2>4. ~InRateio(f.src)' /\ ~InRateio(f.tgt)'
    BY <1>1, <2>1 DEF InRateio, Rated, SharedBy, SourceStands, TargetStands
  <2>5. SettledBy(f.src)' = {} /\ SettlementOf(f.tgt, f.idx)' = {}
    BY <1>1, <2>1 DEF SettledBy, SettlementOf, SourceStands, TargetStands
  <2>6. CASE f.tgt \in targets
    <3>1. expense'[f.tgt] = Forget(Reopened(s, f.tgt), U) /\ cash'[f.tgt] = TargetCash(f.tgt, Reopened(s, f.tgt), legacy')
      BY <1>1, <2>2, <2>6
    <3>2. Reopened(s, f.tgt).link \notin U
      BY <1>3, <2>2 DEF Kept
    <3>3. expense'[f.tgt] = Reopened(s, f.tgt)
      BY <1>3, <2>2, <3>1, <3>2, ForgetLink
    <3>4. f.idx \notin reopened(f.tgt)
      BY <2>1 DEF TargetStands, SettlementOf, SettledBy
    <3>5. FundingOf(f.tgt, f.idx) # {}
      BY DEF FundingOf
    <3>6. At(cash'[f.tgt], f.idx) = At(cash[f.tgt], f.idx)
      BY <2>2, <3>1, <3>5, TargetAt
    <3>7. /\ Kept(expense[f.tgt], expense'[f.tgt]) /\ expense'[f.tgt].price = expense[f.tgt].price
          /\ f.idx \in expense'[f.tgt].paid <=> f.idx \in expense[f.tgt].paid
      <4> HIDE DEF reopened
      <4> QED BY <1>3, <2>2, <3>3, <3>4
    <3> QED BY <2>3, <2>4, <2>5, <3>6, <3>7
  <2>7. CASE f.tgt \notin targets
    <3>1. expense'[f.tgt] = Forget(expense[f.tgt], U) /\ cash'[f.tgt] = cash[f.tgt]
      BY <1>1, <2>2, <2>7
    <3>2. expense'[f.tgt] = expense[f.tgt]
      BY <2>2, <3>1, ForgetLink DEF Sheets
    <3> QED BY <2>3, <2>4, <2>5, <3>1, <3>2 DEF Kept
  <2> QED BY <2>6, <2>7
<1>5. Mirrored'
  <2>1. \A e : InFunding(e)' = InFunding(e)
    BY <1>1 DEF InFunding, Active
  <2> SUFFICES ASSUME NEW e \in Expenses, NEW o \in Expenses, InFunding(e), expense'[o].alive, expense'[o].link = e
               PROVE  \E r \in legacy' : r.src = o /\ r.tgt = e
    BY <2>1 DEF Mirrored
  <2>2. o # s
    <3>1. expense'[s] = Gone(expense[s])
      BY <1>1
    <3> QED BY <3>1, GoneLink DEF Sheets
  <2>3. /\ expense'[o].link \in {expense[o].link, Nobody} /\ expense'[o].alive = expense[o].alive
    <3>1. IsRow(expense[o]) /\ IsRow(Reopened(s, o)) /\ Kept(expense[o], Reopened(s, o))
      BY <1>3 DEF Sheets
    <3>2. expense'[o] \in {Forget(expense[o], U), Forget(Reopened(s, o), U)}
      BY <1>1, <2>2
    <3>3. /\ Forget(expense[o], U).link \in {expense[o].link, Nobody}
          /\ Forget(Reopened(s, o), U).link \in {Reopened(s, o).link, Nobody}
          /\ Forget(expense[o], U).alive = expense[o].alive
          /\ Forget(Reopened(s, o), U).alive = Reopened(s, o).alive
      BY <3>1, ForgetLink
    <3> QED BY <3>1, <3>2, <3>3 DEF Kept
  <2>4. expense[o].alive /\ expense[o].link = e
    BY <2>3, NobodyPays
  <2>5. PICK r \in legacy : r.src = o /\ r.tgt = e
    BY <2>4 DEF Secure, Mirrored
  <2> QED BY <1>1, <2>2, <2>5 DEF SettledBy
<1>6. \A e \in Expenses : Untagged(cash'[e], e)
  <2>1. \A e \in Expenses : cash'[e] \in {{}, TargetCash(e, Reopened(s, e), legacy'), cash[e]}
    BY <1>1
  <2> QED BY <2>1, TargetUntagged, EmptyUntagged DEF Secure
<1> QED BY <1>1, <1>4, <1>5, <1>6 DEF Calm

-----------------------------------------------------------------------------
(* The two operations of a funding.                                        *)

LEMMA AmountSplit ==
  ASSUME NEW F, IsFiniteSet(F), \A f \in F : f.amount \in Nat, NEW g \in F
  PROVE  Amount(F) = g.amount + Amount(F \ {g})
<1> DEFINE G == F \ {g}
           a == [f \in F |-> f.amount]
           b == [f \in G |-> f.amount]
<1>1. IsFiniteSet(G)
  BY FS_Subset
<1>2. (\A f \in F : a[f] \in Nat) /\ (\A f \in G : b[f] \in Nat) /\ a[g] = g.amount
  OBVIOUS
<1>3. Units(a, G) = Units(b, G)
  BY DEF Units
<1>4. Amount(F) = SumFunctionOnSet(a, F) /\ Amount(G) = SumFunctionOnSet(b, G)
  BY DEF Amount, SumFunction
<1> HIDE DEF a, b, G
<1>5. Amount(F) = Cardinality(Units(a, F)) /\ Amount(G) = Cardinality(Units(b, G))
  BY <1>1, <1>2, <1>4, SumIsUnits
<1>6. Cardinality(Units(a, F)) = a[g] + Cardinality(Units(a, G))
  BY <1>2, UnitsAdd DEF G
<1> QED BY <1>2, <1>3, <1>5, <1>6 DEF G

\* The balance and the projections are all that a funded installment has.
LEMMA FundedOccurrence ==
  ASSUME Secure, KeysOnce, NEW t, NEW i, FundingOf(t, i) # {}
  PROVE  \E g : /\ \A f \in FundingOf(t, i) : f.gen = g
                /\ Pending(t, i) = {Balance(g, i, Remaining(t, i))}
                /\ At(cash[t], i) = {Balance(g, i, Remaining(t, i))} \cup ProjectionsOf(FundingOf(t, i))
<1> DEFINE left == Remaining(t, i)
<1>1. PICK h \in FundingOf(t, i) : TRUE
  OBVIOUS
<1>2. ASSUME NEW f \in FundingOf(t, i)
      PROVE  At(cash[t], i) = {Balance(f.gen, i, left)} \cup ProjectionsOf(FundingOf(t, i))
  <2>1. f \in Active /\ f.tgt = t /\ f.idx = i
    BY DEF FundingOf
  <2> QED BY <2>1 DEF Secure, Secured, Balanced
<1>3. ASSUME NEW c \in ProjectionsOf(FundingOf(t, i))
      PROVE  c.by # None
  <2>1. PICK f \in FundingOf(t, i) : c.by = f.key
    BY DEF ProjectionsOf
  <2>2. f \in funding
    BY DEF FundingOf, Active
  <2> QED BY <2>1, <2>2, SettlementAssumption DEF SettlementAssumption, KeysOnce
<1>4. \A g : /\ Balance(g, i, left).by = None /\ Balance(g, i, left).gen = g
             /\ Balance(g, i, left).idx = i /\ ~Balance(g, i, left).paid
  BY DEF Balance
<1> HIDE DEF left
<1>5. \A f \in FundingOf(t, i) : f.gen = h.gen
  <2> TAKE f \in FundingOf(t, i)
  <2>1. Balance(f.gen, i, left) \in {Balance(h.gen, i, left)} \cup ProjectionsOf(FundingOf(t, i))
    BY <1>1, <1>2
  <2> QED BY <1>3, <1>4, <2>1
<1>6. \A c \in At(cash[t], i) : c.by = None => c = Balance(h.gen, i, left)
  BY <1>1, <1>2, <1>3
<1>7. Balance(h.gen, i, left) \in Pending(t, i)
  BY <1>1, <1>2, <1>4, <1>5 DEF Pending, At
<1>8. \A c \in Pending(t, i) : c \in At(cash[t], i) /\ c.by = None
  BY DEF Pending, At
<1>9. Pending(t, i) = {Balance(h.gen, i, left)}
  BY <1>6, <1>7, <1>8
<1> QED BY <1>1, <1>2, <1>5, <1>9 DEF left

\* The balance and the projections are also all that one may have to be funded.
LEMMA Occurrence ==
  ASSUME Secure, GoodTables, GoodExpenses, KeysOnce, NEW t \in Expenses, NEW i, TargetOccurrence(t, i)
  PROVE  /\ Remaining(t, i) \in Nat
         /\ \E g : /\ \A f \in FundingOf(t, i) : f.gen = g
                   /\ Pending(t, i) = {Balance(g, i, Remaining(t, i))}
                   /\ At(cash[t], i) =
                        {Balance(g, i, Remaining(t, i))} \cup ProjectionsOf(FundingOf(t, i))
<1>1. Remaining(t, i) \in Nat
  BY FundingAmounts DEF Remaining, TargetOccurrence, GoodExpenses, GoodRow
<1> DEFINE left == Remaining(t, i)
<1>2. CASE FundingOf(t, i) = {}
  <2>1. /\ Cardinality(Pending(t, i)) = 1
        /\ \A c \in Pending(t, i) : c.value = left /\ (c.live <=> left # 0)
        /\ \A c \in Live(t) : c.idx = i => c \in Pending(t, i)
    BY <1>2 DEF TargetOccurrence
  <2>2. IsFiniteSet(Pending(t, i))
    BY FS_Subset DEF Pending, GoodExpenses, GoodCash
  <2>3. PICK p : Pending(t, i) = {p}
    BY <2>1, <2>2, FS_Singleton
  <2>4. /\ p \in cash[t] /\ p.idx = i /\ ~p.paid /\ p.live /\ p.value = left /\ left # 0
        /\ p.by = None /\ IsEntry(p)
    BY <1>2, <2>1, <2>3 DEF Pending, Secure, Untagged, GoodExpenses, GoodCash
  <2>5. p = Balance(p.gen, i, left)
    <3> HIDE DEF left
    <3> QED BY <2>4 DEF IsEntry, EntryFields, Balance
  <2>6. \A c \in At(cash[t], i) : c = p
    BY <1>2, <2>1, <2>3 DEF At, Live, Secure, Untagged
  <2>7. At(cash[t], i) = {p} /\ ProjectionsOf(FundingOf(t, i)) = {}
    BY <1>2, <2>4, <2>6 DEF At, ProjectionsOf
  <2> QED BY <1>1, <1>2, <2>3, <2>5, <2>7
<1>3. CASE FundingOf(t, i) # {}
  BY <1>1, <1>3, FundedOccurrence
<1> QED BY <1>2, <1>3

\* What a funding or its undo writes to its target.
LEMMA Projected ==
  ASSUME Secure, GoodTables, GoodExpenses, KeysOnce, Sheets, NEW t \in Expenses, NEW i, TargetOccurrence(t, i),
         NEW rest \in Nat, NEW F, \A f \in F : f.idx = i, ProjectTarget(t, i, rest, ProjectionsOf(F))
  PROVE  /\ \E g : /\ \A f \in FundingOf(t, i) : f.gen = g
                   /\ (CHOOSE q \in Pending(t, i) : TRUE).gen = g
                   /\ At(cash'[t], i) = {Balance(g, i, rest)} \cup ProjectionsOf(F)
         /\ \A j : j # i => At(cash'[t], j) = At(cash[t], j)
         /\ \A e \in Expenses : e # t => cash'[e] = cash[e] /\ expense'[e] = expense[e]
         /\ Same(t) /\ expense'[t].price = expense[t].price
         /\ i \in expense'[t].paid <=> rest = 0
         /\ \A j : j # i => (j \in expense'[t].paid <=> j \in expense[t].paid)
<1> DEFINE left == Remaining(t, i)
           p == CHOOSE c \in Pending(t, i) : TRUE
           keys == {f.key : f \in FundingOf(t, i)}
           kept == {c \in cash[t] : c # p /\ c.by \notin keys}
           d == [p EXCEPT !.value = rest, !.live = rest # 0]
           paid == IF rest = 0 THEN expense[t].paid \cup {i} ELSE expense[t].paid \ {i}
<1>1. PICK g : /\ \A f \in FundingOf(t, i) : f.gen = g
               /\ Pending(t, i) = {Balance(g, i, left)}
               /\ At(cash[t], i) = {Balance(g, i, left)} \cup ProjectionsOf(FundingOf(t, i))
  BY Occurrence
<1>2. p = Balance(g, i, left) /\ p \in cash[t] /\ p.idx = i /\ p.gen = g
  <2>1. p = Balance(g, i, left)
    BY <1>1
  <2>2. p \in At(cash[t], i)
    BY <1>1, <2>1
  <2> HIDE DEF p
  <2> QED BY <2>1, <2>2 DEF At, Balance
<1>3. /\ cash' = [cash EXCEPT ![t] = kept \cup ProjectionsOf(F) \cup {d}]
      /\ expense' = [expense EXCEPT ![t].paid = paid]
  BY DEF ProjectTarget
<1>4. d = Balance(g, i, rest)
  <2>1. IsEntry(p)
    BY <1>2 DEF GoodExpenses, GoodCash
  <2>2. p.by = None /\ p.gen = g /\ p.idx = i /\ p.paid = FALSE
    <3> HIDE DEF p, left
    <3> QED BY <1>2 DEF Balance
  <2> HIDE DEF p
  <2>3. /\ IsEntry(d) /\ d.by = p.by /\ d.gen = p.gen /\ d.idx = p.idx /\ d.paid = p.paid
        /\ d.value = rest /\ d.live = (rest # 0)
    BY <2>1, BalancedEntry, ZenonT(30)
  <2> HIDE DEF d
  <2> QED BY <2>2, <2>3 DEF IsEntry, EntryFields, Balance
<1>5. /\ cash'[t] = kept \cup ProjectionsOf(F) \cup {Balance(g, i, rest)}
      /\ expense'[t] = [expense[t] EXCEPT !.paid = paid]
      /\ \A e \in Expenses : e # t => cash'[e] = cash[e] /\ expense'[e] = expense[e]
  BY <1>3, <1>4 DEF Sheets
<1>6. \A c \in kept : c \in cash[t] /\ c.idx # i
  <2> SUFFICES ASSUME NEW c \in cash[t], c.idx = i, c # p
               PROVE  c.by \in keys
    OBVIOUS
  <2>1. c \in ProjectionsOf(FundingOf(t, i))
    BY <1>1, <1>2 DEF At
  <2> QED BY <2>1 DEF ProjectionsOf
<1>7. \A c \in cash[t] : c.idx # i => c \in kept
  <2> SUFFICES ASSUME NEW c \in cash[t], c.idx # i, c.by \in keys
               PROVE  FALSE
    BY <1>2
  <2>1. PICK h \in FundingOf(t, i) : c.by = h.key
    OBVIOUS
  <2>2. h \in funding /\ h.idx = i
    BY DEF FundingOf, Active
  <2>3. c.by # None
    BY <2>1, <2>2, SettlementAssumption DEF SettlementAssumption, KeysOnce
  <2>4. PICK k \in FundingOf(t, c.idx) : c = Projection(k)
    BY <2>3, Tagged
  <2>5. k \in funding /\ k.idx = c.idx /\ k.key = h.key
    BY <2>1, <2>4 DEF FundingOf, Active, Projection
  <2> QED BY <2>2, <2>5 DEF KeysOnce
<1>8. \A c \in ProjectionsOf(F) : c.idx = i
  BY DEF ProjectionsOf
<1>9. Balance(g, i, rest).idx = i
  BY DEF Balance
<1>10. /\ \A j : j # i => At(cash'[t], j) = At(cash[t], j)
       /\ At(cash'[t], i) = {Balance(g, i, rest)} \cup ProjectionsOf(F)
  <2> HIDE DEF kept
  <2> QED BY <1>5, <1>6, <1>7, <1>8, <1>9 DEF At
<1>11. /\ Same(t) /\ expense'[t].price = expense[t].price /\ expense'[t].paid = paid
  <2> HIDE DEF paid
  <2> QED BY <1>5 DEF Sheets, IsRow, Fields, Same, Kept
<1> QED BY <1>1, <1>2, <1>5, <1>10, <1>11

\* What Secure needs of a step that gives the installment i of t the fundings F.
Refunded(s, t, i, rest, F) ==
  /\ Context(s, t, i) /\ ProjectTarget(t, i, rest, ProjectionsOf(F)) /\ UNCHANGED <<legacy, share>>
  /\ FundingOf(t, i)' = F /\ expense[t].price - Amount(F) = rest /\ (F = {} => rest # 0)
  /\ \A e, j : e # t \/ j # i => FundingOf(e, j)' = FundingOf(e, j)
  /\ \A e : e # s => FundedBy(e)' = FundedBy(e)
  /\ expense[s].price - Amount(FundedBy(s)') \in Nat
  /\ \A f \in Active' :
       \/ f \in Active
       \/ /\ f.src = s /\ f.tgt = t /\ f.idx = i /\ f.proof = SourceProof(s) /\ f.root = TargetProof(t)
          /\ f.planned = expense[t].price /\ f.gen = (CHOOSE q \in Pending(t, i) : TRUE).gen

LEMMA RefundedSecure ==
  ASSUME Apart, Secure, GoodTables, GoodExpenses, KeysOnce, Sheets,
         NEW s \in Expenses, NEW t \in Expenses, s \in Payers, t \in Payees,
         NEW i, NEW rest \in Nat, NEW F, \A f \in F : f.idx = i, Refunded(s, t, i, rest, F)
  PROVE  Secure'
<1>1. /\ Context(s, t, i) /\ ProjectTarget(t, i, rest, ProjectionsOf(F)) /\ UNCHANGED <<legacy, share>>
      /\ FundingOf(t, i)' = F /\ expense[t].price - Amount(F) = rest /\ (F = {} => rest # 0)
      /\ \A e, j : e # t \/ j # i => FundingOf(e, j)' = FundingOf(e, j)
      /\ \A e : e # s => FundedBy(e)' = FundedBy(e)
      /\ expense[s].price - Amount(FundedBy(s)') \in Nat
  BY DEF Refunded
<1>2. /\ expense[s].alive /\ expense[t].alive /\ Project[s] # Project[t]
      /\ Ordinary(s, {}) /\ Ordinary(t, {r.src : r \in {q \in legacy : q.tgt = t}})
      /\ Debit(s) /\ TargetOccurrence(t, i) /\ SettledBy(s) = {}
  BY <1>1 DEF Context
<1>3. PICK g : /\ \A f \in FundingOf(t, i) : f.gen = g
               /\ (CHOOSE q \in Pending(t, i) : TRUE).gen = g
               /\ At(cash'[t], i) = {Balance(g, i, rest)} \cup ProjectionsOf(F)
  BY <1>1, <1>2, Projected
<1>4. /\ \A j : j # i => At(cash'[t], j) = At(cash[t], j)
      /\ \A e \in Expenses : e # t => cash'[e] = cash[e] /\ expense'[e] = expense[e]
      /\ Same(t) /\ expense'[t].price = expense[t].price
      /\ i \in expense'[t].paid <=> rest = 0
      /\ \A j : j # i => (j \in expense'[t].paid <=> j \in expense[t].paid)
  BY <1>1, <1>2, Projected
<1>5. \A f \in Active' :
        \/ f \in Active
        \/ /\ f.src = s /\ f.tgt = t /\ f.idx = i /\ f.proof = SourceProof(s) /\ f.root = TargetProof(t)
           /\ f.planned = expense[t].price /\ f.gen = g
  BY <1>3 DEF Refunded
<1>6. s # t /\ cash'[s] = cash[s] /\ expense'[s] = expense[s]
  BY <1>4 DEF Apart
<1>7. ASSUME NEW f \in Active'
      PROVE  Secured(f)'
  <2>1. /\ f.src \in Expenses /\ f.tgt \in Expenses /\ f.src # t /\ Project[f.src] # Project[f.tgt]
        /\ SourceStands(f) /\ TargetStands(f)
    <3>1. CASE f \in Active
      BY <3>1, Parties DEF Apart, Secure, Secured
    <3>2. CASE f \notin Active
      <4>1. /\ f.src = s /\ f.tgt = t /\ f.idx = i /\ f.proof = SourceProof(s) /\ f.root = TargetProof(t)
            /\ f.planned = expense[t].price
        BY <1>5, <3>2
      <4> QED BY <1>2, <1>6, <4>1 DEF SourceStands, TargetStands, Ordinary, TargetOccurrence
    <3> QED BY <3>1, <3>2
  <2>2. SourceStands(f)'
    <3>1. expense'[f.src] = expense[f.src] /\ cash'[f.src] = cash[f.src]
      BY <1>4, <2>1
    <3> QED BY <1>1, <2>1, <3>1 DEF SourceStands, Debit, Live, SourceProof, InRateio, Rated, SharedBy, SettledBy
  <2>3. Kept(expense[f.tgt], expense'[f.tgt]) /\ expense'[f.tgt].price = expense[f.tgt].price
    BY <1>4, <2>1 DEF Same, Kept
  <2>4. TargetStands(f)'
    BY <1>1, <2>1, <2>3 DEF TargetStands, TargetProof, Kept, Indexes, InRateio, Rated, SharedBy, SettlementOf
  <2>5. Available(f.src)' \in Nat
    <3>1. CASE f.src = s
      BY <1>1, <1>6, <3>1 DEF Available
    <3>2. CASE f.src # s
      <4>1. f \in Active
        BY <1>5, <3>2
      <4>2. Available(f.src) \in Nat
        BY <4>1 DEF Secure, Secured
      <4>3. FundedBy(f.src)' = FundedBy(f.src) /\ expense'[f.src] = expense[f.src]
        BY <1>1, <1>4, <2>1, <3>2
      <4> QED BY <4>2, <4>3 DEF Available, Amount
    <3> QED BY <3>1, <3>2
  <2>6. Balanced(f)'
    <3>1. CASE f.tgt = t /\ f.idx = i
      <4>1. f.gen = g
        BY <1>3, <1>5, <3>1 DEF FundingOf
      <4>2. Remaining(t, i)' = rest
        BY <1>1, <1>4 DEF Remaining
      <4>3. ProjectionsOf(FundingOf(t, i))' = ProjectionsOf(F)
        BY <1>1 DEF ProjectionsOf
      <4>4. At(cash[t], i)' = {Balance(g, i, rest)} \cup ProjectionsOf(F)
        BY <1>3 DEF At
      <4> QED BY <1>4, <3>1, <4>1, <4>2, <4>3, <4>4 DEF Balanced, Balance
    <3>2. CASE f.tgt # t \/ f.idx # i
      <4>1. f \in Active
        BY <1>5, <3>2
      <4>2. Balanced(f)
        BY <4>1 DEF Secure, Secured
      <4>3. FundingOf(f.tgt, f.idx)' = FundingOf(f.tgt, f.idx)
        BY <1>1, <3>2
      <4>4. Remaining(f.tgt, f.idx)' = Remaining(f.tgt, f.idx)
        BY <2>3, <4>3 DEF Remaining, Amount
      <4>5. ProjectionsOf(FundingOf(f.tgt, f.idx))' = ProjectionsOf(FundingOf(f.tgt, f.idx))
        BY <4>3 DEF ProjectionsOf
      <4>6. At(cash[f.tgt], f.idx)' = At(cash[f.tgt], f.idx)
        BY <1>4, <2>1, <3>2 DEF At
      <4>7. f.idx \in expense'[f.tgt].paid <=> f.idx \in expense[f.tgt].paid
        BY <1>4, <2>1, <3>2
      <4> QED BY <4>2, <4>4, <4>5, <4>6, <4>7 DEF Balanced, Balance
    <3> QED BY <3>1, <3>2
  <2> QED BY <2>1, <2>2, <2>4, <2>5, <2>6 DEF Secured
<1>8. Mirrored'
  <2>1. \A o \in Expenses : expense'[o].alive = expense[o].alive /\ expense'[o].link = expense[o].link
    BY <1>4 DEF Same, Kept
  <2> SUFFICES ASSUME NEW e \in Expenses, NEW o \in Expenses, InFunding(e)', expense[o].alive, expense[o].link = e
               PROVE  \E r \in legacy : r.src = o /\ r.tgt = e
    BY <1>1, <2>1 DEF Mirrored
  <2>2. CASE InFunding(e)
    BY <2>2 DEF Secure, Mirrored
  <2>3. CASE e = s
    BY <1>2, <2>3 DEF Ordinary
  <2>4. CASE e = t
    BY <1>2, <2>4 DEF Ordinary
  <2>5. InFunding(e) \/ e = s \/ e = t
    BY <1>5 DEF InFunding
  <2> QED BY <2>2, <2>3, <2>4, <2>5
<1>9. ASSUME NEW e \in Expenses
      PROVE  Untagged(cash[e], e)'
  <2> SUFFICES ASSUME NEW c \in cash'[e], FundingOf(e, c.idx)' = {}
               PROVE  c.by = None /\ c.live
    BY DEF Untagged
  <2>1. CASE e = t /\ c.idx = i
    <3>1. F = {}
      BY <1>1, <2>1
    <3>2. c \in At(cash'[t], i) /\ ProjectionsOf(F) = {}
      BY <2>1, <3>1 DEF At, ProjectionsOf
    <3>3. c = Balance(g, i, rest)
      BY <1>3, <3>2
    <3>4. Balance(g, i, rest).by = None /\ Balance(g, i, rest).live = (rest # 0)
      BY DEF Balance
    <3> QED BY <1>1, <3>1, <3>3, <3>4
  <2>2. CASE e # t \/ c.idx # i
    <3>1. FundingOf(e, c.idx) = {}
      BY <1>1, <2>2
    <3>2. c \in cash[e]
      BY <1>4, <2>2 DEF At
    <3> QED BY <3>1, <3>2 DEF Secure, Untagged
  <2> QED BY <2>1, <2>2
<1> QED BY <1>7, <1>8, <1>9 DEF Secure

LEMMA ApplySecure ==
  ASSUME Apart, Secure, GoodTables, GoodExpenses, KeysOnce, Sheets,
         NEW k \in Keys, NEW c \in Commands, ApplyParcelaFunding(k, c)
  PROVE  Secure'
<1> DEFINE s == c.src
           t == c.tgt
           i == c.idx
           row == [key |-> k, src |-> s, tgt |-> t, idx |-> i, amount |-> c.amount,
                   planned |-> expense[t].price, gen |-> (CHOOSE q \in Pending(t, i) : TRUE).gen,
                   proof |-> SourceProof(s), root |-> TargetProof(t), reversed |-> FALSE]
           F == FundingOf(t, i) \cup {row}
           rest == Remaining(t, i) - c.amount
<1>1. /\ Context(s, t, i) /\ c.amount <= Remaining(t, i) /\ c.amount <= Available(s)
      /\ funding' = funding \cup {row} /\ UNCHANGED <<legacy, share>>
      /\ ProjectTarget(t, i, rest, ProjectionsOf(F)) /\ \A f \in funding : f.key # k
  BY DEF ApplyParcelaFunding, Affordable, Unused
<1>2. /\ s \in Expenses /\ t \in Expenses /\ c.amount \in Nat \ {0} /\ s \in Payers /\ t \in Payees
  BY SettlementAssumption, AmountAssumption DEF SettlementAssumption, AmountAssumption, Payers, Payees
<1>3. /\ row.key = k /\ row.src = s /\ row.tgt = t /\ row.idx = i /\ row.amount = c.amount
      /\ row.planned = expense[t].price /\ row.gen = (CHOOSE q \in Pending(t, i) : TRUE).gen
      /\ row.proof = SourceProof(s) /\ row.root = TargetProof(t) /\ ~row.reversed
  OBVIOUS
<1> HIDE DEF row
<1>4. Active' = Active \cup {row} /\ row \notin Active
  BY <1>1, <1>3 DEF Active
<1>5. /\ FundingOf(t, i)' = F /\ \A e, j : e # t \/ j # i => FundingOf(e, j)' = FundingOf(e, j)
      /\ FundedBy(s)' = FundedBy(s) \cup {row} /\ \A e : e # s => FundedBy(e)' = FundedBy(e)
  BY <1>3, <1>4 DEF FundingOf, FundedBy
<1>6. ASSUME NEW G \in SUBSET Active
      PROVE  Amount(G \cup {row}) = Amount(G) + c.amount /\ Amount(G) \in Nat
  <2>1. IsFiniteSet(G) /\ \A f \in G : f.amount \in Nat
    BY FundingAmounts, FS_Subset DEF Active
  <2>2. IsFiniteSet(G \cup {row}) /\ \A f \in G \cup {row} : f.amount \in Nat
    BY <1>2, <1>3, <2>1, FS_AddElement
  <2>3. Amount(G \cup {row}) = row.amount + Amount((G \cup {row}) \ {row})
    BY <2>2, AmountSplit
  <2>4. (G \cup {row}) \ {row} = G
    BY <1>4
  <2>5. Amount(G) \in Nat
    BY <2>1, AmountNat
  <2>6. Amount(G \cup {row}) = c.amount + Amount(G)
    BY <1>3, <2>3, <2>4
  <2> QED BY <1>2, <2>5, <2>6
<1>7. expense[t].price \in Nat /\ expense[s].price \in Nat
  BY <1>2 DEF GoodExpenses, GoodRow
<1>8. /\ Amount(F) = Amount(FundingOf(t, i)) + c.amount /\ Amount(FundingOf(t, i)) \in Nat
      /\ Amount(FundedBy(s) \cup {row}) = Amount(FundedBy(s)) + c.amount /\ Amount(FundedBy(s)) \in Nat
  <2>1. FundingOf(t, i) \in SUBSET Active /\ FundedBy(s) \in SUBSET Active
    BY DEF FundingOf, FundedBy
  <2> QED BY <1>6, <2>1
<1>9. rest \in Nat /\ expense[t].price - Amount(F) = rest
  BY <1>1, <1>2, <1>7, <1>8 DEF Remaining
<1>10. expense[s].price - Amount(FundedBy(s)') \in Nat
  BY <1>1, <1>2, <1>5, <1>7, <1>8 DEF Available
<1>11. F # {} /\ \A f \in F : f.idx = i
  BY <1>3 DEF FundingOf
<1>12. \A f \in Active' : f \in Active \/ f = row
  BY <1>4
<1> HIDE DEF rest, F
<1>13. Refunded(s, t, i, rest, F)
  BY <1>1, <1>3, <1>5, <1>9, <1>10, <1>11, <1>12 DEF Refunded
<1> QED BY <1>2, <1>9, <1>11, <1>13, RefundedSecure

LEMMA UndoSecure ==
  ASSUME Apart, Secure, GoodTables, GoodExpenses, KeysOnce, Sheets, NEW f \in Active, UndoParcelaFunding(f)
  PROVE  Secure'
<1> DEFINE s == f.src
           t == f.tgt
           i == f.idx
           g == [f EXCEPT !.reversed = TRUE]
           F == FundingOf(t, i) \ {f}
           rest == Remaining(t, i) + f.amount
<1>1. /\ Context(s, t, i) /\ funding' = (funding \ {f}) \cup {g} /\ UNCHANGED <<legacy, share>>
      /\ ProjectTarget(t, i, rest, ProjectionsOf(F))
  BY DEF UndoParcelaFunding
<1>2. f \in funding /\ s \in Expenses /\ t \in Expenses /\ s \in Payers /\ t \in Payees /\ f.amount \in Nat \ {0}
  BY Parties, FundingAmounts DEF Active
<1>3. g.reversed
  BY <1>2, ReversedRow DEF KeysOnce
<1> HIDE DEF g
<1>4. Active' = Active \ {f}
  BY <1>1, <1>3 DEF Active
<1>5. /\ FundingOf(t, i)' = F /\ \A e, j : e # t \/ j # i => FundingOf(e, j)' = FundingOf(e, j)
      /\ FundedBy(s)' = FundedBy(s) \ {f} /\ \A e : e # s => FundedBy(e)' = FundedBy(e)
  BY <1>4 DEF FundingOf, FundedBy
<1>6. ASSUME NEW G \in SUBSET Active, f \in G
      PROVE  Amount(G) = f.amount + Amount(G \ {f}) /\ Amount(G \ {f}) \in Nat
  <2>1. IsFiniteSet(G) /\ \A h \in G : h.amount \in Nat
    BY FundingAmounts, FS_Subset DEF Active
  <2>2. IsFiniteSet(G \ {f}) /\ \A h \in G \ {f} : h.amount \in Nat
    BY <2>1, FS_Subset
  <2> QED BY <1>6, <2>1, <2>2, AmountSplit, AmountNat
<1>7. expense[t].price \in Nat /\ expense[s].price \in Nat /\ Remaining(t, i) \in Nat /\ Available(s) \in Nat
  BY <1>2 DEF GoodExpenses, GoodRow, Secure, Secured, Balanced
<1>8. /\ Amount(FundingOf(t, i)) = f.amount + Amount(F) /\ Amount(F) \in Nat
      /\ Amount(FundedBy(s)) = f.amount + Amount(FundedBy(s) \ {f}) /\ Amount(FundedBy(s) \ {f}) \in Nat
  <2>1. /\ FundingOf(t, i) \in SUBSET Active /\ FundedBy(s) \in SUBSET Active
        /\ f \in FundingOf(t, i) /\ f \in FundedBy(s)
    BY DEF FundingOf, FundedBy
  <2> QED BY <1>6, <2>1
<1>9. rest \in Nat /\ rest # 0 /\ expense[t].price - Amount(F) = rest
  BY <1>2, <1>7, <1>8 DEF Remaining
<1>10. expense[s].price - Amount(FundedBy(s)') \in Nat
  BY <1>2, <1>5, <1>7, <1>8 DEF Available
<1>11. \A h \in F : h.idx = i
  BY DEF FundingOf
<1> HIDE DEF rest, F
<1>12. Refunded(s, t, i, rest, F)
  BY <1>1, <1>4, <1>5, <1>9, <1>10 DEF Refunded
<1> QED BY <1>2, <1>9, <1>11, <1>12, RefundedSecure

LEMMA SecureStep ==
  ASSUME Apart, Books, GoodExpenses, GoodTables, Secure, [Next]_vars
  PROVE  Secure'
<1>1. Sheets /\ KeysOnce /\ Origins
  BY DEF Books
<1>2. CASE UNCHANGED vars
  <2>1. Calm
    BY <1>2, AsideIsCalm DEF vars, Secure
  <2> QED BY <2>1, CalmSecure
<1>3. CASE Calm
  BY <1>3, CalmSecure
<1> QED BY <1>1, <1>2, <1>3, Steps, ApplySecure, UndoSecure, CalmSettle, CalmRatear, CalmUnsettle, CalmUnratear,
           CalmRelinked, CalmUpdate, CalmToggle, CalmMove, CalmRemoved, SettlementAssumption DEF SettlementAssumption

-----------------------------------------------------------------------------
(* What the invariant says of the fundings.                                *)

LEMMA ProjectionsSum ==
  ASSUME NEW F, IsFiniteSet(F), \A f \in F : f.amount \in Nat, \A f, g \in F : f.key = g.key => f = g
  PROVE  IsFiniteSet(ProjectionsOf(F)) /\ Sum(ProjectionsOf(F)) = Amount(F)
<1> DEFINE P == ProjectionsOf(F)
           a == [f \in F |-> f.amount]
           v == [c \in P |-> c.value]
           h == [f \in F |-> Projection(f)]
<1>1. P = {Projection(f) : f \in F}
  BY DEF ProjectionsOf, Projection
<1>2. \A f \in F : Projection(f).by = f.key /\ Projection(f).value = f.amount
  BY DEF Projection
<1>3. h \in Bijection(F, P)
  <2> HIDE DEF P
  <2>1. h \in [F -> P] /\ (\A f, g \in F : h[f] = h[g] => f = g) /\ \A c \in P : \E f \in F : h[f] = c
    BY <1>1, <1>2
  <2> QED BY <2>1 DEF Bijection, Injection, Surjection, IsInjective
<1>4. \A f \in F : a[f] \in Nat /\ v[h[f]] = a[f]
  BY <1>1, <1>2
<1>5. Sum(P) = SumFunctionOnSet(v, P) /\ Amount(F) = SumFunctionOnSet(a, F)
  BY DEF Sum, Amount, SumFunction
<1> HIDE DEF P, a, v, h
<1>6. IsFiniteSet(P) /\ SumFunctionOnSet(v, P) = SumFunctionOnSet(a, F)
  BY <1>3, <1>4, SumRenamed
<1> QED BY <1>5, <1>6 DEF P

LEMMA SumSplit ==
  ASSUME NEW C, IsFiniteSet(C), \A c \in C : c.value \in Nat, NEW b, b \notin C, b.value \in Nat
  PROVE  Sum(C \cup {b}) = b.value + Sum(C)
<1> DEFINE D == C \cup {b}
           u == [c \in D |-> c.value]
           v == [c \in C |-> c.value]
<1>1. IsFiniteSet(D) /\ D \ {b} = C
  BY FS_AddElement
<1>2. (\A c \in D : u[c] \in Nat) /\ (\A c \in C : v[c] \in Nat) /\ u[b] = b.value /\ b \in D
  OBVIOUS
<1>3. Units(u, C) = Units(v, C)
  BY DEF Units
<1>4. Sum(D) = SumFunctionOnSet(u, D) /\ Sum(C) = SumFunctionOnSet(v, C)
  BY DEF Sum, SumFunction
<1> HIDE DEF D, u, v
<1>5. Sum(D) = Cardinality(Units(u, D)) /\ Sum(C) = Cardinality(Units(v, C))
  BY <1>1, <1>2, <1>4, SumIsUnits
<1>6. Cardinality(Units(u, D)) = u[b] + Cardinality(Units(u, D \ {b}))
  BY <1>1, <1>2, UnitsAdd
<1> QED BY <1>1, <1>2, <1>3, <1>5, <1>6 DEF D

LEMMA NothingFunded == Amount({}) = 0
<1> DEFINE a == [f \in {} |-> f.amount]
<1>1. Amount({}) = SumFunctionOnSet(a, {})
  BY DEF Amount, SumFunction
<1>2. Units(a, {}) = {}
  BY DEF Units
<1> HIDE DEF a
<1>3. IsFiniteSet({}) /\ Cardinality({}) = 0
  BY FS_EmptySet
<1>4. SumFunctionOnSet(a, {}) = Cardinality(Units(a, {}))
  BY <1>3, SumIsUnits
<1> QED BY <1>1, <1>2, <1>3, <1>4

\* What a funded installment shows adds up to its price.
LEMMA ShownAddsUp ==
  ASSUME Secure, GoodExpenses, GoodTables, KeysOnce, NEW f \in Active
  PROVE  LET shown == {c \in Live(f.tgt) : c.idx = f.idx}
             rest == {c \in shown : ~c.paid}
         IN /\ Sum(shown) = expense[f.tgt].price
            /\ Sum(shown \ rest) = Amount(FundingOf(f.tgt, f.idx))
            /\ f.idx \in expense[f.tgt].paid <=> rest = {}
<1> DEFINE t == f.tgt
           i == f.idx
           F == FundingOf(t, i)
           P == ProjectionsOf(F)
           left == Remaining(t, i)
           b == Balance(f.gen, i, left)
           shown == {c \in Live(t) : c.idx = i}
           rest == {c \in shown : ~c.paid}
<1>1. At(cash[t], i) = {b} \cup P /\ left \in Nat /\ (i \in expense[t].paid <=> left = 0)
  BY DEF Secure, Secured, Balanced
<1>2. \A c \in P : c.live /\ c.paid /\ c.value \in Nat
  <2>1. \A h \in F : h.amount \in Nat
    BY FundingAmounts DEF FundingOf, Active
  <2> QED BY <2>1 DEF ProjectionsOf
<1>3. b.live = (left # 0) /\ b.paid = FALSE /\ b.value = left
  BY DEF Balance
<1>4. shown = {c \in At(cash[t], i) : c.live}
  BY DEF Live, At
<1>5. expense[t].price \in Nat /\ expense[t].price - Amount(F) = left
  BY Parties DEF Remaining, GoodExpenses, GoodRow
<1>6. IsFiniteSet(P) /\ Sum(P) = Amount(F) /\ Amount(F) \in Nat
  <2>0. IsFiniteSet(F) /\ Amount(F) \in Nat /\ \A h \in funding : h.amount \in Nat
    BY FundingAmounts
  <2>1. \A h \in F : h.amount \in Nat
    BY <2>0 DEF FundingOf, Active
  <2>2. \A g, h \in F : g.key = h.key => g = h
    BY DEF FundingOf, Active, KeysOnce
  <2> HIDE DEF F
  <2> QED BY <2>0, <2>1, <2>2, ProjectionsSum
<1> HIDE DEF b, P, left, F
<1>7. CASE left = 0
  <2>1. shown = P /\ rest = {} /\ shown \ rest = P
    BY <1>1, <1>2, <1>3, <1>4, <1>7
  <2>2. Amount(F) = expense[t].price
    BY <1>5, <1>6, <1>7
  <2> HIDE DEF shown, rest
  <2>3. Sum(shown) = expense[t].price /\ Sum(shown \ rest) = Amount(F)
    BY <1>6, <2>1, <2>2
  <2> QED BY <1>1, <1>7, <2>1, <2>3 DEF F, shown, rest
<1>8. CASE left # 0
  <2>1. b \notin P /\ shown = P \cup {b} /\ rest = {b} /\ shown \ rest = P
    BY <1>1, <1>2, <1>3, <1>4, <1>8
  <2>2. Sum(P \cup {b}) = left + Sum(P)
    BY <1>1, <1>2, <1>3, <1>6, <2>1, SumSplit
  <2>3. left + Sum(P) = expense[t].price
    BY <1>1, <1>5, <1>6
  <2> HIDE DEF shown, rest
  <2>4. Sum(shown) = expense[t].price /\ Sum(shown \ rest) = Amount(F)
    BY <1>6, <2>1, <2>2, <2>3
  <2> QED BY <1>1, <1>8, <2>1, <2>4 DEF F, shown, rest
<1> QED BY <1>7, <1>8

LEMMA FundedContext ==
  ASSUME Apart, Secure, GoodExpenses, GoodTables, KeysOnce, Origins, NEW f \in Active
  PROVE  Context(f.src, f.tgt, f.idx)
<1> DEFINE s == f.src
           t == f.tgt
           i == f.idx
<1>1. /\ Project[s] # Project[t] /\ Available(s) \in Nat /\ SourceStands(f) /\ TargetStands(f) /\ Balanced(f)
      /\ s \in Expenses /\ t \in Expenses /\ s \in Payers /\ InFunding(s) /\ InFunding(t)
  BY Parties DEF Secure, Secured
<1>2. Ordinary(s, {})
  <2>1. \A r \in legacy : r.tgt # s
    BY <1>1, Participants DEF Apart, Payees
  <2> QED BY <1>1, <2>1 DEF Secure, Mirrored, Ordinary, SourceStands
<1>3. Ordinary(t, {r.src : r \in {q \in legacy : q.tgt = t}})
  BY <1>1 DEF Secure, Mirrored, Ordinary, TargetStands
<1>4. f \in FundingOf(t, i)
  BY DEF FundingOf
<1>5. PICK g : /\ \A h \in FundingOf(t, i) : h.gen = g
               /\ Pending(t, i) = {Balance(g, i, Remaining(t, i))}
               /\ At(cash[t], i) = {Balance(g, i, Remaining(t, i))} \cup ProjectionsOf(FundingOf(t, i))
  BY <1>4, FundedOccurrence
<1>6. ASSUME NEW h \in Active
      PROVE  Proven(h)
  <2>1. SourceStands(h) /\ TargetStands(h) /\ Balanced(h)
    BY DEF Secure, Secured
  <2>2. Projection(h) \in ProjectionsOf(FundingOf(h.tgt, h.idx))
    BY DEF FundingOf, ProjectionsOf, Projection
  <2>3. Projection(h) \in cash[h.tgt]
    BY <2>1, <2>2 DEF Balanced, At
  <2>4. Projection(h).live /\ Projection(h).by = h.key /\ Projection(h).value = h.amount
    BY DEF Projection
  <2> QED BY <2>1, <2>3, <2>4 DEF Proven, SourceStands, TargetStands, Live
<1>7. TargetOccurrence(t, i)
  <2>1. /\ i \in Indexes(expense[t]) /\ SettlementOf(t, i) = {} /\ Remaining(t, i) \in Nat
        /\ i \in expense[t].paid <=> Remaining(t, i) = 0
    BY <1>1 DEF TargetStands, Balanced
  <2>2. Cardinality(Pending(t, i)) = 1
    BY <1>5, FS_Singleton
  <2>3. \A c \in Pending(t, i) : c.value = Remaining(t, i) /\ (c.live <=> Remaining(t, i) # 0)
    <3> DEFINE left == Remaining(t, i)
    <3>1. Balance(g, i, left).value = left /\ Balance(g, i, left).live = (left # 0)
      <4> HIDE DEF left
      <4> QED BY DEF Balance
    <3> QED BY <1>5, <3>1
  <2>4. \A h \in FundingOf(t, i) : h.planned = expense[t].price
    BY DEF FundingOf, Secure, Secured, TargetStands
  <2>5. \A c \in Live(t) : c.idx = i => c \in Pending(t, i) \/ \E h \in FundingOf(t, i) : c.by = h.key
    BY <1>5 DEF Live, At, ProjectionsOf
  <2> QED BY <2>1, <2>2, <2>3, <2>4, <2>5 DEF TargetOccurrence
<1>8. \A h \in FundedBy(s) \cup FundingOf(t, i) : Proven(h)
  BY <1>6 DEF FundedBy, FundingOf
<1> QED BY <1>1, <1>2, <1>3, <1>7, <1>8 DEF Context, SourceStands, TargetStands

LEMMA FundingsHold ==
  ASSUME Apart, Books, GoodExpenses, GoodTables, Secure
  PROVE  FundingsStand
<1>1. KeysOnce /\ FundingExpenses /\ Origins
  BY DEF Books
<1>2. TypeOK
  <2>1. \A e \in Expenses :
           /\ expense[e].alive \in BOOLEAN /\ expense[e].price \in Nat /\ expense[e].count \in Nat \ {0}
           /\ expense[e].paid \subseteq Indexes(expense[e]) /\ expense[e].link \in Expenses \cup {Nobody}
           /\ \A c \in cash[e] : c.value \in Nat /\ c.by \in Keys \cup {None}
    BY DEF GoodExpenses, GoodRow, GoodCash, IsEntry
  <2>2. \A f \in funding : f.key \in Keys /\ {f.src, f.tgt} \subseteq Expenses /\ f.amount \in Nat \ {0}
    BY <1>1, FundingAmounts DEF KeysOnce, FundingExpenses
  <2> QED BY <1>1, <2>1, <2>2, Participants DEF TypeOK, GoodTables
<1>3. FundingBalances
  <2>1. ASSUME NEW s \in Expenses
        PROVE  Amount(FundedBy(s)) <= expense[s].price
    <3>1. expense[s].price \in Nat /\ Amount(FundedBy(s)) \in Nat
      BY FundingAmounts DEF GoodExpenses, GoodRow
    <3>2. CASE FundedBy(s) = {}
      BY <3>1, <3>2, NothingFunded
    <3>3. CASE FundedBy(s) # {}
      <4>1. Available(s) \in Nat
        BY <3>3 DEF FundedBy, Secure, Secured
      <4> QED BY <3>1, <4>1 DEF Available
    <3> QED BY <3>2, <3>3
  <2> QED BY <1>1, <2>1, ShownAddsUp DEF FundingBalances
<1>4. FundingCanBeUndone
  BY <1>1, FundedContext DEF FundingCanBeUndone
<1> QED BY <1>2, <1>3, <1>4 DEF FundingsStand

\* As long as what pays is not itself paid for, the fundings of an installment and what is
\* left of it add up to its price, no debit pays more than it is worth, and nothing that
\* people do to other expenses, or to other installments, keeps a funding from its undo.
THEOREM FundingsAreKept ==
  ASSUME Apart
  PROVE  Spec => []FundingsStand
<1> DEFINE Inv == Books /\ GoodExpenses /\ GoodTables /\ Secure
<1>1. Init => Inv
  <2>1. Init => Secure
    BY DEF Init, Secure, Active, Mirrored, InFunding, Untagged, Entries
  <2> QED BY <2>1, BooksInit, GoodInit
<1>2. Inv /\ [Next]_vars => Inv'
  <2> SUFFICES ASSUME Inv, [Next]_vars PROVE Inv'
    OBVIOUS
  <2>1. Books'
    BY ApartSeparate, BooksStep
  <2>2. GoodExpenses' /\ GoodTables'
    BY GoodStep DEF Books
  <2>3. Secure'
    BY SecureStep
  <2> QED BY <2>1, <2>2, <2>3
<1>3. Inv => FundingsStand
  BY FundingsHold
<1> QED BY <1>1, <1>2, <1>3, PTL DEF Spec
=============================================================================
