----------------------- MODULE CrossProjectSettlement -----------------------
(***************************************************************************)
(* Expenses of different projects that stand for the same money.  A debit  *)
(* of the bank account may fund part of an installment of another          *)
(* project's expense (an additive settlement), replace the planned value   *)
(* of an installment (a legacy settlement, which turns the debit into a    *)
(* mirror), be shared out among several planned expenses (a rateio), or    *)
(* merely be linked to one.  People edit and remove the same expenses.     *)
(*                                                                         *)
(* Each operation is one transaction of SQLite, so one action.  An expense *)
(* has installments of equal price; status and paidParcelas together are   *)
(* the set of paid indexes.  Cash-flow entries that are soft-deleted and   *)
(* that no active funding names are left out.                              *)
(***************************************************************************)
EXTENDS Integers, FiniteSets, Functions

CONSTANTS
  Expenses, Project,         \* Project[e]: the project of expense e
  Price, Count, Settled,     \* price and number of installments; whether e starts paid
  Keys,                      \* request keys of fundings
  Commands,                  \* [src, tgt, idx, amount]: contents of requests
  Settles, Splits, Links,    \* what people settle, share out and link
  Prices, Edited,            \* values an edit may give, and the expenses edited
  Toggled, Moved, Removed    \* expenses whose installments are toggled or moved; removed ones

None == 0
Nobody == "nobody"

ASSUME SettlementAssumption ==
  /\ IsFiniteSet(Expenses) /\ Keys \subseteq Nat \ {None} /\ Nobody \notin Expenses
  /\ \A e \in Expenses : Price[e] \in Nat \ {0} /\ Count[e] \in Nat \ {0}
  /\ \A c \in Commands \cup Settles : {c.src, c.tgt} \subseteq Expenses
  /\ \A c \in Splits : {c.src} \cup DOMAIN c.parts \subseteq Expenses
  /\ Links \subseteq Expenses \X Expenses
  /\ Edited \cup Toggled \cup Moved \cup Removed \subseteq Expenses

(* What the requests are validated for (validateFundingCommand, the DTOs). *)
ASSUME AmountAssumption ==
  /\ \A c \in Commands : c.amount \in Nat \ {0}
  /\ \A c \in Settles : c.real \in Nat
  /\ \A c \in Splits : \A t \in DOMAIN c.parts : c.parts[t] \in Nat
  /\ Prices \subseteq Nat

VARIABLES
  expense,   \* the rows of the expenses
  cash,      \* cash[e]: the cash-flow entries of e
  funding,   \* additive settlements
  legacy,    \* legacy settlements
  share,     \* allocations of rateios
  planned    \* history: the plan an expense had when it was last not a rateio's target

vars == <<expense, cash, funding, legacy, share, planned>>

Indexes(x) == 0..(x.count - 1)
Plan(x) == [price |-> x.price, count |-> x.count, paid |-> x.paid]
Total(x) == x.price * x.count
Live(e) == {c \in cash[e] : c.live}

Active == {f \in funding : ~f.reversed}
FundedBy(s) == {f \in Active : f.src = s}
FundingOf(t, i) == {f \in Active : f.tgt = t /\ f.idx = i}
Amount(F) == SumFunction([f \in F |-> f.amount])
Sum(C) == SumFunction([c \in C |-> c.value])
SettledBy(s) == {r \in legacy : r.src = s}
SettlementOf(t, i) == {r \in legacy : r.tgt = t /\ r.idx = i}
SharedBy(s) == {r \in share : r.src = s}
Rated(t) == \E r \in share : r.tgt = t
InRateio(e) == Rated(e) \/ SharedBy(e) # {}
InFunding(e) == \E f \in Active : e \in {f.src, f.tgt}
InSettlement(e) == InFunding(e) \/ \E r \in legacy : e \in {r.src, r.tgt}

-----------------------------------------------------------------------------
(* Cash-flow entries.  gen distinguishes the entries of one regeneration   *)
(* from those of the others, as their ids do.                              *)

GensOf(e) == {c.gen : c \in cash[e]} \cup {f.gen : f \in {g \in Active : g.tgt = e}}
  \cup UNION {{c.gen : c \in f.proof.cash} : f \in FundedBy(e)}
NextGen(e) == CHOOSE g \in 1..(Cardinality(GensOf(e)) + 1) :
                g \notin GensOf(e) /\ \A h \in 1..(g - 1) : h \in GensOf(e)

Entries(g, values, paid, I) ==
  {[by |-> None, gen |-> g, idx |-> i, value |-> values[i], paid |-> i \in paid, live |-> TRUE] : i \in I}
PlainCash(e, x) == Entries(NextGen(e), [i \in Indexes(x) |-> x.price], x.paid, Indexes(x))

Retained(e) == {c \in cash[e] : \E f \in Active : f.tgt = e
  /\ (c.by = f.key \/ (c.by = None /\ c.gen = f.gen /\ c.idx = f.idx))}

\* Mutant: funded installments get new entries as well.
TargetCashOfAll(e, x, rows) ==
  LET real(i) == {r \in rows : r.tgt = e /\ r.idx = i}
      values == [i \in Indexes(x) |-> IF real(i) = {} THEN x.price ELSE (CHOOSE r \in real(i) : TRUE).real]
  IN Retained(e) \cup Entries(NextGen(e), values, x.paid \cup {i \in Indexes(x) : real(i) # {}}, Indexes(x))

TargetCash(e, x, rows) ==
  LET real(i) == {r \in rows : r.tgt = e /\ r.idx = i}
      values == [i \in Indexes(x) |-> IF real(i) = {} THEN x.price ELSE (CHOOSE r \in real(i) : TRUE).real]
      open == {i \in Indexes(x) : FundingOf(e, i) = {}}
  IN Retained(e) \cup Entries(NextGen(e), values, x.paid \cup {i \in Indexes(x) : real(i) # {}}, open)

Init ==
  /\ expense = [e \in Expenses |-> [alive |-> TRUE, price |-> Price[e], count |-> Count[e],
       paid |-> IF e \in Settled THEN 0..(Count[e] - 1) ELSE {}, link |-> Nobody]]
  /\ cash = [e \in Expenses |->
       Entries(1, [i \in 0..(Count[e] - 1) |-> Price[e]], expense[e].paid, 0..(Count[e] - 1))]
  /\ funding = {} /\ legacy = {} /\ share = {}
  /\ planned = [e \in Expenses |-> Plan(expense[e])]

-----------------------------------------------------------------------------
(* Additive settlements.                                                   *)

GuardActiveFunding(E) == \A e \in E : ~InFunding(e)

(* No link, rateio or series takes part; a legacy mirror of a sibling may. *)
Ordinary(e, mirrors) ==
  /\ expense[e].link = Nobody /\ ~InRateio(e)
  /\ \A o \in Expenses \ mirrors : expense[o].alive => expense[o].link # e
Debit(s) ==
  /\ expense[s].count = 1 /\ expense[s].paid = {0}
  /\ Cardinality(Live(s)) = 1 /\ \A c \in Live(s) : c.paid /\ c.value = expense[s].price

Remaining(t, i) == expense[t].price - Amount(FundingOf(t, i))
Available(s) == expense[s].price - Amount(FundedBy(s))
Pending(t, i) == {c \in cash[t] : c.idx = i /\ ~c.paid
  /\ IF FundingOf(t, i) = {} THEN c.live
     ELSE c.by = None /\ \A f \in FundingOf(t, i) : c.gen = f.gen}

TargetOccurrence(t, i) ==
  /\ i \in Indexes(expense[t]) /\ SettlementOf(t, i) = {} /\ Remaining(t, i) >= 0
  /\ Cardinality(Pending(t, i)) = 1
  /\ \A c \in Pending(t, i) : c.value = Remaining(t, i) /\ (c.live <=> Remaining(t, i) # 0)
  /\ \A f \in FundingOf(t, i) : f.planned = expense[t].price
  /\ \A c \in Live(t) : c.idx = i => c \in Pending(t, i) \/ \E f \in FundingOf(t, i) : c.by = f.key
  /\ i \in expense[t].paid <=> Remaining(t, i) = 0

SourceProof(s) == [root |-> expense[s], cash |-> cash[s]]
TargetProof(t) == [price |-> expense[t].price, count |-> expense[t].count, link |-> expense[t].link]
Proven(f) ==
  /\ expense[f.src].alive /\ expense[f.tgt].alive
  /\ \E c \in Live(f.tgt) : c.by = f.key /\ c.value = f.amount
  /\ f.proof = SourceProof(f.src) /\ f.root = TargetProof(f.tgt)

(* What applying, repeating and undoing a funding all demand.              *)
Context(s, t, i) ==
  /\ expense[s].alive /\ expense[t].alive /\ Project[s] # Project[t]
  /\ Ordinary(s, {}) /\ Ordinary(t, {r.src : r \in {q \in legacy : q.tgt = t}})
  /\ Debit(s) /\ TargetOccurrence(t, i) /\ SettledBy(s) = {}
  /\ \A f \in FundedBy(s) \cup FundingOf(t, i) : Proven(f)
  /\ Available(s) >= 0

(* The pending entry keeps its identity and the balance that remains.      *)
ProjectTarget(t, i, remaining, projections) ==
  LET p == CHOOSE c \in Pending(t, i) : TRUE
      kept == {c \in cash[t] : c # p /\ c.by \notin {f.key : f \in FundingOf(t, i)}}
  IN /\ cash' = [cash EXCEPT ![t] = kept \cup projections
                   \cup {[p EXCEPT !.value = remaining, !.live = remaining # 0]}]
     /\ expense' = [expense EXCEPT ![t].paid = IF remaining = 0 THEN @ \cup {i} ELSE @ \ {i}]

ProjectionsOf(F) ==
  {[by |-> f.key, gen |-> None, idx |-> f.idx, value |-> f.amount, paid |-> TRUE, live |-> TRUE] : f \in F}

\* Mutant: an undone request may be sent again.
UnusedByActive(k) == \A f \in Active : f.key # k

(* A key that has a row already only reads: the same content gets its      *)
(* answer again, another one a refusal.                                    *)
Unused(k) == \A f \in funding : f.key # k

Affordable(c) ==
  /\ \A f \in FundingOf(c.tgt, c.idx) : f.src # c.src
  /\ c.amount <= Remaining(c.tgt, c.idx) /\ c.amount <= Available(c.src)

ApplyParcelaFunding(k, c) ==
  /\ Unused(k) /\ Context(c.src, c.tgt, c.idx) /\ Affordable(c)
  /\ LET p == CHOOSE q \in Pending(c.tgt, c.idx) : TRUE
         row == [key |-> k, src |-> c.src, tgt |-> c.tgt, idx |-> c.idx, amount |-> c.amount,
                 planned |-> expense[c.tgt].price, gen |-> p.gen, proof |-> SourceProof(c.src),
                 root |-> TargetProof(c.tgt), reversed |-> FALSE]
     IN /\ funding' = funding \cup {row}
        /\ ProjectTarget(c.tgt, c.idx, Remaining(c.tgt, c.idx) - c.amount,
                         ProjectionsOf(FundingOf(c.tgt, c.idx) \cup {row}))
  /\ UNCHANGED <<legacy, share>>

UndoParcelaFunding(f) ==
  /\ Context(f.src, f.tgt, f.idx)
  /\ funding' = (funding \ {f}) \cup {[f EXCEPT !.reversed = TRUE]}
  /\ ProjectTarget(f.tgt, f.idx, Remaining(f.tgt, f.idx) + f.amount,
                   ProjectionsOf(FundingOf(f.tgt, f.idx) \ {f}))
  /\ UNCHANGED <<legacy, share>>

-----------------------------------------------------------------------------
(* Legacy settlements.                                                     *)

Gone(x) == [x EXCEPT !.alive = FALSE, !.link = Nobody]

(* The mirror that another debit replaces is removed with its entries.     *)
SettleTargetParcela(s, t, i, real) ==
  LET old == SettlementOf(t, i)
      ousted == {r.src : r \in old} \ {s}
      wasPaid == IF old = {} THEN i \in expense[t].paid ELSE \E r \in old : r.wasPaid
      rows == (legacy \ old) \cup {[src |-> s, tgt |-> t, idx |-> i, real |-> real, wasPaid |-> wasPaid]}
      target == [expense[t] EXCEPT !.paid = @ \cup {i}]
  IN /\ expense[s].alive /\ expense[t].alive /\ Project[s] # Project[t] /\ i \in Indexes(expense[t])
     /\ SharedBy(s) = {} /\ ~Rated(t)
     /\ GuardActiveFunding({s}) /\ FundingOf(t, i) = {}
     /\ legacy' = rows
     /\ expense' = [e \in Expenses |->
          IF e = t THEN target
          ELSE IF e = s THEN [expense[s] EXCEPT !.link = t]
          ELSE IF e \in ousted THEN Gone(expense[e]) ELSE expense[e]]
     /\ cash' = [e \in Expenses |->
          IF e = t THEN TargetCash(t, target, rows) ELSE IF e \in ousted THEN {} ELSE cash[e]]
     /\ UNCHANGED <<funding, share>>

Reopened(s, t) ==
  [expense[t] EXCEPT !.paid = @ \ {r.idx : r \in {q \in SettledBy(s) : q.tgt = t /\ ~q.wasPaid}}]
Forget(x, E) == IF x.alive /\ x.link \in E THEN [x EXCEPT !.link = Nobody] ELSE x

(* Undoing every settlement of s removes s, the mirror; a removal also     *)
(* drops the links to it.                                                  *)
UnsettleBySource(s, unlinked) ==
  LET rows == legacy \ SettledBy(s)
      targets == {t \in {r.tgt : r \in SettledBy(s)} : expense[t].alive}
  IN /\ SettledBy(s) # {} /\ GuardActiveFunding({s})
     /\ legacy' = rows
     /\ expense' = [e \in Expenses |->
          IF e = s THEN Gone(expense[s])
          ELSE IF e \in targets THEN Forget(Reopened(s, e), unlinked) ELSE Forget(expense[e], unlinked)]
     /\ cash' = [e \in Expenses |->
          IF e = s THEN {}
          ELSE IF e \in targets THEN TargetCash(e, Reopened(s, e), rows) ELSE cash[e]]
     /\ UNCHANGED <<funding, share>>

-----------------------------------------------------------------------------
(* Rateios.                                                                *)

TargetsOf(s) == {r.tgt : r \in SharedBy(s)}
PlanOf(t) == CHOOSE p \in {r.plan : r \in {q \in share : q.tgt = t}} : TRUE

\* Mutant: the value comes back, the schedule does not.
RestoredValue(s, e) ==
  IF e \in TargetsOf(s) /\ expense[e].alive
  THEN [expense[e] EXCEPT !.price = (PlanOf(e).price * PlanOf(e).count) \div expense[e].count]
  ELSE IF e = s /\ TargetsOf(s) # {} THEN [expense[s] EXCEPT !.link = Nobody] ELSE expense[e]

Restored(s, e) ==
  IF e \in TargetsOf(s) /\ expense[e].alive
  THEN [expense[e] EXCEPT !.price = PlanOf(e).price, !.count = PlanOf(e).count, !.paid = PlanOf(e).paid]
  ELSE IF e = s /\ TargetsOf(s) # {} THEN [expense[s] EXCEPT !.link = Nobody] ELSE expense[e]

UnratearSource(s, removed, unlinked) ==
  /\ SharedBy(s) # {}
  /\ share' = share \ SharedBy(s)
  /\ expense' = [e \in Expenses |->
       IF e = s /\ removed THEN Gone(expense[s]) ELSE Forget(Restored(s, e), unlinked)]
  /\ cash' = [e \in Expenses |->
       IF e = s /\ removed THEN {}
       ELSE IF e \in TargetsOf(s) /\ expense[e].alive THEN TargetCash(e, Restored(s, e), legacy)
       ELSE cash[e]]
  /\ UNCHANGED <<funding, legacy>>

Shareable(s, parts) ==
  LET targets == DOMAIN parts
  IN /\ expense[s].alive /\ ~Rated(s) /\ SettledBy(s) = {}
     /\ GuardActiveFunding({s} \cup targets)
     /\ SumFunction(parts) = Total(expense[s])
     /\ \A t \in targets :
          /\ expense[t].alive /\ Project[t] # Project[s] /\ SharedBy(t) = {} /\ parts[t] > 0
          /\ \A r \in share : r.tgt = t => r.src = s
          /\ \A r \in legacy : r.tgt # t

(* The targets take the schedule of the source, scaled to their parts; an  *)
(* earlier rateio of the same source is undone first.                      *)
Aligned(x, s, part) ==
  [x EXCEPT !.price = part \div expense[s].count, !.count = expense[s].count, !.paid = expense[s].paid]
RatearSource(s, parts) ==
  LET targets == DOMAIN parts
      aligned(t) == Aligned(Restored(s, t), s, parts[t])
  IN /\ Shareable(s, parts)
     /\ share' = (share \ SharedBy(s)) \cup
          {[src |-> s, tgt |-> t, part |-> parts[t], plan |-> Plan(Restored(s, t))] : t \in targets}
     /\ \E first \in targets :
          expense' = [e \in Expenses |->
            IF e \in targets THEN aligned(e)
            ELSE IF e = s THEN [expense[s] EXCEPT !.link = first] ELSE Restored(s, e)]
     /\ cash' = [e \in Expenses |->
          IF e \in targets THEN PlainCash(e, aligned(e))
          ELSE IF e \in TargetsOf(s) THEN TargetCash(e, Restored(s, e), legacy) ELSE cash[e]]
     /\ UNCHANGED <<funding, legacy>>

(* desconciliar, unlinkExpense and the undo of an import.                  *)
ReverseSourceLinks(s) ==
  /\ expense[s].alive
  /\ IF SharedBy(s) # {} THEN UnratearSource(s, FALSE, {}) ELSE UnsettleBySource(s, {})

-----------------------------------------------------------------------------
(* Links, edits and removals.                                              *)

\* Mutant: the source of a rateio may be linked elsewhere.
MayRelinkInRateio(s) == ~InFunding(s) /\ SettledBy(s) = {}

MayRelink(s) == ~InRateio(s) /\ ~InFunding(s) /\ SettledBy(s) = {}

LinkCrossProject(s, t) ==
  /\ expense[s].alive /\ expense[t].alive /\ Project[s] # Project[t] /\ expense[s].link # t
  /\ GuardActiveFunding({t}) /\ MayRelink(s)
  /\ expense' = [expense EXCEPT ![s].link = t]
  /\ UNCHANGED <<cash, funding, legacy, share>>

UnlinkCrossProject(s) ==
  /\ expense[s].alive /\ MayRelink(s)
  /\ expense' = [expense EXCEPT ![s].link = Nobody]
  /\ UNCHANGED <<cash, funding, legacy, share>>

LinkedTo(e) == {o \in Expenses : expense[o].alive /\ (o = expense[e].link \/ expense[o].link = e)}

(* An edit of the value is copied to the other side of an ordinary pair.   *)
Priced(x, v) == [x EXCEPT !.price = v, !.paid = IF @ = Indexes(x) THEN @ ELSE {}]
Update(e, v) ==
  LET changed == {e} \cup {o \in LinkedTo(e) : ~InSettlement(o) /\ ~InRateio(o) /\ expense[o].price # v}
  IN /\ expense[e].alive /\ expense[e].price # v /\ ~InRateio(e) /\ ~InSettlement(e)
     /\ expense' = [o \in Expenses |-> IF o \in changed THEN Priced(expense[o], v) ELSE expense[o]]
     /\ cash' = [o \in Expenses |-> IF o \in changed THEN PlainCash(o, Priced(expense[o], v)) ELSE cash[o]]
     /\ UNCHANGED <<funding, legacy, share>>

SetParcelaStatus(e, i, paid) ==
  LET x == [expense[e] EXCEPT !.paid = IF paid THEN @ \cup {i} ELSE @ \ {i}]
  IN /\ expense[e].alive /\ expense[e].count > 1 /\ i \in Indexes(expense[e])
     /\ ~InRateio(e) /\ GuardActiveFunding({e})
     /\ expense' = [expense EXCEPT ![e] = x]
     /\ cash' = [cash EXCEPT ![e] = PlainCash(e, x)]
     /\ UNCHANGED <<funding, legacy, share>>

(* Another date for one installment: entries are rebuilt, those of a       *)
(* settled target with its real values, those of an ordinary pair twice.   *)
UpdateInstallmentDate(e, i) ==
  LET target == \E r \in legacy : r.tgt = e
      pair == IF target \/ SharedBy(e) # {} THEN {} ELSE {o \in LinkedTo(e) : ~InSettlement(o)}
  IN /\ expense[e].alive /\ expense[e].count > 1 /\ i \in Indexes(expense[e])
     /\ GuardActiveFunding({e}) /\ ~Rated(e) /\ SettledBy(e) = {}
     /\ \A o \in pair : expense[o].count > 1 /\ i < expense[o].count
     /\ cash' = [o \in Expenses |->
          IF o = e /\ target THEN TargetCash(e, expense[e], legacy)
          ELSE IF o \in {e} \cup pair \cup TargetsOf(e) THEN PlainCash(o, expense[o]) ELSE cash[o]]
     /\ UNCHANGED <<expense, funding, legacy, share>>

RemovePair(e) ==
  LET gone == {e} \cup {o \in LinkedTo(e) : ~InSettlement(e) /\ ~InSettlement(o) /\ ~InRateio(o)}
  IN /\ expense' = [o \in Expenses |->
          IF o \in gone THEN [expense[o] EXCEPT !.alive = FALSE] ELSE Forget(expense[o], gone)]
     /\ cash' = [o \in Expenses |-> IF o \in gone THEN {} ELSE cash[o]]
     /\ UNCHANGED <<funding, legacy, share>>

\* Mutant: a mirror is removed like any other expense.
RemoveAsPair(e) ==
  /\ expense[e].alive /\ ~InRateio(e) /\ ~InFunding(e) /\ RemovePair(e)

Remove(e) ==
  /\ expense[e].alive /\ ~Rated(e)
  /\ \/ SharedBy(e) # {} /\ UnratearSource(e, TRUE, {e})
     \/ /\ SharedBy(e) = {} /\ ~InFunding(e) /\ \A r \in legacy : r.tgt # e
        /\ IF SettledBy(e) # {} THEN UnsettleBySource(e, {e}) ELSE RemovePair(e)

-----------------------------------------------------------------------------
Operation ==
  \/ \E k \in Keys, c \in Commands : ApplyParcelaFunding(k, c)
  \/ \E f \in Active : UndoParcelaFunding(f)
  \/ \E c \in Settles : SettleTargetParcela(c.src, c.tgt, c.idx, c.real)
  \/ \E c \in Splits : RatearSource(c.src, c.parts)
  \/ \E s \in Expenses : ReverseSourceLinks(s)
  \/ \E l \in Links : LinkCrossProject(l[1], l[2])
  \/ \E l \in Links : UnlinkCrossProject(l[1])
  \/ \E e \in Edited, v \in Prices : Update(e, v)
  \/ \E e \in Toggled, paid \in BOOLEAN : \E i \in Indexes(expense[e]) : SetParcelaStatus(e, i, paid)
  \/ \E e \in Moved : \E i \in Indexes(expense[e]) : UpdateInstallmentDate(e, i)
  \/ \E e \in Removed : Remove(e)

Next ==
  /\ Operation
  /\ planned' = [e \in Expenses |->
       IF \E r \in share' : r.tgt = e THEN planned[e] ELSE Plan(expense'[e])]

Spec == Init /\ [][Next]_vars

-----------------------------------------------------------------------------
TypeOK ==
  /\ \A e \in Expenses :
       /\ expense[e].alive \in BOOLEAN /\ expense[e].price \in Nat /\ expense[e].count \in Nat \ {0}
       /\ expense[e].paid \subseteq Indexes(expense[e]) /\ expense[e].link \in Expenses \cup {Nobody}
       /\ \A c \in cash[e] : c.value \in Nat /\ c.by \in Keys \cup {None}
  /\ \A f \in funding : f.key \in Keys /\ {f.src, f.tgt} \subseteq Expenses /\ f.amount \in Nat \ {0}
  /\ \A r \in legacy : {r.src, r.tgt} \subseteq Expenses
  /\ \A r \in share : {r.src, r.tgt} \subseteq Expenses /\ r.part \in Nat \ {0}

(* A debit never funds more than it paid, and an installment that is being *)
(* funded shows in its project's cash flow exactly its contracted value:   *)
(* what was paid, once, and the rest; it is paid when nothing is left.     *)
FundingBalances ==
  /\ \A s \in Expenses : Amount(FundedBy(s)) <= expense[s].price
  /\ \A f \in Active :
       LET shown == {c \in Live(f.tgt) : c.idx = f.idx}
           rest == {c \in shown : ~c.paid}
       IN /\ Sum(shown) = expense[f.tgt].price
          /\ Sum(shown \ rest) = Amount(FundingOf(f.tgt, f.idx))
          /\ f.idx \in expense[f.tgt].paid <=> rest = {}

(* Whatever happens to its participants, an active funding can be undone:  *)
(* nothing it has proof of changes behind its back.  Every edit of its     *)
(* participants waits for that undo, so they would be frozen for good.     *)
FundingCanBeUndone == \A f \in Active : Context(f.src, f.tgt, f.idx)

(* A request key moves money once: repeating it, even after its undo,      *)
(* neither applies nor revives anything, and its row keeps its content.    *)
KeysAreSpent ==
  [][/\ \A f \in funding : f \in funding' \/ [f EXCEPT !.reversed = TRUE] \in funding'
     /\ \A f, g \in funding' : f.key = g.key => f = g]_vars

(* A target is never settled by installment and shared out at once, nor is *)
(* a source: either would overwrite the cash flow of the other.            *)
SettledOrShared ==
  \A r \in share : (\A l \in legacy : l.tgt # r.tgt /\ l.src # r.src) /\ ~InFunding(r.tgt)

(* The parts of a rateio add up to the purchase for as long as it lasts,   *)
(* and the expenses show them; the source lives on as their mirror.        *)
SharesAddUp ==
  \A r \in share :
    /\ SumFunction([q \in SharedBy(r.src) |-> q.part]) = Total(expense[r.src])
    /\ expense[r.tgt].alive /\ Total(expense[r.tgt]) = r.part
    /\ Sum(Live(r.tgt)) = r.part
    /\ expense[r.src].alive /\ expense[r.src].link \in TargetsOf(r.src)

(* When a rateio ends, by its undo, by a removal or by a new one without   *)
(* the target, the target has again the plan it had before the first one.  *)
PlansComeBack ==
  [][\A t \in Expenses : (Rated(t) /\ \A r \in share' : r.tgt # t) => Plan(expense'[t]) = planned[t]]_vars

(* A settled installment shows in its project's cash flow as paid, with    *)
(* the real value and not the planned one.                                 *)
RealValueIsShown ==
  \A r \in legacy : \E c \in Live(r.tgt) : c.idx = r.idx /\ c.paid /\ c.value = r.real

(* The debit that settled an installment lives on as its mirror.           *)
SettledByALiveMirror == \A r \in legacy : expense[r.src].alive /\ expense[r.src].link = r.tgt

(* Fundings balance and can be undone, whatever happens beside them.       *)
FundingsStand == TypeOK /\ FundingBalances /\ FundingCanBeUndone

(* A settled installment keeps its real value and the debit it came from.  *)
SettlementsStand == RealValueIsShown /\ SettledByALiveMirror

(* A rateio adds up, and nothing else writes to what it shares out.        *)
SharesStand == SettledOrShared /\ SharesAddUp
=============================================================================
