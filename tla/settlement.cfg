\* Debits fund, settle, are shared out and linked while people edit, toggle, move and remove the same expenses.
\* The expenses may all be removed in the end: no deadlock check.
SPECIFICATION Spec
CONSTANTS
  Expenses = {"A", "B", "C", "T", "U"}
  Project <- ProjectOf
  Price <- PriceOf
  Count <- CountOf
  Settled = {"A", "B", "C"}
  Keys = {1, 2}
  Commands <- Fundings
  Settles <- ByBOrC
  Splits <- TwoSplits
  Links <- LinkBT
  Prices = {2}
  Edited = {"A", "T"}
  Toggled = {"T"}
  Moved = {"T"}
  Removed = {"A", "B", "T", "U"}
CONSTRAINT Case
CHECK_DEADLOCK FALSE

INVARIANTS
  FundingsStand
  SettlementsStand
  SharesStand

PROPERTIES
  KeysAreSpent
  PlansComeBack
