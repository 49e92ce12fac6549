\* Purchases may all be removed in the end: no deadlock check.
SPECIFICATION Spec
CONSTANTS
  Purchases = {"A", "B", "C"}
  Count <- TwoAndOne
  FirstDue <- AllFromOne
  Price <- Prices
  Rise = 1
  Statement = {"A", "B"}
  StatementTotal = 12
  Months = {1, 2}
  Manual = {1, 2}
  Imported = {3, 4}
  Amount <- Amounts
  PayMonth <- InMonthOne
  Payload <- OwnPayload
  Tolerance = 2
  Undos = {1, 2}
  Liquidations = {1}
CONSTRAINT Case
CHECK_DEADLOCK FALSE

INVARIANTS
  InstallmentsAreSound
  TrailIsSound

PROPERTIES
  UndoesAreExact
