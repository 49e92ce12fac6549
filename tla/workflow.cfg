\* Requests are finite: no deadlock check.
SPECIFICATION Spec
CONSTANTS
  s1 = s1
  s2 = s2
  c1 = c1
  d1 = d1
  d2 = d2
  d3 = d3
  o1 = o1
  o2 = o2
  o3 = o3
  p1 = p1
  p2 = p2
  x1 = x1
  x2 = x2
  f1 = f1
  f2 = f2
  n1 = n1
  n2 = n2
  None = None
  Opened = {s1, s2}
  Continuations = {c1}
  Documents = {d1, d2, d3}
  Observations = {o1, o2, o3}
  DocOf <- DocumentOf
  Openings <- ThreeWays
  Scanned = {o1, o2}
  Purchases = {p1, p2}
  PurchaseOf <- PurchaseAs
  Installments = {p1}
  External = {x1, x2}
  ExternalPurchase <- Elsewhere
  ExternalKey <- KeysOf
  FinIds = {f1, f2}
  Nonces = {n1, n2}
  MaxRev = 6
  MaxVersion = 1
SYMMETRY Alike
CONSTRAINT Case
CHECK_DEADLOCK FALSE

INVARIANTS
  ClaimsAreSound

PROPERTIES
  BookedAsShown
  NoSilentDuplicates
  ImplementsFinancialRequests
