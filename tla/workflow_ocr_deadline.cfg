\* A confirmed request meets the deadline of its OCR content.
\* Requests are finite: no deadlock check.
SPECIFICATION FairSpec
CONSTANTS
  s1 = s1
  s2 = s2
  c1 = c1
  d1 = d1
  d2 = d2
  d3 = d3
  o1 = o1
  o2 = o2
  o3 = o3
  p1 = p1
  p2 = p2
  x1 = x1
  x2 = x2
  f1 = f1
  f2 = f2
  n1 = n1
  n2 = n2
  None = None
  Opened = {s1}
  Continuations = {}
  Documents = {d1, d2, d3}
  Observations = {o1, o2, o3}
  DocOf <- DocumentOf
  Openings <- OneScanned
  Scanned = {o1, o2}
  Purchases = {p1, p2}
  PurchaseOf <- PurchaseAs
  Installments = {p1}
  External = {x1, x2}
  ExternalPurchase <- Elsewhere
  ExternalKey <- KeysOf
  FinIds = {f1}
  Nonces = {n1}
  MaxRev = 5
  MaxVersion = 0
CHECK_DEADLOCK FALSE
PROPERTIES
  RequestsAreSettled
