\* Two sessions hold the same scanned document; OCR is asked for twice, adopted, kept and lost; a mishap or a continuation.
\* Requests are finite: no deadlock check.
SPECIFICATION Spec
CONSTANTS
  t1 = t1
  t2 = t2
  s1 = s1
  s2 = s2
  s3 = s3
  a1 = a1
  p1 = p1
  p2 = p2
  p3 = p3
  q1 = q1
  None = None
  Attachments = {t1, t2}
  Artifacts = {a1}
  Sessions = {s1, s2, s3}
  Late = {s3}
  Runs = {p1, p2, p3}
  Requests = {q1}
  ArtOf <- SharedDoc
  HomeOf <- SharedHome
  Target <- SharedTarget
  RequestOf <- OcrThenAdopt
  Scanned = {a1}
  Dense = {a1}
  MaxParsers = 1
  MaxRev = 2
  MaxMishaps = 1
SYMMETRY RunNames
CONSTRAINT Case
CHECK_DEADLOCK FALSE

INVARIANTS
  OnlyOnce
  ResultsAreTrue
  NothingIsLeftBehind
