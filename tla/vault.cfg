\* Attachment ids are finite, so the vault comes to rest: no deadlock check.
SPECIFICATION Spec
CONSTANTS
  r1 = r1
  r2 = r2
  r3 = r3
  s1 = s1
  s2 = s2
  s3 = s3
  alice = alice
  bob = bob
  invoice = invoice
  None = None
  Refs = {r1, r2, r3}
  Artifacts = {a1, a2}
  Sessions = {s1, s2, s3}
  Scanned = {invoice}
  Readers = {r1, r2}
  Late = {s3}
  DocOf <- OneDocument
  Owner <- Owners
  HomeOf <- Homes
  MaxUploads = 2
  WriteAttempts = 3
  MaxMishaps = 1
SYMMETRY ArtifactNames
CONSTRAINT Case
CHECK_DEADLOCK FALSE

INVARIANTS
  FilesAreSafe
  UploadsWithinLimits
  SessionHoldsDocumentOnce
  RetirementIsClean

PROPERTIES
  TombstonesAreFinal
  ImplementsCustody
