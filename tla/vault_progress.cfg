\* Attachment ids are finite, so the vault comes to rest: no deadlock check.
SPECIFICATION FairSpec
CONSTANTS
  r1 = r1
  r2 = r2
  r3 = r3
  s1 = s1
  s2 = s2
  s3 = s3
  alice = alice
  bob = bob
  invoice = invoice
  None = None
  Refs = {r1, r2}
  Artifacts = {a1}
  Sessions = {s1, s2}
  Scanned = {}
  Readers = {}
  Late = {}
  DocOf <- OneDocument
  Owner <- Owners
  HomeOf <- Homes
  MaxUploads = 2
  WriteAttempts = 2
  MaxMishaps = 1
CHECK_DEADLOCK FALSE

INVARIANTS
  AttachedHasBytes

PROPERTIES
  StorageIsReclaimed
  UploadsAreAnswered
