\* Two launches, each with two pieces of work; every launch ends: no deadlock check.
SPECIFICATION TimerSpec
CONSTANTS
  p1 = p1
  p2 = p2
  i1 = i1
  i2 = i2
  upload = upload
  read = read
  erase = erase
  NoInode = NoInode
  Nobody = Nobody
  Process = {p1, p2}
  Inode = {i1, i2}
  Work = {upload, erase}
  Erasure = {erase}
  Operations = 1
  MaxReplace = 1
CHECK_DEADLOCK FALSE

INVARIANTS
  SoleUser
  StoppedIsQuiet

PROPERTIES
  EndsAreReached
  ReplacedFallsSilent
