\* Two operators; one death, failed kill or restart of the machine.
\* When Node is back nothing has to happen any more: no deadlock check.
SPECIFICATION FairSpec
CONSTANTS
  Clients = {c1, c2}
  TTL = 6
  OpTimeout = 1
  KillAfter = 1
  Margin = 1
  LockWait = 4
  Commands <- CommandsOf
  MaxTime = 10
  MaxRequests = 2
  MaxFaults = 1
  c1 = c1
  c2 = c2
CHECK_DEADLOCK FALSE

INVARIANTS
  WindowIsSafe
  PointerIsComplete
  ChainOverByDeadline

PROPERTIES
  RequestsAreHonoured
  NodeComesBack
