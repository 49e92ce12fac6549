\* Two scopes, pages of one; in one scope two sessions, a limit of two and an upload whose descriptor is never closed.
SPECIFICATION JobFairSpec
CONSTANTS
  Ids = {1, 2}
  Limit = 2
  HeldFiles = {1}
  HeldDocs = {}
  MaxMishaps = 1
  Scopes = {1, 2}
  Mine = 1
  ScopesPerCycle = 1
  MaxFailures = 1
  MaxRestarts = 1

PROPERTIES
  PagesAreSound
  NothingIsPassedOver
  EveryScopeIsServed
