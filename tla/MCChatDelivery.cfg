\* Two attempts, one tolerated stall, two faults, cancellation.
SPECIFICATION FairSpec
CONSTANTS
  w1 = w1
  w2 = w2
  h1 = h1
  h2 = h2
  nobody = nobody
  ghost = ghost
  Workers <- MCWorkers
  Handlers <- MCHandlers
  Nobody <- nobody
  Ghost <- ghost
  MaxAttempts = 2
  MaxStalled = 1
  MayCancel = TRUE
  MaxFaults = 2
INVARIANTS
  TypeOK
  DurableFactsAgree
  StreamFollowsDatabase
  DoneMeansDone
PROPERTIES
  ImplementsLifecycle
  TurnsEnd
ACTION_CONSTRAINT IdleSlotsAreAlike
\* The turn ends.
CHECK_DEADLOCK FALSE
