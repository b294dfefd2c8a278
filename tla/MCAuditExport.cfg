\* Two attempts, one tolerated stall, two mishaps.
SPECIFICATION FairSpec
CONSTANTS
  w1 = w1
  w2 = w2
  h1 = h1
  nobody = nobody
  ghost = ghost
  Workers <- MCWorkers
  Handlers <- MCHandlers
  Nobody <- nobody
  Ghost <- ghost
  MaxAttempts = 2
  MaxStalled = 1
  MaxFaults = 2
ACTION_CONSTRAINTS
  IdleSlotsAreAlike
  SecondWhenOvertaken
INVARIANTS
  TypeOK
  SelectedIsSound
PROPERTIES
  KeepsPromise
  MaintenanceSparesRunning
  ExportsEnd
\* The export ends.
CHECK_DEADLOCK FALSE
