\* A worker that lost its lock finishes after the turn failed.
SPECIFICATION Spec
CONSTANTS
  w1 = w1
  w2 = w2
  h1 = h1
  h2 = h2
  nobody = nobody
  ghost = ghost
  Workers <- MCWorkers
  Handlers <- MCHandlers
  Nobody <- nobody
  Ghost <- ghost
  MaxAttempts = 2
  MaxStalled = 1
  MayCancel = FALSE
  MaxFaults = 2
SYMMETRY MCSymmetry
INVARIANT CompletedMeansAnswered
CHECK_DEADLOCK FALSE
