\* Two dispatchers, two events, one fault of any kind and one operator requeue.
CONSTANTS
  w1 = w1
  w2 = w2
  w3 = w3
  nobody = nobody
  NoWorker <- nobody
  Workers <- MCWorkers
  NumEvents = 2
  MaxAttempts = 2
  BatchLimit = 2
  MaxRequeues = 1
  MaxFaults = 1
SPECIFICATION FairSpec
INVARIANTS TypeOK OutcomesAreEarned OneWorkerPerEvent
PROPERTIES KeepsPromise EveryEventSettles
CHECK_DEADLOCK FALSE
