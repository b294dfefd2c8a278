\* Bounds the stream never reaches, one reload, fairness of the loop.
SPECIFICATION FairSpec
CONSTANTS
  t1 = t1
  Tabs <- MCTabs
  Chunks <- MCSameChunks
  BytesOf <- MCBytes
  MaxEvents = 8
  MaxBytes = 12
  PageLimit = 1
  MaxExpiries = 0
  MaxReloads = 1
INVARIANT ChunksShownOnce
PROPERTIES FollowersFinish RecordHolds
CHECK_DEADLOCK FALSE
