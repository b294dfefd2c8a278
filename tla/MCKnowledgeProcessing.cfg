\* Both modes, two workers, two requests, one editor, one mishap.
SPECIFICATION FairSpec
CONSTANTS
  w1 = w1
  w2 = w2
  q1 = q1
  q2 = q2
  e1 = e1
  e2 = e2
  Workers = {w1, w2}
  Requests = {q1, q2}
  Editors = {e1}
  Nobody = Nobody
  Ghost = Ghost
  Modes <- MCBothModes
  MaxJobs = 2
  MaxVersions = 2
  MaxAttempts = 2
  MaxStalled = 1
  MaxFaults = 1
INVARIANTS TypeOK DocumentsAreSound
PROPERTIES RunsAndEditsSpareEachOther EndsOrIsVisiblyLost
ACTION_CONSTRAINT IdleSlotsAreAlike
CHECK_DEADLOCK FALSE
