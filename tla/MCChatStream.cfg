\* Two events or three units kept; the keys expire once, the page reloads once.
SPECIFICATION StreamSpec
CONSTANTS
  t1 = t1
  Tabs <- MCTabs
  Chunks <- MCShortChunks
  BytesOf <- MCBytes
  MaxEvents = 2
  MaxBytes = 3
  PageLimit = 2
  MaxExpiries = 1
  MaxReloads = 1
INVARIANTS
  StreamTypeOK
  ReplayIsSound
CHECK_DEADLOCK FALSE
