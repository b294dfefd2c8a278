\* Four requests, two at a time; four texts, one replacement, one failing Redis call.
SPECIFICATION Spec
CONSTANTS
  r1 = r1
  r2 = r2
  Requests <- MCRequests
  Patches <- MCPatches
  MaxPrepares = 4
  MaxTexts = 4
  MaxSyncs = 1
  MaxFaults = 1
SYMMETRY MCSymmetry
CONSTRAINT OneHalfAtATime
INVARIANTS
  TypeOK
PROPERTIES
  StateIsSound
  SummaryIsSound
\* Every request is answered, the conversation may be gone.
CHECK_DEADLOCK FALSE
