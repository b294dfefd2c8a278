SPECIFICATION Spec
CONSTANTS
  s1 = s1
  s2 = s2
  s3 = s3
  nobody = nobody
  Sealers <- MCSealers
  Nobody <- nobody
  Guards = 1
  Pairs = 2
  MaxFaults = 2
SYMMETRY MCSymmetry
ACTION_CONSTRAINTS
  LooksWhenItMatters
  ThirdTakesOver
INVARIANTS
  TypeOK
  JournalIsTrue
  SealingIsSound
\* The attempt ends, and so do the seal commands.
CHECK_DEADLOCK FALSE
