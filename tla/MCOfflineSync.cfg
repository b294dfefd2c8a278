\* Two tabs, two tasks, two commands of any kind, one rating by the old endpoint, one
\* mishap.
SPECIFICATION FairSpec
CONSTANTS
  p1 = p1
  p2 = p2
  question1 = question1
  Tabs <- MCTabs
  Question <- question1
  MaxTasks = 2
  MaxCommands = 2
  MaxDirect = 1
  MaxFaults = 1
ACTION_CONSTRAINTS
  FirstTabAsksFirst
  OldEndpointBesideRatings
INVARIANTS
  TypeOK
  ReviewsAgree
  RatingsKept
PROPERTIES
  QueueDrains
\* The bounds end: nothing is left to do.
CHECK_DEADLOCK FALSE
