\* An edit is merged into the one that is being sent, and removed with it.
SPECIFICATION Spec
CONSTANTS
  p1 = p1
  p2 = p2
  question1 = question1
  Tabs <- MCTabs
  Question <- question1
  MaxTasks = 1
  MaxCommands = 2
  MaxDirect = 0
  MaxFaults = 2
INVARIANTS
  EditsKept
CHECK_DEADLOCK FALSE
