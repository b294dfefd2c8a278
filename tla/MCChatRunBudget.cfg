SPECIFICATION Spec
CONSTANTS
  worker = worker
  router = router
  final = final
  r1 = r1
  r2 = r2
  Ids <- MCIds
  Runners <- MCRunners
  Request <- MCRequest
  MaxCalls = 2
  MaxCost = 2
SYMMETRY MCSymmetry
INVARIANTS
  TypeOK
  LedgerIsSound
  StagesAreAccounted
PROPERTY FollowsLifecycle
