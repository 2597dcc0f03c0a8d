SPECIFICATION Spec
CONSTANTS
  w1 = w1  worker = worker  verifier = verifier  paid = paid
  Items = {w1}
  InitialGraph <- Graph1
  PlanGraph <- NoPlan
  DependsOn <- NoDependencies
  OperatorMoves = {"ready"}
  ByHand = {}
  Impacts <- Revisions
  Assignments = {a1, a2}
  None = None
  MaxVersion <- Versions
  MaxBriefs = 2
  MaxCrashes = 1
  KilledAfter = {3}
  Routes = {worker, verifier, paid}
  Group <- Groups
  Serves <- Purposes
  Metered = {paid}
  Estimate <- Estimates
  Terms <- TermsAsked
  Drills <- DrillsAsked
  MaxIterations = 2
  MaxAmount = 1
  Amounts = {1}
  FreeRoutes = {worker, verifier}
  Bucket <- QuotaBuckets
  Counted = {"counted"}
  Reports = {"reserved"}
  DailyLimit = 2
  UnknownQuota = "allow_fallback"
INVARIANTS
  TypeOK
  SpendIsAccounted
  LoopTellsTheOutcome
  CountedOnce
PROPERTIES
  WorkersLeaveReserve
  EveryLoopEnds
CHECK_DEADLOCK FALSE
