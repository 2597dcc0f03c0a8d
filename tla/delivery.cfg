SPECIFICATION Spec
CONSTANTS
  review0 = review0  prepare = prepare  build = build  check = check
  flow = flow  review = review  deliver = deliver
  Items = {review0, prepare, build, check, flow, review, deliver}
  InitialGraph <- Graph1
  PlanGraph <- Plan
  DependsOn <- Chain
  OperatorMoves = {"ready"}
  ByHand = {flow}
  Impacts <- Revisions
  Assignments = {a1, a2, a3, a4, a5, a6}
  None = None
  MaxVersion <- Versions
  MaxBriefs = 2
  MaxCrashes = 1
  KilledAfter = {2, 4, 5, 7, 24}
  Role <- Roles
  Servers = {s1}
INVARIANTS
  TypeOK
  CompletionIsVerified
  OneActiveAssignment
  VersionWitnessesReady
  DependenciesFirst
  PackOfTheBrief
  SatisfiedIsVerified
  NoServerLeft
  CleanedIsQuiet
CHECK_DEADLOCK FALSE
