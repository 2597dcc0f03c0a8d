\* One plan with two attempts, two requests served at once, lost answers, late
\* requests, a foreign actor, and an operator who reports attempts.
SPECIFICATION Spec
CONSTANTS
  Plans = {p1}
  Approvals = {a1}
  WorkItems = {w1}
  Intents = {i1}
  MaxVersion = 1
  NoPlan = NoPlan
  NoItem = NoItem
  NoApproval = NoApproval
  NoContent = NoContent
  Calls = {c1, c2}
  MayCrash = FALSE
  ByHand = {"finish"}
SYMMETRY Symmetry
INVARIANTS
  TypeOK
  OneMutator
  DeliveredOnce
PROPERTIES
  BundlesFinish
CHECK_DEADLOCK FALSE
