\* An observation of one delivery completes another.
SPECIFICATION Spec
CONSTANTS
  Plans = {p1, p2}
  Approvals = {a1, a2}
  WorkItems = {w1}
  Intents = {i1, i2}
  MaxVersion = 1
  NoPlan = NoPlan
  NoItem = NoItem
  NoApproval = NoApproval
  NoContent = NoContent
  Calls = {c1}
  MayCrash = FALSE
  ByHand = {"complete"}
SYMMETRY Symmetry
INVARIANTS
  DeliveredBeforeComplete
CHECK_DEADLOCK FALSE
