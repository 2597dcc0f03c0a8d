\* An attempt is committed, the mirror refuses the status, and nobody works on it.
SPECIFICATION Spec
CONSTANTS
  Plans = {p1, p2, p3}
  Approvals = {a1}
  WorkItems = {w1}
  Intents = {i1, i2}
  MaxVersion = 1
  NoPlan = NoPlan
  NoItem = NoItem
  NoApproval = NoApproval
  NoContent = NoContent
  Calls = {c1}
  MayCrash = FALSE
  ByHand = {"plan"}
SYMMETRY Symmetry
PROPERTIES
  ExecutingIsInProgress
CHECK_DEADLOCK FALSE
