\* Two plans for one branch; each may be reconciled with the attempts of the other.
SPECIFICATION Spec
CONSTANTS
  Plans = {p1, p2}
  Approvals = {a1, a2}
  WorkItems = {w1}
  Intents = {i1, i2}
  MaxVersion = 1
  NoPlan = NoPlan
  NoItem = NoItem
  NoApproval = NoApproval
  NoContent = NoContent
  Calls = {c1}
  MayCrash = FALSE
  ByHand = {}
SYMMETRY Symmetry
INVARIANTS
  BranchHeld
  CompleteIsDelivered
CHECK_DEADLOCK FALSE
