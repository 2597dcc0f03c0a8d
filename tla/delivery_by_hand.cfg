\* One plan and one request, killed at any moment, while operators use every
\* endpoint the ledger has.
SPECIFICATION FairSpec
CONSTANTS
  Plans = {p1}
  Approvals = {a1}
  WorkItems = {w1}
  Intents = {i1}
  MaxVersion = 1
  NoPlan = NoPlan
  NoItem = NoItem
  NoApproval = NoApproval
  NoContent = NoContent
  Calls = {c1}
  MayCrash = TRUE
  ByHand = {"plan", "start", "finish", "reconcile", "complete"}
INVARIANTS
  LedgerHolds
  DeliveredOnce
  CompleteIsDelivered
PROPERTIES
  NothingOverwritten
  EveryCallEnds
CHECK_DEADLOCK FALSE
