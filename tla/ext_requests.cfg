\* One plan of every shape a caller can ask for, with two work items and a
\* spare approval, through two project revisions.
SPECIFICATION Spec
CONSTANTS
  Plans = {p1}
  Approvals = {a1, a2}
  WorkItems = {w1, w2}
  Intents = {i1}
  ActionClasses = {"read_only", "durable_external_mutation", "production_or_destructive"}
  Authorities = {"none", "exact_approval", "approval_and_spend"}
  RecoveryInputs = {0, 1, 3}
  MaxVersion = 2
  NoPlan = NoPlan
  NoItem = NoItem
  NoApproval = NoApproval
  NoContent = NoContent
INVARIANTS
  LedgerInvariant
PROPERTIES
  UseTimeAuthority
CHECK_DEADLOCK FALSE
