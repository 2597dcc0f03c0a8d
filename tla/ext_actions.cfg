\* Two plans for one intent on one work item: supersession, revisions, stale and
\* orphaned approvals, interleaved in every order.
SPECIFICATION Spec
CONSTANTS
  Plans = {p1, p2}
  Approvals = {a1, a2}
  WorkItems = {w1}
  Intents = {i1}
  ActionClasses = {"durable_external_mutation"}
  Authorities = {"approval_and_spend"}
  RecoveryInputs = {0}
  MaxVersion = 2
  NoPlan = NoPlan
  NoItem = NoItem
  NoApproval = NoApproval
  NoContent = NoContent
SYMMETRY Symmetry
INVARIANTS
  TypeOK
  LedgerInvariant
  ReconciledBeforeRetry
  AttemptBudget
  CompletionIsConfirmed
PROPERTIES
  UseTimeAuthority
  RefinesGovernedEffect
CHECK_DEADLOCK FALSE
