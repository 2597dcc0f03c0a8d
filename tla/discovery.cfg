\* Three rounds that overlap in every way, two questions, crashes, the phase 1
\* endpoints and a goal revision.
SPECIFICATION Spec
CONSTANTS
  MaxRounds = 3
  Keys = {k1, k2}
  MaxBriefs = 2
INVARIANTS
  TypeOK
  OneLiveAnalysis
  AnswersAreHeard
  ProvenanceHeld
PROPERTIES
  NothingOpenWhenAccepted
CHECK_DEADLOCK FALSE
