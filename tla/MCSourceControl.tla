--------------------------- MODULE MCSourceControl ---------------------------
(***************************************************************************)
(* SourceControl on small instances.                                       *)
(***************************************************************************)
EXTENDS SourceControl, TLC

\* Sound for the safety properties: no action names a plan, a call or an intent.
Symmetry ==
  Permutations(Plans) \cup Permutations(Approvals) \cup Permutations(Calls)
    \cup Permutations(Intents)
=============================================================================
