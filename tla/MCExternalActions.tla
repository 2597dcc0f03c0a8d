-------------------------- MODULE MCExternalActions --------------------------
(***************************************************************************)
(* ExternalActions on a small instance.                                    *)
(***************************************************************************)
EXTENDS ExternalActions, TLC

\* Sound for the safety properties: no action names a plan or an approval.
Symmetry == Permutations(Plans) \cup Permutations(Approvals)
=============================================================================
