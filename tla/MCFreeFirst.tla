----------------------------- MODULE MCFreeFirst -----------------------------
(* One work item, three routes: a free worker and a free verifier of two     *)
(* accounts, and a metered route of the verifier's account that serves both. *)
EXTENDS FreeFirst

CONSTANTS w1, worker, verifier, paid

Graph1 == <<w1>>
NoPlan == <<>>
NoDependencies == [w \in Items |-> {}]
Versions == [w \in Items |-> 4]
Revisions == {{w1}}

Groups == [r \in Routes |-> IF r = worker THEN "g1" ELSE "g2"]
Purposes ==
  [r \in Routes |-> IF r = worker THEN {"worker"}
                    ELSE IF r = verifier THEN {"verifier"} ELSE {"worker", "verifier"}]
Estimates == [r \in Routes |-> IF r = paid THEN 1 ELSE 0]
QuotaBuckets == [r \in FreeRoutes |-> IF r = worker THEN "reported" ELSE "counted"]
DrillsAsked == {<<worker, paid>>}

TermsAsked ==
  {[independent |-> TRUE, funded |-> TRUE, budget |-> 1, free |-> FALSE],
   [independent |-> FALSE, funded |-> FALSE, budget |-> 0, free |-> FALSE]}
=============================================================================
