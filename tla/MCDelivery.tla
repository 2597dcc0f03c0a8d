----------------------------- MODULE MCDelivery -----------------------------
(* Delivery over a phase 1 graph of one item and the plan of a custom build. *)
EXTENDS Delivery

CONSTANTS review0, prepare, build, check, flow, review, deliver

Graph1 == <<review0>>
Plan == <<prepare, build, check, flow, review, deliver>>

Position(w) == CHOOSE j \in DOMAIN Plan : Plan[j] = w

Chain ==
  [w \in Items |-> IF w \in {review0, prepare} THEN {} ELSE {Plan[Position(w) - 1]}]

\* The plan of a custom build without its two text tasks ahead of the workspace.
Roles ==
  [w \in Items |-> IF w = review0 THEN "none" ELSE PlanFor.custom_build[Position(w) + 2]]

\* A revision affects the flow only, or everything from the build on.
Revisions == {{flow}, {build, check, flow, review, deliver}}

\* The flow may fail and be tried again; what it needs may go stale once complete.
Versions == [w \in Items |-> IF w = flow THEN 5 ELSE IF w \in {build, check} THEN 4 ELSE 3]
=============================================================================
