---------------------------- MODULE GovernedEffect ----------------------------
(***************************************************************************)
(* What the operator of an external action relies on, without plans,       *)
(* approvals or tables: an effect is tried only while it is authorized, is *)
(* tried again only once the previous try is known not to have been        *)
(* applied, and is tried a bounded number of times.                        *)
(***************************************************************************)
EXTENDS Naturals

CONSTANTS
  Effects,   \* the effects under governance
  MaxTries   \* the cap of recovery.maxAttempts

VARIABLES phase, tries

vars == <<phase, tries>>

TypeOK ==
  /\ phase \in [Effects -> {"unauthorized", "authorized", "acting", "unresolved", "settled"}]
  /\ tries \in [Effects -> 0..MaxTries]

Init ==
  /\ phase = [e \in Effects |-> "unauthorized"]
  /\ tries = [e \in Effects |-> 0]

Authorize(e) ==
  /\ phase[e] = "unauthorized"
  /\ phase' = [phase EXCEPT ![e] = "authorized"]
  /\ UNCHANGED tries

Begin(e) ==
  /\ phase[e] = "authorized"
  /\ tries[e] < MaxTries
  /\ phase' = [phase EXCEPT ![e] = "acting"]
  /\ tries' = [tries EXCEPT ![e] = @ + 1]

\* The try ends, as a definite failure or with an effect still to be observed.
Report(e) ==
  /\ phase[e] = "acting"
  /\ \E after \in {"unresolved", "settled"} : phase' = [phase EXCEPT ![e] = after]
  /\ UNCHANGED tries

\* An observation shows the effect absent, or settles what became of it.
Learn(e) ==
  /\ phase[e] = "unresolved"
  /\ \E after \in {"authorized", "settled"} : phase' = [phase EXCEPT ![e] = after]
  /\ UNCHANGED tries

\* Effects nobody is acting on are given up, several at once in a revision.
Abandon(given) ==
  /\ \A e \in given : phase[e] # "acting"
  /\ phase' = [e \in Effects |-> IF e \in given THEN "settled" ELSE phase[e]]
  /\ UNCHANGED tries

Next ==
  \/ \E e \in Effects : Authorize(e) \/ Begin(e) \/ Report(e) \/ Learn(e)
  \/ \E given \in SUBSET Effects : Abandon(given)

Spec == Init /\ [][Next]_vars
=============================================================================
