----------------------------- MODULE AutonomyLoop -----------------------------
(***************************************************************************)
(* The autonomy kernel: a work item is given to a worker route, its answer *)
(* to a verifier route, and the two are tried again, on other routes if    *)
(* one fails, for a bounded number of iterations.  Routes that are metered *)
(* are paid from a spend envelope that an operator has approved.           *)
(*                                                                         *)
(* The loop awaits nothing but its providers: each action below is what    *)
(* the process does between two awaits, and everything else the server is  *)
(* asked for may come in between.                                          *)
(***************************************************************************)
EXTENDS WorkLifecycle, FiniteSetsExt

CONSTANTS
  Routes,        \* the execution routes whose connection is usable
  Group,         \* the independence group of each route
  Serves,        \* the purposes each route has the capabilities for
  Metered,       \* the routes that are neither zero incremental nor a subscription
  Estimate,      \* the cost estimate of each route, 0 unless it is metered
  Terms,         \* the terms a loop may be asked to run under
  Drills,        \* the pairs of routes a portability drill may be asked to run on
  MaxIterations, \* the iterations of a loop
  MaxAmount,     \* the amount of the spend request
  Amounts        \* the amounts metered actions may cost

ASSUME AutonomyAssumption ==
  /\ None \notin Routes
  /\ Metered \subseteq Routes
  /\ Serves \in [Routes -> SUBSET {"worker", "verifier"}]
  /\ Estimate \in [Routes -> Nat]
  /\ \A r \in Routes \ Metered : Estimate[r] = 0
  /\ Terms \subseteq [independent: BOOLEAN, funded: BOOLEAN, budget: Nat, free: {FALSE}]
  /\ Drills \subseteq Routes \X Routes
  /\ MaxIterations \in Nat \ {0}
  /\ MaxAmount \in Nat
  /\ Amounts \subseteq Nat

VARIABLES
  loop,     \* per assignment, the loop that runs it and what the loop awaits
  attempts, \* execution_attempts, without those that failed or were left running by a
            \* killed process: nothing reads these again
  spend,    \* the spend request, its approval and its envelope, with the amounts spent
  enabled   \* the routes that are enabled

kernelVars == <<workVars, loop, attempts, spend, enabled>>

-----------------------------------------------------------------------------
NoTerms == [independent |-> FALSE, funded |-> FALSE, budget |-> 0, free |-> FALSE]

NoLoop ==
  [status |-> "none", awaits |-> "nothing", turn |-> 0, worker |-> None, verifier |-> None,
   failedWorkers |-> {}, failedVerifiers |-> {}, terms |-> NoTerms]

NoSpend ==
  [request |-> "none", approval |-> "none", item |-> None, version |-> 0, brief |-> 0,
   envelope |-> "none", spent |-> 0, direct |-> 0]

Awaited == {"worker", "verifier", "primary", "secondary"}

KernelTypeOK ==
  /\ WorkTypeOK
  /\ loop \in [Assignments ->
       [status: {"none", "running", "passed", "exhausted", "blocked", "failed", "drill"},
        awaits: {"nothing", "lost"} \cup Awaited,
        turn: 0..MaxIterations,
        worker: Routes \cup {None}, verifier: Routes \cup {None},
        failedWorkers: SUBSET Routes, failedVerifiers: SUBSET Routes,
        terms: [independent: BOOLEAN, funded: BOOLEAN, budget: Nat, free: BOOLEAN]]]
  /\ attempts \subseteq
       [by: Assignments, turn: 1..MaxIterations, purpose: {"worker", "verifier"}, route: Routes,
        status: {"running", "succeeded"}, charged: BOOLEAN]
  /\ spend \in [request: {"none", "requested", "approved", "rejected"},
                approval: {"none", "requested", "approved", "rejected"},
                item: Items \cup {None}, version: Nat, brief: Nat,
                envelope: {"none", "approved", "exhausted"}, spent: Nat, direct: Nat]
  /\ enabled \subseteq Routes

KernelInit ==
  /\ WorkInit
  /\ loop = [a \in Assignments |-> NoLoop]
  /\ attempts = {}
  /\ spend = NoSpend
  /\ enabled = Routes

\* What no step of a loop touches.
Elsewhere == UNCHANGED <<depends, specs, activation, brief, pending, cut>>

-----------------------------------------------------------------------------
(* Spend authority *)

\* Bound: one request, made before any work is assigned.
RequestSpend(w) ==
  /\ spend.request = "none"
  /\ \A a \in Assignments : assignment[a] = NoAssignment
  /\ Exists(w)
  /\ spend' = [spend EXCEPT !.request = "requested", !.approval = "requested", !.item = w,
                            !.version = item[w].version, !.brief = brief]
  /\ UNCHANGED <<workVars, loop, attempts, enabled>>

\* The versions captured with the request are still those of the project and the item.
AuthorityCurrent(sp) == sp.version = item[sp.item].version /\ sp.brief = brief

MayResolve(decision) ==
  /\ spend.approval = "requested"
  /\ decision = "approved" => AuthorityCurrent(spend)

\* The general approval endpoint knows nothing of the request.  So does a process
\* killed between the approval and the transaction that makes the envelope.
ResolveApproval(decision) ==
  /\ MayResolve(decision)
  /\ spend' = [spend EXCEPT !.approval = decision]
  /\ UNCHANGED <<workVars, loop, attempts, enabled>>

ResolveSpendRequest(decision) ==
  /\ spend.request = "requested"
  /\ MayResolve(decision)
  /\ spend' = [spend EXCEPT !.approval = decision, !.request = decision,
                            !.envelope = IF decision = "approved" THEN "approved" ELSE @]
  /\ UNCHANGED <<workVars, loop, attempts, enabled>>

Affords(sp, amount) == sp.envelope = "approved" /\ MaxAmount - sp.spent >= amount

\* A cost is recorded only under authority that is still current.
Spent(sp, amount) ==
  [sp EXCEPT !.spent = @ + amount,
             !.envelope = IF sp.spent + amount >= MaxAmount THEN "exhausted" ELSE @]

ExecuteMeteredAction(amount) ==
  /\ Affords(spend, amount)
  /\ AuthorityCurrent(spend)
  /\ spend' = [Spent(spend, amount) EXCEPT !.direct = @ + amount]
  /\ UNCHANGED <<workVars, loop, attempts, enabled>>

\* What is asked of an envelope before a route is used, and again when it is charged.
RouteAffordable(terms, w, r, sp) ==
  r \in Metered => terms.funded /\ sp.item = w /\ Affords(sp, Estimate[r])

\* Mutant: what was checked before the call is not checked again after it.
ChargedAnyway(terms, w, r, sp) == r \in Metered => terms.funded

Chargeable(terms, w, r, sp) ==
  r \in Metered => RouteAffordable(terms, w, r, sp) /\ AuthorityCurrent(sp)

SpendAfter(r, sp) == IF r \in Metered THEN Spent(sp, Estimate[r]) ELSE sp

-----------------------------------------------------------------------------
(* Routes and attempts *)

\* The eligible routes.  The one of highest score is selected: scores change with
\* policy and health, so that any of them may be.
Eligibles(en, purpose, terms, w, excluded, groups, sp) ==
  {r \in en :
     /\ purpose \in Serves[r]
     /\ r \notin excluded
     /\ Group[r] \notin groups
     /\ RouteAffordable(terms, w, r, sp)}

\* The groups a verifier may not be of.
GroupsBeside(terms, worker) == IF terms.independent THEN {Group[worker]} ELSE {}

NewAttempt(a, L, purpose, r) ==
  [by |-> a, turn |-> L.turn, purpose |-> purpose, route |-> r, status |-> "running", charged |-> FALSE]

\* The incremental cost of an assignment, by estimates.
CostOf(a, atts) == MapThenSumSet(LAMBDA t : Estimate[t.route], {t \in atts : t.by = a})

\* An attempt that spend or budget forbids throws before it leaves any row.
MayBegin(a, w, L, r, atts, sp) ==
  /\ RouteAffordable(L.terms, w, r, sp)
  /\ CostOf(a, atts) + Estimate[r] <= L.terms.budget

\* The attempt a loop awaits.
Running(a) == CHOOSE t \in attempts : t.by = a /\ t.status = "running"

Failed(a) == attempts \ {Running(a)}

Succeeded(a) ==
  Failed(a) \cup
    {[Running(a) EXCEPT !.status = "succeeded", !.charged = Running(a).route \in Metered]}

\* What is left of a loop once the call that ran it is over: its row's status, and of
\* one that passed the routes it passed by.
Over(L, status, awaits) ==
  IF status = "passed" THEN [L EXCEPT !.status = status, !.awaits = awaits]
  ELSE [NoLoop EXCEPT !.status = status, !.awaits = awaits]

Surviving(killed, atts) == IF killed THEN {t \in atts : t.status = "succeeded"} ELSE atts

\* Loops do not survive their process: their rows stay as they are.
LoopsAfter(killed, lp) ==
  [b \in Assignments |-> IF killed /\ lp[b].awaits \in Awaited
                         THEN Over(lp[b], lp[b].status, "lost") ELSE lp[b]]

-----------------------------------------------------------------------------
(* What a loop L of assignment a does next, once the attempts are atts and    *)
(* the envelope is sp                                                         *)

Await(a, L, purpose, r, atts) ==
  /\ loop' = [loop EXCEPT ![a] = [L EXCEPT !.awaits = purpose]]
  /\ attempts' = atts \cup {NewAttempt(a, L, purpose, r)}
  /\ UNCHANGED <<assignment, item, evidence, crashes>>

Stop(a, L, status, atts) ==
  /\ loop' = [loop EXCEPT ![a] = Over(L, status, "nothing")]
  /\ attempts' = atts
  /\ assignment' = [assignment EXCEPT ![a].status = IF @ = "running" THEN status ELSE @]
  /\ UNCHANGED <<item, evidence, crashes>>

\* Mutant: the loop says how it ended before the assignment is verified.
SettleLoopFirst(a, L, outcome, status, atts) ==
  /\ loop' = [loop EXCEPT ![a] = Over(L, status, "nothing")]
  /\ attempts' = atts
  /\ UNCHANGED <<assignment, item, evidence, crashes>>

\* Four statements: execution finished, evidence, verified, the loop's own row.  If
\* someone else moved the item or the assignment, the first throws and none is done.
Settle(a, L, outcome, status, atts) ==
  LET w == assignment[a].item
      verified == [item EXCEPT ![w] = Moved(w, IF outcome = "passed" THEN "complete" ELSE "needs_attention")]
      holds == assignment[a].status = "running" /\ Current(a)
  IN \E k \in IF holds THEN StatementsOf(4) ELSE {4} :
       /\ attempts' = Surviving(k < 4, atts)
       /\ loop' = LoopsAfter(k < 4, [loop EXCEPT ![a] =
            Over(L, IF holds /\ k = 4 THEN status ELSE L.status, IF k < 4 THEN "lost" ELSE "nothing")])
       /\ assignment' = [assignment EXCEPT
            ![a].status = IF holds /\ k >= 1 THEN "execution_finished" ELSE @,
            ![a].verified = IF holds /\ k >= 3 THEN outcome ELSE @]
       /\ evidence' = IF holds /\ k >= 2 THEN evidence \cup {w} ELSE evidence
       /\ item' = IF ~holds \/ k < 3 THEN item
                  ELSE IF outcome = "passed" /\ k = 4 THEN Refreshed(verified, Due(verified))
                  ELSE verified
       /\ CarriesOut(k, 4)

\* Mutant: an iteration does not count.
NextTurnUncounted(a, w, L, atts, sp) ==
  IF L.turn = MaxIterations THEN Settle(a, L, "failed", "exhausted", atts)
  ELSE IF MayBegin(a, w, L, L.worker, atts, sp) THEN Await(a, L, "worker", L.worker, atts)
  ELSE Stop(a, L, "failed", atts)

\* Mutant: one iteration too many.
NextTurnOneMore(a, w, L, atts, sp) ==
  LET M == [L EXCEPT !.turn = @ + 1] IN
  IF L.turn > MaxIterations THEN Settle(a, L, "failed", "exhausted", atts)
  ELSE IF MayBegin(a, w, M, M.worker, atts, sp) THEN Await(a, M, "worker", M.worker, atts)
  ELSE Stop(a, M, "failed", atts)

\* The next iteration, if there is one and time for it.
NextTurn(a, w, L, atts, sp) ==
  \/ /\ L.turn = MaxIterations
     /\ Settle(a, L, "failed", "exhausted", atts)
  \/ /\ L.turn < MaxIterations
     /\ Stop(a, L, "blocked", atts)
  \/ /\ L.turn < MaxIterations
     /\ LET M == [L EXCEPT !.turn = @ + 1] IN
        IF MayBegin(a, w, M, M.worker, atts, sp)
        THEN Await(a, M, "worker", M.worker, atts)
        ELSE Stop(a, M, "failed", atts)

\* The worker's replacement need not be of another group than the verifier.
ReplaceWorker(a, w, L, atts) ==
  LET M == [L EXCEPT !.failedWorkers = @ \cup {L.worker}]
      others == Eligibles(enabled, "worker", L.terms, w, M.failedWorkers, {}, spend)
  IN IF L.turn = MaxIterations \/ others = {} THEN Stop(a, M, "failed", atts)
     ELSE \E r \in others : NextTurn(a, w, [M EXCEPT !.worker = r], atts, spend)

\* A failed verifier costs an iteration: the worker is asked again.
ReplaceVerifier(a, w, L, atts, sp) ==
  LET M == [L EXCEPT !.failedVerifiers = @ \cup {L.verifier}]
      others == Eligibles(enabled, "verifier", L.terms, w, M.failedVerifiers,
                          GroupsBeside(L.terms, L.worker), sp)
  IN IF others = {} THEN Stop(a, M, "blocked", atts)
     ELSE \E r \in others : NextTurn(a, w, [M EXCEPT !.verifier = r], atts, sp)

Verify(a, w, L, atts, sp) ==
  IF L.verifier = None THEN Stop(a, L, "blocked", atts)
  ELSE IF MayBegin(a, w, L, L.verifier, atts, sp) THEN Await(a, L, "verifier", L.verifier, atts)
  ELSE ReplaceVerifier(a, w, L, atts, sp)

-----------------------------------------------------------------------------
(* The loop *)

\* The loop that starts with worker r, once its verifier is selected.
FirstTurn(terms, r, v) ==
  [NoLoop EXCEPT !.status = "running", !.turn = 1, !.worker = r, !.verifier = v, !.terms = terms]

\* Statements: 1 the assignment made, 2 running, 3 the loop's row, 4 its first attempt.
\* Without an independent verifier the assignment is blocked instead.
RunWorkItem(a, w, terms, en) ==
  /\ Eligible(w)
  /\ \E r \in Eligibles(en, "worker", terms, w, {}, {}, spend) :
       LET verifiers == Eligibles(en, "verifier", terms, w, {}, GroupsBeside(terms, r), spend) IN
       IF verifiers = {} /\ terms.independent
       THEN /\ assignment' = [assignment EXCEPT ![a] = NewAssignment(w, "blocked")]
            /\ UNCHANGED <<loop, attempts, crashes>>
       ELSE \E v \in IF verifiers = {} THEN {None} ELSE verifiers, k \in StatementsOf(4) \ {0} :
              LET L == FirstTurn(terms, r, v)
                  begins == MayBegin(a, w, L, r, attempts, spend)
              IN /\ assignment' = [assignment EXCEPT ![a] = NewAssignment(w,
                      IF k = 1 THEN "created" ELSE IF k = 4 /\ ~begins THEN "failed" ELSE "running")]
                 /\ loop' = LoopsAfter(k < 4, IF k < 3 THEN loop ELSE [loop EXCEPT ![a] =
                      IF k = 3 THEN Over(L, "running", "lost")
                      ELSE IF begins THEN [L EXCEPT !.awaits = "worker"]
                      ELSE Over(L, "failed", "nothing")])
                 /\ attempts' = IF k = 4 /\ begins THEN attempts \cup {NewAttempt(a, L, "worker", r)}
                                ELSE Surviving(k < 4, attempts)
                 /\ CarriesOut(k, 4)
  /\ pack' = BasePack
  /\ Elsewhere
  /\ UNCHANGED <<item, evidence, spend>>

\* The provider answers, and what it did can be charged.  Otherwise, as when it
\* throws or times out, the attempt has failed.
AttemptSucceeds(a, L, w) ==
  /\ Chargeable(L.terms, w, Running(a).route, spend)
  /\ spend' = SpendAfter(Running(a).route, spend)

WorkerReturns(a) ==
  LET L == loop[a]
      w == assignment[a].item
  IN /\ L.awaits = "worker"
     /\ \/ /\ UNCHANGED spend
           /\ ReplaceWorker(a, w, L, Failed(a))
        \/ /\ AttemptSucceeds(a, L, w)
           /\ Verify(a, w, L, Succeeded(a), spend')
     /\ Elsewhere
     /\ UNCHANGED <<pack, enabled>>

VerifierReturns(a) ==
  LET L == loop[a]
      w == assignment[a].item
  IN /\ L.awaits = "verifier"
     /\ \/ /\ UNCHANGED spend
           /\ ReplaceVerifier(a, w, L, Failed(a), spend)
        \/ /\ AttemptSucceeds(a, L, w)
           /\ \/ Settle(a, L, "passed", "passed", Succeeded(a))
              \/ NextTurn(a, w, L, Succeeded(a), spend')
     /\ Elsewhere
     /\ UNCHANGED <<pack, enabled>>

\* The attempt is recorded as succeeded, and the process killed before it is charged.
KilledBeforeCharge(a) ==
  /\ loop[a].awaits \in Awaited
  /\ crashes < MaxCrashes
  /\ crashes' = crashes + 1
  /\ attempts' = Surviving(TRUE, Failed(a)) \cup {[Running(a) EXCEPT !.status = "succeeded"]}
  /\ loop' = LoopsAfter(TRUE, loop)
  /\ Elsewhere
  /\ UNCHANGED <<item, assignment, evidence, pack, spend, enabled>>

-----------------------------------------------------------------------------
(* The portability drill: the same instructions on two routes, one after the *)
(* other.  Its assignment is never started, and in the end is overwritten    *)
(* whatever became of it.                                                    *)

Overwrite(a, L, status, atts) ==
  /\ loop' = [loop EXCEPT ![a] = Over(L, "drill", "nothing")]
  /\ attempts' = atts
  /\ assignment' = [assignment EXCEPT ![a].status = status]

DrillTerms(p, s) ==
  [independent |-> FALSE, funded |-> TRUE, budget |-> Estimate[p] + Estimate[s], free |-> FALSE]

RunPortabilityDrill(a, w, p, s) ==
  LET L == [FirstTurn(DrillTerms(p, s), p, s) EXCEPT !.status = "drill"] IN
  /\ Group[p] # Group[s]
  /\ Eligible(w)
  /\ Eligibles(enabled, "worker", L.terms, w, {}, {}, spend) # {}
  /\ IF MayBegin(a, w, L, p, attempts, spend)
     THEN /\ loop' = [loop EXCEPT ![a] = [L EXCEPT !.awaits = "primary"]]
          /\ attempts' = attempts \cup {NewAttempt(a, L, "worker", p)}
          /\ assignment' = [assignment EXCEPT ![a] = NewAssignment(w, "created")]
     ELSE /\ loop' = [loop EXCEPT ![a] = Over(L, "drill", "nothing")]
          /\ assignment' = [assignment EXCEPT ![a] = NewAssignment(w, "failed")]
          /\ UNCHANGED attempts
  /\ pack' = BasePack
  /\ Elsewhere
  /\ UNCHANGED <<item, evidence, crashes, spend, enabled>>

DrillReturns(a) ==
  LET L == loop[a]
      w == assignment[a].item
      atts == Succeeded(a)
  IN /\ L.awaits \in {"primary", "secondary"}
     /\ \/ /\ UNCHANGED spend
           /\ Overwrite(a, L, "failed", Failed(a))
        \/ /\ AttemptSucceeds(a, L, w)
           /\ IF L.awaits = "secondary" THEN Overwrite(a, L, "canceled", atts)
              ELSE IF MayBegin(a, w, L, L.verifier, atts, spend')
              THEN /\ loop' = [loop EXCEPT ![a].awaits = "secondary"]
                   /\ attempts' = atts \cup {NewAttempt(a, L, "worker", L.verifier)}
                   /\ UNCHANGED assignment
              ELSE Overwrite(a, L, "failed", atts)
     /\ Elsewhere
     /\ UNCHANGED <<item, evidence, crashes, pack, enabled>>
=============================================================================
