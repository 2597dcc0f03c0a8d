------------------------------ MODULE Delivery ------------------------------
(***************************************************************************)
(* Phase 3 delivery: the items of the strategy's plan, worked off one task *)
(* after the other, in a governed workspace with a local server.           *)
(*                                                                         *)
(* A task is what the certification does for one item: it makes and starts *)
(* the assignment, does the item's own work, and completes or fails the    *)
(* assignment.  All of it is synchronous, except the local flow, which     *)
(* awaits its server: what the HTTP API offers may come in between.        *)
(*                                                                         *)
(* A task's statements, in order: 1 the pack is current, 2 the assignment  *)
(* made, 3 the activation active, 4 the assignment running; 5 the item's   *)
(* own work; 6 execution finished, 7 evidence, 8 verified; then, if it     *)
(* passed, 9 the activation satisfied, 10 readiness refreshed, and if not, *)
(* 9 the repair recorded.                                                  *)
(***************************************************************************)
EXTENDS WorkLifecycle

CONSTANTS
  Role,     \* the logical role of each item's specification
  Servers   \* the local servers that may be started, a bound on their number

ASSUME DeliveryAssumption == Role \in [Items -> STRING]

VARIABLES
  made,      \* the assignments made by phase 3 delivery
  typed,     \* the items with evidence of the type their specification requires
  repairs,   \* per item, the repair attempts on record
  delivered, \* the brief versions a delivery record is for
  workspace, \* the status of the execution workspace
  files,     \* whether the files the review requires are in the workspace and its manifest
  tested,    \* a test command with exit code 0 is on record
  server     \* per local server: its row, its process as the runtime knows it, its flow

deliveryVars == <<made, typed, repairs, delivered, workspace, files, tested, server>>
vars == <<workVars, deliveryVars>>

-----------------------------------------------------------------------------
\* planFor: the roles of a strategy's items.  Each item depends on the one before it.
PlanFor == [
  custom_build   |-> <<"product_planner", "solution_architect", "execution_operator",
                       "implementation_worker", "qa_verifier", "flow_verifier",
                       "independent_reviewer", "delivery_reconciler">>,
  hybrid         |-> <<"product_planner", "solution_architect", "execution_operator",
                       "implementation_worker", "qa_verifier", "independent_reviewer",
                       "delivery_reconciler">>,
  automate       |-> <<"product_planner", "automation_designer", "automation_implementer",
                       "qa_verifier", "delivery_reconciler">>,
  configure      |-> <<"product_planner", "configuration_specialist", "qa_verifier",
                       "delivery_reconciler">>,
  adopt_existing |-> <<"product_planner", "solution_evaluator", "delivery_reconciler">>,
  integrate      |-> <<"product_planner", "integration_architect", "integration_worker",
                       "qa_verifier", "delivery_reconciler">>,
  process_change |-> <<"product_planner", "process_designer", "qa_verifier", "delivery_reconciler">>,
  research_pilot |-> <<"research_planner", "research_worker", "decision_reconciler">>,
  defer          |-> <<"decision_reconciler">>]

Awaiting == {"starting", "fetching", "terminating", "killing"}

NoServer == [row |-> "none", child |-> "none", step |-> "none", by |-> None, flow |-> "none"]

TypeOK ==
  /\ WorkTypeOK
  /\ made \subseteq Assignments
  /\ typed \subseteq Items
  /\ repairs \in [Items -> 0..2]
  /\ delivered \subseteq Nat
  /\ workspace \in {"none", "prepared", "active", "cleaned"}
  /\ files \in BOOLEAN
  /\ tested \in BOOLEAN
  /\ server \in [Servers ->
       [row: {"none", "running", "stopped", "failed"},
        child: {"none", "alive", "dying", "exited", "signaled"},
        step: {"none", "settled", "lost"} \cup Awaiting,
        by: Assignments \cup {None},
        flow: {"none", "passed", "failed", "thrown", "unready"}]]

Init ==
  /\ WorkInit
  /\ made = {}
  /\ typed = {}
  /\ repairs = [w \in Items |-> 0]
  /\ delivered = {}
  /\ workspace = "none"
  /\ files = FALSE
  /\ tested = FALSE
  /\ server = [s \in Servers |-> NoServer]

-----------------------------------------------------------------------------
(* Tasks *)

\* A phase 3 pack of the accepted brief stays in use, whatever became of the
\* items since; else one is made, over the base pack.
Phase3Pack == [kind |-> "phase3", brief |-> brief, current |-> TRUE]

\* The runtime knows of no process started before it was killed; its children live on.
ServersAfter(killed) ==
  [s \in Servers |->
     IF killed /\ server[s].step \in Awaiting THEN [server[s] EXCEPT !.step = "lost"] ELSE server[s]]

\* A failed review is not repaired, and nothing is repaired a third time.
RepairsAfter(w) ==
  IF Role[w] # "independent_reviewer" /\ repairs[w] < 2 THEN repairs[w] + 1 ELSE repairs[w]

\* Statement i is among those after from, up to k.
Among(i, from, k) == from < i /\ i <= k

\* Mutant: the activation of an assignment that failed is satisfied as well.
SatisfiedEitherWay(w, passed, from, k) ==
  IF Among(9, from, k) THEN "satisfied"
  ELSE IF Among(3, from, k) /\ activation[w] = "required" THEN "active"
  ELSE activation[w]

ActivationAfter(w, passed, from, k) ==
  IF Among(9, from, k) /\ passed THEN "satisfied"
  ELSE IF Among(3, from, k) /\ activation[w] = "required" THEN "active"
  ELSE activation[w]

\* The statements after from, up to k, of a task that ends with the one numbered
\* last.  It stops earlier only if the process is killed.
Perform(a, w, passed, from, k, last) ==
  LET Does(i) == Among(i, from, k)
      own == IF Does(2) THEN NewAssignment(w, "created") ELSE assignment[a]
      verified == IF Does(8) THEN [item EXCEPT ![w] =
                                     Moved(w, IF passed THEN "complete" ELSE "needs_attention")]
                  ELSE item
  IN /\ pack' = IF Does(1) THEN Phase3Pack ELSE pack
     /\ assignment' = [assignment EXCEPT ![a] =
          [own EXCEPT
             !.status = IF Does(6) THEN "execution_finished" ELSE IF Does(4) THEN "running" ELSE @,
             !.verified = IF Does(8) THEN (IF passed THEN "passed" ELSE "failed") ELSE @]]
     /\ made' = IF Does(2) THEN made \cup {a} ELSE made
     /\ evidence' = IF Does(7) THEN evidence \cup {w} ELSE evidence
     /\ typed' = IF Does(7) THEN typed \cup {w} ELSE typed
     /\ item' = IF passed /\ Does(10) THEN Refreshed(verified, Due(verified)) ELSE verified
     /\ activation' = [activation EXCEPT ![w] = ActivationAfter(w, passed, from, k)]
     /\ repairs' = [repairs EXCEPT ![w] = IF Does(9) /\ ~passed THEN RepairsAfter(w) ELSE @]
     /\ CarriesOut(k, last)
     /\ UNCHANGED <<depends, specs, brief, pending, cut>>

Last(passed) == IF passed THEN 10 ELSE 9

\* One certification runs at a time, and it does nothing else while it awaits a server.
CanBegin(w, roles) ==
  /\ Role[w] \in roles
  /\ \A s \in Servers : server[s].step \notin Awaiting
  /\ Eligible(w)
  /\ Room(w)

\* A task whose own work cannot be done throws there: its assignment stays running.
Task(a, w, possible, passed, k) ==
  LET last == IF possible THEN Last(passed) ELSE 4 IN
  /\ k \in StatementsOf(last)
  /\ Perform(a, w, passed, 0, k, last)
  /\ server' = ServersAfter(k < last)

\* The definition and the architecture are texts; the execution workspace is
\* prepared once, and never again after its cleanup.
TextTask(a, w) ==
  /\ CanBegin(w, {"product_planner", "solution_architect", "execution_operator"})
  /\ \E k \in 0..10 :
       /\ Task(a, w, TRUE, TRUE, k)
       /\ workspace' = IF Role[w] = "execution_operator" /\ workspace = "none" /\ k >= 5
                       THEN "prepared" ELSE workspace
  /\ UNCHANGED <<delivered, files, tested>>

Writable == workspace \in {"prepared", "active"}

ImplementationTask(a, w) ==
  /\ CanBegin(w, {"implementation_worker"})
  /\ \E k \in 0..10 :
       /\ Task(a, w, Writable, TRUE, k)
       /\ files' = (files \/ (Writable /\ k >= 5))
       /\ workspace' = IF Writable /\ k >= 5 THEN "active" ELSE workspace
  /\ UNCHANGED <<delivered, tested>>

\* A check that fails is repaired by no one: the repair on record is an escalation.
CheckTask(a, w) ==
  /\ CanBegin(w, {"qa_verifier"})
  /\ \E k \in 0..10, possible, passed \in BOOLEAN :
       /\ possible => workspace # "none"
       /\ possible /\ passed => files
       /\ Task(a, w, possible, passed, k)
       /\ tested' = (tested \/ (possible /\ passed /\ k >= 5))
  /\ UNCHANGED <<delivered, workspace, files>>

-----------------------------------------------------------------------------
(* The local flow: a server is started, awaited, asked and stopped. *)

StartLocalServer(s, a) ==
  [row |-> "running", child |-> "alive", step |-> "starting", by |-> a, flow |-> "none"]

\* Without the server's file the start throws before anything is spawned.
FlowTask(a, w) ==
  /\ CanBegin(w, {"flow_verifier"})
  /\ \E k \in StatementsOf(4), s \in Servers :
       /\ server[s] = NoServer
       /\ Perform(a, w, TRUE, 0, k, 4)
       /\ server' = IF k = 4 /\ files THEN [server EXCEPT ![s] = StartLocalServer(s, a)]
                    ELSE ServersAfter(k < 4)
  /\ UNCHANGED <<delivered, workspace, files, tested>>

ServerStep(s, new) ==
  /\ server' = [server EXCEPT ![s] = new]
  /\ UNCHANGED <<workVars, made, typed, repairs, delivered, workspace, files, tested>>

ServerReady(s) ==
  /\ server[s].step = "starting"
  /\ server[s].child = "alive"
  /\ ServerStep(s, [server[s] EXCEPT !.step = "fetching"])

\* A process ends by itself or by a signal; one that is sent SIGKILL cannot exit.
ServerEnds(s) ==
  \/ /\ server[s].child = "alive"
     /\ \E how \in {"exited", "signaled"} : ServerStep(s, [server[s] EXCEPT !.child = how])
  \/ /\ server[s].child = "dying"
     /\ ServerStep(s, [server[s] EXCEPT !.child = "signaled"])

\* The server is not ready in time or ended before, or the flow has been
\* exercised, or an exchange with the server threw: either way it is stopped.
StopProcess(s) ==
  /\ \E flow \in {"passed", "failed", "thrown", "unready"} :
       /\ server[s].step = (IF flow = "unready" THEN "starting" ELSE "fetching")
       /\ flow = "passed" => server[s].child = "alive"
       /\ ServerStep(s, [server[s] EXCEPT !.step = "terminating", !.flow = flow])

\* Mutant: a server that ignores SIGTERM is recorded as stopped.
StoppedOnce(s) == server[s].step \in {"terminating", "killing"}

Escalate(s) ==
  /\ server[s].step = "terminating"
  /\ server[s].child # "exited"
  /\ ServerStep(s, [server[s] EXCEPT !.step = "killing",
                                     !.child = IF @ = "alive" THEN "dying" ELSE @])

\* Nothing of the stop remains to be awaited.
StopEnds(s) ==
  \/ server[s].step = "terminating" /\ server[s].child = "exited"
  \/ server[s].step = "killing"

Stopped(s) ==
  [server[s] EXCEPT !.step = "settled",
                    !.row = IF server[s].flow = "unready" THEN "failed" ELSE "stopped"]

\* Nothing but the process row and, if the assignment was finished by someone
\* else and its item has moved on, the evidence is written: then an error is thrown.
FlowThrows(s) ==
  LET a == server[s].by
      w == assignment[a].item IN
  /\ StopEnds(s)
  /\ \/ server[s].flow \in {"thrown", "unready"}
     \/ assignment[a].status \notin {"running", "execution_finished"}
     \/ ~Current(a)
  /\ LET noted == server[s].flow \in {"passed", "failed"} /\ assignment[a].status = "execution_finished"
     IN /\ evidence' = IF noted THEN evidence \cup {w} ELSE evidence
        /\ typed' = IF noted THEN typed \cup {w} ELSE typed
  /\ server' = [server EXCEPT ![s] = Stopped(s)]
  /\ UNCHANGED <<item, depends, specs, activation, assignment, brief, pending, pack, cut, crashes,
                 made, repairs, delivered, workspace, files, tested>>

\* The task goes on where it awaited the flow.
FlowSettles(s) ==
  LET a == server[s].by
      passed == server[s].flow = "passed" IN
  /\ StopEnds(s)
  /\ server[s].flow \in {"passed", "failed"}
  /\ assignment[a].status \in {"running", "execution_finished"}
  /\ Current(a)
  /\ Room(assignment[a].item)
  /\ \E k \in StatementsOf(Last(passed)) :
       /\ k > 4
       /\ Perform(a, assignment[a].item, passed, 5, k, Last(passed))
       /\ server' = [ServersAfter(k < Last(passed)) EXCEPT ![s] = Stopped(s)]
  /\ UNCHANGED <<delivered, workspace, files, tested>>

-----------------------------------------------------------------------------
(* Review and delivery *)

WithRole(role) == {w \in Items : Role[w] = role}

\* The findings are none: files, checks, flow and roles are all on record.
ReviewPasses ==
  /\ files
  /\ tested
  /\ \E s \in Servers : server[s].row = "stopped"
  /\ WithRole("qa_verifier") \cap typed # {}
  /\ WithRole("flow_verifier") \cap typed # {}
  /\ \E b \in made : Role[assignment[b].item] = "implementation_worker"

ReviewTask(a, w) ==
  /\ CanBegin(w, {"independent_reviewer"})
  /\ \E k \in 0..10 : Task(a, w, workspace # "none", ReviewPasses, k)
  /\ UNCHANGED <<delivered, workspace, files, tested>>

\* Evidence of a review is enough, a failed one's too.
DeliveryTask(a, w) ==
  LET reviewed == WithRole("independent_reviewer") \cap typed # {} IN
  /\ CanBegin(w, {"delivery_reconciler"})
  /\ \E k \in 0..10 :
       /\ Task(a, w, reviewed /\ workspace # "none", TRUE, k)
       /\ delivered' = IF reviewed /\ workspace # "none" /\ k >= 5
                       THEN delivered \cup {brief} ELSE delivered
  /\ UNCHANGED <<workspace, files, tested>>

-----------------------------------------------------------------------------
(* The workspace's own operations, and the process *)

DeleteFile ==
  /\ workspace # "none"
  /\ files
  /\ files' = FALSE
  /\ UNCHANGED <<workVars, made, typed, repairs, delivered, workspace, tested, server>>

\* Mutant: the processes are not looked at.
CleanupAnyway ==
  /\ workspace # "none"
  /\ workspace' = "cleaned"
  /\ files' = FALSE
  /\ UNCHANGED <<workVars, made, typed, repairs, delivered, tested, server>>

Cleanup ==
  /\ workspace # "none"
  /\ \A s \in Servers : server[s].step \notin Awaiting
  /\ workspace' = "cleaned"
  /\ files' = FALSE
  /\ UNCHANGED <<workVars, made, typed, repairs, delivered, tested, server>>

Crash ==
  /\ crashes < MaxCrashes
  /\ crashes' = crashes + 1
  /\ server' = ServersAfter(TRUE)
  /\ UNCHANGED <<item, depends, specs, activation, assignment, evidence, brief, pending, pack, cut,
                 made, typed, repairs, delivered, workspace, files, tested>>

ApiStep ==
  /\ WorkNext
  /\ server' = ServersAfter(crashes' > crashes)
  /\ UNCHANGED <<made, typed, repairs, delivered, workspace, files, tested>>

\* The API records evidence of whatever type it is asked to.
RecordTypedEvidence(a) ==
  /\ HandedToApi(a)
  /\ AddAssignmentEvidence(a)
  /\ typed' = typed \cup {assignment[a].item}
  /\ UNCHANGED <<made, repairs, delivered, workspace, files, tested, server>>

Next ==
  \/ ApiStep
  \/ \E a \in Assignments : RecordTypedEvidence(a)
  \/ \E a \in FreshIds, w \in specs :
       TextTask(a, w) \/ ImplementationTask(a, w) \/ CheckTask(a, w) \/ FlowTask(a, w)
       \/ ReviewTask(a, w) \/ DeliveryTask(a, w)
  \/ \E s \in Servers :
       ServerReady(s) \/ ServerEnds(s) \/ StopProcess(s) \/ Escalate(s)
       \/ FlowThrows(s) \/ FlowSettles(s)
  \/ DeleteFile
  \/ Cleanup
  \/ Crash

Spec == Init /\ [][Next]_vars

-----------------------------------------------------------------------------
(* What delivery promises *)

\* An activation is satisfied only once an assignment of its item has passed.
SatisfiedIsVerified ==
  \A w \in Items : activation[w] = "satisfied" =>
    \E a \in Assignments : assignment[a].item = w /\ assignment[a].verified = "passed"

\* However a flow ends, no server outlives it: unless the process was killed, a
\* server that is still alive has a flow that still awaits it.
NoServerLeft ==
  \A s \in Servers : server[s].child = "alive" => server[s].step \in Awaiting \cup {"lost"}

\* A workspace is cleaned only when no server that the runtime knows uses it.
CleanedIsQuiet ==
  workspace = "cleaned" => \A s \in Servers : server[s].step \notin Awaiting
=============================================================================
