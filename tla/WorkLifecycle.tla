---------------------------- MODULE WorkLifecycle ----------------------------
(***************************************************************************)
(* The work of one project: items, their dependencies, the assignments made *)
(* to complete them, and the goal revisions that make them stale.          *)
(*                                                                         *)
(* Every operation is one synchronous method, but several of them commit   *)
(* statement by statement: a process killed in between leaves the first of *)
(* them behind.  The delivery module extends this one.                     *)
(***************************************************************************)
EXTENDS Integers, Sequences

CONSTANTS
  Items,
  InitialGraph,  \* the items of the phase 1 graph, in the order they are created
  PlanGraph,     \* the items of the strategy's plan, in the order they are created
  DependsOn,     \* per item, the dependencies its definition names
  OperatorMoves, \* the statuses an operator moves items to
  ByHand,        \* the items assigned, finished and verified through the HTTP API
  Impacts,       \* the sets of items a goal revision may name as affected
  Assignments, None,
  MaxVersion, MaxBriefs, MaxCrashes, \* bounds: the version of each item, briefs, kills
  KilledAfter    \* the numbers of statements a killed method may have carried out

ASSUME WorkAssumption ==
  /\ InitialGraph \in Seq(Items)
  /\ PlanGraph \in Seq(Items)
  /\ DependsOn \in [Items -> SUBSET Items]
  /\ ByHand \subseteq Items
  /\ Impacts \subseteq SUBSET Items
  /\ None \notin Items
  /\ KilledAfter \subseteq Nat

VARIABLES
  item,       \* work_items: status and version
  depends,    \* work_dependencies: the rows <<item, the item it depends on>>
  specs,      \* the items that have a phase 3 specification
  activation, \* per item, the workforce activations of its specification
  assignment, \* assignments, each with the item's version it was made for
  evidence,   \* the items some evidence is recorded for
  brief,      \* the version of the accepted brief
  pending,    \* the briefs whose revision's impact was never applied
  pack,       \* the latest project pack
  cut,        \* a graph was generated by halves
  crashes     \* how often the process was killed

workVars ==
  <<item, depends, specs, activation, assignment, evidence, brief, pending, pack, cut, crashes>>

-----------------------------------------------------------------------------
\* workItemTransitions; no row of the table leads to complete.
Successors == [
  absent           |-> {},
  draft            |-> {"ready", "canceled", "stale", "superseded"},
  ready            |-> {"running", "blocked", "needs_attention", "canceled", "stale", "superseded"},
  running          |-> {"waiting_external", "needs_attention", "blocked", "failed", "canceled",
                        "stale", "superseded"},
  waiting_external |-> {"ready", "running", "needs_attention", "blocked", "failed", "canceled",
                        "stale", "superseded"},
  needs_attention  |-> {"ready", "blocked", "canceled", "stale", "superseded"},
  blocked          |-> {"ready", "failed", "canceled", "stale", "superseded"},
  failed           |-> {"ready", "canceled", "stale", "superseded"},
  complete         |-> {"stale", "superseded"},
  stale            |-> {"superseded"},
  canceled         |-> {},
  superseded       |-> {}]

ItemStatus == DOMAIN Successors

AssignmentStatus ==
  {"absent", "created", "running", "execution_finished", "superseded", "blocked", "failed",
   "canceled"}

NoAssignment ==
  [status |-> "absent", item |-> None, version |-> 0, verified |-> "unverified"]

WorkTypeOK ==
  /\ item \in [Items -> [status: ItemStatus, version: Nat]]
  /\ depends \subseteq Items \X Items
  /\ specs \subseteq Items
  /\ assignment \in [Assignments -> [status: AssignmentStatus, item: Items \cup {None},
                                     version: Nat, verified: {"unverified", "passed", "failed"}]]
  /\ activation \in [Items -> {"none", "required", "active", "satisfied"}]
  /\ evidence \subseteq Items
  /\ brief \in Nat
  /\ pending \subseteq Nat
  /\ pack \in [kind: {"none", "base", "phase3"}, brief: Nat, current: BOOLEAN]
  /\ cut \in BOOLEAN
  /\ crashes \in Nat

WorkInit ==
  /\ item = [w \in Items |-> [status |-> "absent", version |-> 0]]
  /\ depends = {}
  /\ specs = {}
  /\ activation = [w \in Items |-> "none"]
  /\ assignment = [a \in Assignments |-> NoAssignment]
  /\ evidence = {}
  /\ brief = 1
  /\ pending = {}
  /\ pack = [kind |-> "none", brief |-> 0, current |-> FALSE]
  /\ cut = FALSE
  /\ crashes = 0

-----------------------------------------------------------------------------
(* Generating the graph: first the items, then the rows of its dependencies. *)

Exists(w) == item[w].status # "absent"

\* Mutant: an item is created with a status its table does not know.
NewItemProposed(w) == [status |-> IF DependsOn[w] = {} THEN "ready" ELSE "proposed", version |-> 1]

NewItem(w) == [status |-> IF DependsOn[w] = {} THEN "ready" ELSE "draft", version |-> 1]

\* How many of a method's n statements are carried out: all of them, unless the
\* process is killed first.
StatementsOf(n) == IF crashes < MaxCrashes THEN {n} \cup (KilledAfter \cap 0..n) ELSE {n}

CarriesOut(k, n) == crashes' = IF k < n THEN crashes + 1 ELSE crashes

\* The items of a graph whose statement is among the first k, when the item
\* created first has the statement of that number and the next ones follow by step.
Reached(graph, first, step, k) ==
  {w \in Items : \E j \in DOMAIN graph : graph[j] = w /\ first + step * (j - 1) <= k}

DependencyRows(reached) == {r \in reached \X Items : r[2] \in DependsOn[r[1]]}

EnsureInitialWorkGraph ==
  /\ \A w \in Items : ~Exists(w)
  /\ LET n == Len(InitialGraph) IN
     \E k \in StatementsOf(2 * n) :
       /\ item' = [w \in Items |-> IF w \in Reached(InitialGraph, 1, 1, k) THEN NewItem(w) ELSE item[w]]
       /\ depends' = depends \cup DependencyRows(Reached(InitialGraph, n + 1, 1, k))
       /\ cut' = (cut \/ k \in 1..(2 * n - 1))
       /\ CarriesOut(k, 2 * n)
  /\ UNCHANGED <<specs, activation, assignment, evidence, brief, pending, pack>>

Room(w) == item[w].version < MaxVersion[w]

\* Mutant: a change of status keeps the version.
MovedInPlace(w, s) == [status |-> s, version |-> item[w].version]

Moved(w, s) == [status |-> s, version |-> item[w].version + 1]

TransitionWorkItem(w, s) ==
  /\ s \in Successors[item[w].status]
  /\ Room(w)
  /\ item' = [item EXCEPT ![w] = Moved(w, s)]
  /\ UNCHANGED <<depends, specs, activation, assignment, evidence, brief, pending, pack, cut, crashes>>

Superseded(w) ==
  IF item[w].status \in {"complete", "canceled", "superseded"} THEN item[w] ELSE Moved(w, "superseded")

\* The items of the phase 1 graph are superseded one by one; then every item is
\* inserted, after it its specification and its activations; then the dependencies.
EnsurePlan ==
  /\ specs = {}
  /\ \A w \in Items : Exists(w) => (\E j \in DOMAIN InitialGraph : InitialGraph[j] = w) /\ Room(w)
  /\ LET i == Len(InitialGraph)
         n == Len(PlanGraph)
     IN \E k \in StatementsOf(i + 4 * n) :
          /\ item' = [w \in Items |->
               IF Exists(w) /\ w \in Reached(InitialGraph, 1, 1, k) THEN Superseded(w)
               ELSE IF w \in Reached(PlanGraph, i + 1, 3, k) THEN NewItem(w)
               ELSE item[w]]
          /\ specs' = Reached(PlanGraph, i + 2, 3, k)
          /\ activation' = [w \in Items |->
               IF w \in Reached(PlanGraph, i + 3, 3, k) THEN "required" ELSE activation[w]]
          /\ depends' = depends \cup DependencyRows(Reached(PlanGraph, i + 3 * n + 1, 1, k))
          /\ cut' = (cut \/ k < i + 4 * n)
          /\ CarriesOut(k, i + 4 * n)
  /\ UNCHANGED <<assignment, evidence, brief, pending, pack>>

-----------------------------------------------------------------------------
(* Readiness *)

DependenciesComplete(w) ==
  \A d \in Items : <<w, d>> \in depends => item[d].status = "complete"

Active(a) ==
  /\ assignment[a].status \in {"created", "running", "execution_finished"}
  /\ assignment[a].verified = "unverified"

\* Mutant: a dependency that is ready is enough.
EligibleBeside(w) ==
  /\ item[w].status = "ready"
  /\ \A a \in Assignments : assignment[a].item = w => ~Active(a)

\* Mutant: an assignment whose execution is finished no longer counts.
EligibleOnceFinished(w) ==
  /\ item[w].status = "ready"
  /\ DependenciesComplete(w)
  /\ \A a \in Assignments : assignment[a].item = w => assignment[a].status \notin {"created", "running"}

Eligible(w) ==
  /\ item[w].status = "ready"
  /\ DependenciesComplete(w)
  /\ \A a \in Assignments : assignment[a].item = w => ~Active(a)

\* The items a refresh would make ready, given the items' states it.
Due(it) ==
  {w \in Items : it[w].status = "draft"
                 /\ \A d \in Items : <<w, d>> \in depends => it[d].status = "complete"}

Refreshed(it, S) ==
  [w \in Items |->
     IF w \in S THEN [status |-> "ready", version |-> it[w].version + 1] ELSE it[w]]

\* One update per item: killed in between, the next refresh goes on.
RefreshDerivedReadiness ==
  /\ \A w \in Due(item) : Room(w)
  /\ \E S \in SUBSET Due(item) :
       /\ S = Due(item) \/ crashes < MaxCrashes
       /\ item' = Refreshed(item, S)
       /\ crashes' = IF S = Due(item) THEN crashes ELSE crashes + 1
  /\ UNCHANGED <<depends, specs, activation, assignment, evidence, brief, pending, pack, cut>>

-----------------------------------------------------------------------------
(* Project packs.  The pack in use is reused when its content is what would *)
(* be generated, so that either way the current pack is the one below.      *)

BasePack == [kind |-> "base", brief |-> brief, current |-> TRUE]

GenerateProjectPack ==
  /\ pack' = BasePack
  /\ UNCHANGED <<item, depends, specs, activation, assignment, evidence, brief, pending, cut, crashes>>

\* The slice itself is bound to the item's version and never changes.
CreateContextSlice(w) == Exists(w) /\ GenerateProjectPack

-----------------------------------------------------------------------------
(* Assignments *)

NewAssignment(w, s) ==
  [status |-> s, item |-> w, version |-> item[w].version, verified |-> "unverified"]

\* The identity a new assignment gets, while there is one that was not used before.
FreshIds ==
  LET unused == {a \in Assignments : assignment[a] = NoAssignment} IN
  IF unused = {} THEN {} ELSE {CHOOSE a \in unused : TRUE}

CreateAssignment(a, w) ==
  /\ Eligible(w)
  /\ assignment' = [assignment EXCEPT ![a] = NewAssignment(w, "created")]
  /\ pack' = BasePack
  /\ UNCHANGED <<item, depends, specs, activation, evidence, brief, pending, cut, crashes>>

\* The item has not changed since the assignment was made for it.
Current(a) ==
  /\ assignment[a].item \in Items
  /\ item[assignment[a].item].version = assignment[a].version

StartAssignment(a) ==
  /\ assignment[a].status = "created"
  /\ Current(a)
  /\ assignment' = [assignment EXCEPT ![a].status = "running"]
  /\ UNCHANGED <<item, depends, specs, activation, evidence, brief, pending, pack, cut, crashes>>

FinishAssignmentExecution(a) ==
  /\ assignment[a].status = "running"
  /\ Current(a)
  /\ assignment' = [assignment EXCEPT ![a].status = "execution_finished"]
  /\ UNCHANGED <<item, depends, specs, activation, evidence, brief, pending, pack, cut, crashes>>

\* Evidence belongs to the item: that of an earlier assignment counts too.
AddAssignmentEvidence(a) ==
  /\ assignment[a].status = "execution_finished"
  /\ evidence' = evidence \cup {assignment[a].item}
  /\ UNCHANGED <<item, depends, specs, activation, assignment, brief, pending, pack, cut, crashes>>

\* Mutant: an assignment may be verified without evidence.
VerifyUnevidenced(a, outcome) ==
  /\ assignment[a].status = "execution_finished"
  /\ Current(a)
  /\ Room(assignment[a].item)
  /\ item' = [item EXCEPT ![assignment[a].item] =
       Moved(assignment[a].item, IF outcome = "passed" THEN "complete" ELSE "needs_attention")]
  /\ assignment' = [assignment EXCEPT ![a].verified = outcome]
  /\ UNCHANGED <<depends, specs, activation, evidence, brief, pending, pack, cut, crashes>>

\* A pass completes the item only if it is still ready: otherwise nothing commits.
VerifyAssignment(a, outcome) ==
  /\ assignment[a].status = "execution_finished"
  /\ Current(a)
  /\ Room(assignment[a].item)
  /\ outcome = "passed" =>
       assignment[a].item \in evidence /\ item[assignment[a].item].status = "ready"
  /\ item' = [item EXCEPT ![assignment[a].item] =
       Moved(assignment[a].item, IF outcome = "passed" THEN "complete" ELSE "needs_attention")]
  /\ assignment' = [assignment EXCEPT ![a].verified = outcome]
  /\ UNCHANGED <<depends, specs, activation, evidence, brief, pending, pack, cut, crashes>>

-----------------------------------------------------------------------------
(* Goal revision: the brief commits first, the impact after it. *)

\* Mutant: the pack of the earlier brief stays current.
ImpactButPack(affected) ==
  /\ item' = [w \in Items |->
       IF w \in affected /\ item[w].status \notin {"canceled", "superseded"}
       THEN Moved(w, "stale") ELSE item[w]]
  /\ assignment' = [a \in Assignments |->
       IF assignment[a].item \in affected /\ assignment[a].status \in {"created", "running"}
       THEN [assignment[a] EXCEPT !.status = "superseded"] ELSE assignment[a]]
  /\ UNCHANGED <<pack, pending>>

Impact(affected) ==
  /\ item' = [w \in Items |->
       IF w \in affected /\ item[w].status \notin {"canceled", "superseded"}
       THEN Moved(w, "stale") ELSE item[w]]
  /\ assignment' = [a \in Assignments |->
       IF assignment[a].item \in affected /\ assignment[a].status \in {"created", "running"}
       THEN [assignment[a] EXCEPT !.status = "superseded"] ELSE assignment[a]]
  /\ pack' = [pack EXCEPT !.current = FALSE]
  /\ UNCHANGED pending

ReviseProjectGoal(affected) ==
  /\ brief < MaxBriefs
  /\ \A w \in affected : Exists(w) /\ Room(w)
  /\ brief' = brief + 1
  /\ \/ Impact(affected) /\ UNCHANGED crashes
     \/ /\ crashes < MaxCrashes
        /\ crashes' = crashes + 1
        /\ pending' = pending \cup {brief + 1}
        /\ UNCHANGED <<item, assignment, pack>>
  /\ UNCHANGED <<depends, specs, activation, evidence, cut>>

-----------------------------------------------------------------------------
HandedToApi(a) == assignment[a].item \in ByHand

WorkNext ==
  \/ EnsureInitialWorkGraph
  \/ EnsurePlan
  \/ RefreshDerivedReadiness
  \/ \E w \in ByHand : CreateContextSlice(w)
  \/ \E w \in Items, s \in OperatorMoves : TransitionWorkItem(w, s)
  \/ \E a \in FreshIds, w \in ByHand : CreateAssignment(a, w)
  \/ \E a \in Assignments : HandedToApi(a) /\ StartAssignment(a)
  \/ \E a \in Assignments : HandedToApi(a) /\ FinishAssignmentExecution(a)
  \/ \E a \in Assignments : HandedToApi(a) /\ AddAssignmentEvidence(a)
  \/ \E a \in Assignments, outcome \in {"passed", "failed"} :
       HandedToApi(a) /\ VerifyAssignment(a, outcome)
  \/ \E affected \in Impacts : ReviseProjectGoal(affected)

-----------------------------------------------------------------------------
(* What the lifecycle promises *)

\* An item is complete only by a verification that passed, of an assignment made
\* for the very version the item had before, and with evidence on record.
CompletionIsVerified ==
  \A w \in Items : item[w].status = "complete" =>
    /\ w \in evidence
    /\ \E a \in Assignments :
         /\ assignment[a].item = w
         /\ assignment[a].verified = "passed"
         /\ assignment[a].version + 1 = item[w].version

\* However assignments are made, retried, revised away or left behind, no two of
\* them work on one item at the same time.
OneActiveAssignment ==
  \A a, b \in Assignments :
    Active(a) /\ Active(b) /\ assignment[a].item = assignment[b].item => a = b

\* While an item still has the version an assignment was made for, it is ready:
\* the one comparison of versions tells every change of the item's state.
VersionWitnessesReady ==
  \A a \in Assignments : Current(a) => item[assignment[a].item].status = "ready"

\* Unless a graph was generated by halves, work on an item is assigned only after
\* work on everything its definition depends on has passed its verification.
DependenciesFirst ==
  cut \/ \A a \in Assignments : assignment[a].item \in Items =>
    \A d \in DependsOn[assignment[a].item] :
      \E b \in Assignments : assignment[b].item = d /\ assignment[b].verified = "passed"

\* The current pack is that of the accepted brief, unless the process was killed
\* inside a goal revision, which then remains pending.
PackOfTheBrief == pack.current => pack.brief = brief \/ brief \in pending
=============================================================================
