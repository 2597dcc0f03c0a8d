# Workflow OS: a verification project

This directory holds TLA+ models of the control plane of Workflow OS, the TLC
configurations that check them on small instances, and proofs of their main
theorems for TLAPS. Paths below are relative to the repository
(`src/` is its root; the service's code is in `src/src/`).

## The system

Workflow OS is one Node process. Its state is in a SQLite database reached
through a *synchronous* driver (`node:sqlite`), so a method without `await` runs
to its end with nothing in between, and a transaction commits as a whole or not
at all. Three things make the system hard all the same:

* **awaits** - model providers, GitHub, local servers - at which any other
  request may run (`analyze`, `execute`, `reconcile`, `runWorkItem`);
* **methods that commit in several statements**, where a process killed in
  between, or a later statement that throws, leaves the earlier ones;
* **a context that moves**: approvals, plans and attempts are bound to versions of
  a project and of its work items, to a spend envelope and to an expiry, and any
  of them may change between a decision and its use.

### Inventory

| Component | State | Operations | What is hard | What makes it correct |
|---|---|---|---|---|
| External action ledger `domain/phase40-external-actions.js`, migrations 0011, 0013-0015 | plans, approvals, attempts, reconciliations | createPlan, requestAuthority, resolveAuthority, preflight, startAttempt, finishAttempt, reconcile, complete | staleness, supersession, retry after an uncertain outcome, interrupted methods | authority holds at use; reconcile before retry; bounded attempts; completion only of a confirmed effect |
| Source control delivery `domain/phase41-source-control.js`, migration 0016 | delivery rows mirroring the plan's status, under a unique index per branch | compilePlan, requestAuthority, resolveAuthority, execute, reconcile, get | two requests at once, crashes inside execute, a mirror that lags | one mutator at a time; the branch is held while it is written; complete means delivered |
| GitHub adapter `runtime/github-source-control-adapter.js` | none of its own; branch, commit and pull request on the remote | inspect, executeBundle, reconcile | lost answers, late requests, partial mutations, other collaborators | nothing overwritten; one commit per bundle; honest outcomes |
| Adaptive discovery `domain/phase31-discovery.js`, migration 0009 | rounds, questions, findings, research decisions, recommendations | analyze, answerQuestions, accept | overlapping analyses finishing in any order; acceptance during an analysis | one live round; every answer heard; provenance kept |
| Project intake `domain/canonical-store.js` | intake, responses, strategy, brief versions | startProjectIntake, saveDiscoveryResponses, setWorkingDeliveryStrategy, acceptProjectIntake | the older endpoints remain served beside discovery | an accepted intake is final |
| Control plane `domain/phase1-control-plane.js`, migrations 0004, 0008 | approvals, assignments, results, verifications, packs, spend requests, envelopes, costs, repository proposals | ensureInitialWorkGraph, refreshDerivedReadiness, reviseProjectGoal, the assignment's life, requestSpend, resolveSpendRequest, executeMeteredAction, resolveApproval | versions that move under assignments and approvals; methods of several commits | nothing is complete unverified or verified stale; spend within the envelope |
| Work items and versions `domain/canonical-store.js` | status, version, dependencies | createWorkItem, transitionWorkItem, addWorkDependency | an item that leaves `ready` and comes back; items without their dependencies | one active assignment per item; work only after what it depends on |
| Autonomy kernel `domain/phase2-autonomy-kernel.js`, migrations 0005, 0006 | loops, attempts, routes, connections | runWorkItem, runPortabilityDrill, selectRoute | awaits between the checks of spend, route and item and their use; replacement of failed routes | bounded loops; a verifier independent of the worker; charges equal use |
| Free-first broker `domain/free-first-broker.js`, migration 0007 | usage counters, quota snapshots, accounted attempts, enabled routes | provisionFreeRoutes, syncUsageFromAttempts, applyPolicy, runFreeFirstWorkItem | counters read and written around provider calls; a policy older than the use | each attempt counted once; the reserve is left to verifiers |
| Workforce planning `domain/phase32-workforce.js` | specifications, activations, the work graph | ensurePlan | a graph generated statement by statement | dependencies exist before work is ready |
| Delivery, verification, repair `domain/phase34-delivery.js`, `phase35-certification.js` | assignments, evidence, repairs, flows, delivery records | createAssignment, completeAssignment, failAssignment, recordRepair, runLocalLeadFlow, independentReview, createDeliveryRecord | several statements per operation; a flow that awaits its server | an activation is satisfied only by what passed |
| Governed workspace `runtime/governed-workspace.js` | files, manifest, processes | prepare, writeFile, deleteFile, runCommand, startLocalServer, stopProcess, cleanup | awaits around start and stop | no server outlives its flow, or is used in a cleaned workspace |

Requests reach these components over HTTP (`http/*.js`), which adds routing and
parsing but no state. `PROJECT.json` lists every component, the ones left out too,
and each hazard at its line.

### How the components interact

* `phase41` calls `phase40` synchronously, and mirrors the plan's status into its
  own table after each call. `phase40` has endpoints of its own, for deliveries too: a plan may be superseded, attempted,
  reported, reconciled or completed without the mirror.
* `phase40` asks the control plane for approvals; the triggers of migration 0008
  refuse an approval whose work item has moved on. A goal revision
  (`reviseProjectGoal`) raises versions and supersedes approvals under the
  feet of every plan.
* Items, assignments and packs are shared by the HTTP API, phase 3 delivery and the kernel. None
  of them locks anything: an assignment remembers the version of its item, and the later
  operations on it compare the two.
* The kernel asks the spend gate before a call and charges it after the call; the broker
  chooses the routes the kernel may see and counts its attempts before and after its loop.
* `phase31` writes through the intake's methods; an accepted brief raises the project's
  version, on which plans depend.

## The modules

| Module | Models | Composed of |
|---|---|---|
| `GovernedEffect` | the abstract promise about one effect: tried only while authorized, tried again only after it was seen not to have happened, boundedly often | |
| `ExternalActions` | the ledger | implements `GovernedEffect` |
| `SourceControl` | delivery service + GitHub adapter + remote | `Ledger == INSTANCE ExternalActions` over the same variables |
| `Discovery` | adaptive discovery and intake | |
| `WorkLifecycle` | work items, dependencies, packs, assignments, goal revision | |
| `Delivery` | phase 3 tasks, local flow, workspace, review and delivery | EXTENDS `WorkLifecycle` |
| `AutonomyLoop` | the kernel's loops and drills, and the spend gate | EXTENDS `WorkLifecycle` |
| `FreeFirst` | the broker's quota, policy and loops | EXTENDS `AutonomyLoop` |
| `ExternalActionsProofs`, `SourceControlProofs`, `DiscoveryProofs`, `WorkLifecycleProofs`, `DeliveryProofs`, `AutonomyProofs`, `SpendProofs` | theorems | EXTEND the module they are about (`AutonomyProofs`: `FreeFirst`; `SpendProofs`: `AutonomyProofs`), and TLAPS; `SourceControlProofs` takes the ledger's theorems by `L == INSTANCE ExternalActionsProofs` |
| `MCExternalActions`, `MCSourceControl`, `MCDelivery`, `MCFreeFirst` | symmetry sets and the constants of an instance | |

### ExternalActions

`content` is the hashed, immutable part of `external_action_plans`; `status` and
`approvalOf` are its mutable columns; `approval` is the `approvals` table; `attempts[p]`
joins the attempts of a plan, in `attempt_number` order, with the decided class of
their reconciliation. `projectVersion`, `itemVersion`, `expired` and `envelopeOpen` are
the context. Adapter, target, inputs and limits are one value, an *intent*: what
the ledger compares of them is only whether they are equal. Each
method is one action: `CreatePlan`, `SelfAuthorize`/`RequestAuthority`,
`ApproveAuthority`/`RejectAuthority`, `StartAttempt`/`StartRefused` (a refused start
blocks the plan), `FinishAttempt`, `Reconcile`, `Complete`. Two methods commit twice:

* `requestAuthority` inserts the approval, then names it in the plan:
  `RequestAuthorityInterrupted` is the process killed in between. The approval
  left behind is an orphan that may be approved but names no plan that uses it.
* `resolveAuthority` resolves the approval, then writes the plan's status.
  Killed in between it leaves what `ResolveApproval`, the general approval endpoint,
  leaves; and if the plan is found stale after the first write it throws, which is the `ELSE` of
  `ApproveAuthority`.

`Block` and `MarkUncertain` are the two status writes the source control service makes on
its own. The mapping rows a confirmed reconciliation adds are never read back by the
ledger and are left out; two reconciliations of one millisecond are
taken in the order they were made (see the plan).

### SourceControl

The ledger's variables are shared; `delivery` is the mirror; `artifact` says whether the
workspace still matches the verified manifest; `call[c]` is one request the server
holds, with the await it is suspended at (`pc`), the plan it was made for, the attempt it works on, the plan
that attempt was made under (`of`) and what it has seen. `reconcile` takes any attempt: the observation is made of `plan`
and applied to `of`. `confirmedBy` is history: whether a plan's attempt was confirmed by the service's observation of
the plan itself, of another plan, or by an operator. One action is one stretch between awaits:

| `pc` | the call awaits | then |
|---|---|---|
| `remote` | the reads of `#assertRemotePreconditions` | `RemoteAccepted` (start the attempt), `RemoteRefused` (block), `StartThrows` |
| `check` | the existence checks of `executeBundle` | `BundleClear`, `BundleReused`, `BundleRefused` |
| `create`, `update`, `pull` | createRef, updateRef, the pull request | `RequestAnswered`, `PullFound`, `RequestRefused`, `RequestLost` |
| `observe`, `observePull` | the reads of `adapter.reconcile` | `ObserveBranch`, `ObservePull`, `ObserveFails` |
| `decide` | the last read's answer | `DecideConfirmed`, `DecideUnconfirmed`, `DecideAgain` (an attempt decided before), `DecideTooLate` |

`executeBundle` creates the ref at the base, builds blob, tree and commit (objects no branch
points to, hence no state), moves the ref, and opens the pull request. A request whose answer is lost joins
`inFlight`, from which `LateRequest` may carry it out at any later time, also after
an observation that did not see it. `Interfere` is one act of another collaborator,
`Crash` the end of the process: all calls are gone, and what they had sent may still arrive.

Operators reach deliveries through the ledger's endpoints as well: `LedgerPlan` makes a plan without a mirror, which may
supersede a delivery; `OperatorAttempt` starts an attempt, finishes one with any outcome, or completes a verified plan;
`OperatorReconcile` reports any classification. `ByHand` says which of them an instance has. Every method of the service
ends with `get` (`ThenGet`); a mirror write that the unique index refuses throws and ends the call (`ThenSync`), wherever the ledger then is.

`CarryOut` is external: what GitHub does with a request, as the adapter relies on it
(createRef refuses an existing ref; updateRef without `force` moves a ref only
forward; one open pull request per branch).

### Discovery

`runs` holds the rounds in order, each with its status, the status of its
questions, its findings, its decision on research and its recommendation, each with a status of its own, and, as history,
the answers its prompt was rendered from (`heard`). `accept` decides the decision and the recommendation and
leaves the findings proposed; `#supersede` (`Superseded`) takes from every other round what is still open or proposed. `awaited` is
the set of rounds this process still waits for: a crash empties it and
leaves the rounds running forever. `analyze` is `AnalysisStarts`, then, after the await,
`AnalysisSucceeds` or `AnalysisFails`; `accept` is `Accept` or, since
it commits four transactions, `AcceptStops` (at most responses and strategy are saved) or
`AcceptUnattributed` (the brief is accepted but names no round).

### WorkLifecycle

`item` holds status and version of `work_items`, `depends` the rows of `work_dependencies`,
`specs` and `activation` what `ensurePlan` adds per item, `assignment` the assignments with their
item's version and the latest verification, `evidence` the items with evidence on record, `pack` the
latest project pack. Each synchronous method is one action. Four of them commit statement by statement, and
a process that is killed leaves the first k behind (`StatementsOf`, `CarriesOut`):

* `EnsureInitialWorkGraph`, `EnsurePlan`: all items first, then all dependencies. Killed in between,
  items exist without dependencies and count as ready; since both methods do nothing when there
  are items (specifications), nobody adds the rest. The flag `cut` is history: a graph was generated by halves.
* `ReviseProjectGoal`: the brief is one transaction, its impact the next. `pending` is history too: the briefs
  whose impact was never applied.
* `RefreshDerivedReadiness`: one update per item; the next refresh goes on.

All dependency rows of one item count as one statement. `createMockAssignment`'s bound by a spend envelope and
the readiness reason `approval_pending` are left out. Evidence is keyed by item,
as the code's queries are: evidence of an earlier assignment, or of an earlier brief, counts.

### Delivery

A *task* is what the golden path does for one item: it makes an assignment, starts it, does the item's own work and
completes or fails it. Its ten statements are numbered in the module's comment, and `Perform` carries out those after
`from` up to `k`. Only the local flow awaits something: its task runs to the
server's start (`FlowTask`), and goes on where the flow ended (`FlowSettles`, from statement 5), or throws
(`FlowThrows`) because someone else moved the item or finished the assignment in the meantime.
`server[s]` holds the process row, the process itself and the await of its flow. After SIGTERM, a child
that ended by the signal keeps `exitCode = null`, so that SIGKILL follows (`Escalate`) for it too.

The golden path runs its tasks in one fixed order; here a task may run whenever its item is ready, which is all
`createAssignment` asks for: the fixed order is one of the behaviours. `runLocalLeadFlow`, `cleanup`, `deleteFile` have no
caller in the HTTP API, only in the certification script and in tests; they may be called here whenever they
could be. Found while modelling, and legal: a failed review leaves evidence that `createDeliveryRecord` accepts as a review; a task whose
own work throws leaves its assignment running, so that its item is blocked until a revision; after a revision the
stale items can only be superseded and no operation makes new ones; a workspace that was cleaned is never
writable again; and `ensurePlan`, killed after its first specification, is never continued.

### AutonomyLoop and FreeFirst

`loop[a]` is the loop that runs assignment `a`: the status of its row, the provider call it awaits, iteration,
routes, the routes that failed it and the terms it was started under. `attempts` holds the attempts that run or have succeeded,
`spend` one spend request with its approval and its envelope. One action is what the process does between two awaits:
`RunWorkItem` up to the first call, `WorkerReturns`, `VerifierReturns`, `RunPortabilityDrill`,
`DrillReturns`; the operators `Verify`, `ReplaceWorker`, `ReplaceVerifier`, `NextTurn`, `Settle`, `Stop`
are the branches of the loop's body. Routing is reduced to which routes are eligible: scores depend on policy, latency and health, so any
eligible route may win. `Settle` writes assignment, evidence, verification and loop one after the other, and any of them may be the last
before a kill; if the item or the assignment was moved by someone else meanwhile, its first statement throws and the loop's row says "running" for good.

`FreeFirst` adds what the broker does around the loop: it counts what was not yet accounted (`Synced`), derives quota (`Snapshots`),
enables what the quota allows (`Applied`), starts the loop on these routes, and counts again if the loop
returns (`FollowedBySync`), not if it throws. `KilledInSync` is a kill between counting an attempt and marking it as accounted.
Syncs, policy and loops are also open to everyone through the HTTP API; the assignment endpoints are not part of this run, they are `delivery`'s.

Found while modelling, and legal: a charge that is refused after the call (the goal was revised while the provider worked) makes the attempt
fail although the provider did the work, at a cost that is nowhere recorded; the general approval endpoint
approves a spend request's approval and leaves the request `requested` for good; a drill overwrites its assignment whatever became of it; a
loop killed with its process keeps its item blocked until a revision.

## The runs

Deadlock checking is off in every run, because a behaviour may really end: plans
complete or fail, rounds are used up, bounded versions are exhausted.

| Run | Instance | Question |
|---|---|---|
| `ext_actions` | 2 plans of one intent, 2 approvals, 1 work item, versions to 2, recovery absent (2 attempts) | do the ledger's tables agree, are retries reconciled and bounded, does authority hold at use, and is `GovernedEffect` implemented? |
| `ext_requests` | 1 plan, 2 work items, all action classes and authorities, recovery 0, 1, 3 | the same over every shape of request |
| `source_control` | 1 plan, 2 calls at once, attempts finished by hand | is there one mutator and one commit, and is no attempt forgotten? |
| `delivery_by_hand` | 1 plan, 1 call, crashes, every endpoint of the ledger by hand, fairness | do the ledger's tables agree, is one commit made and nothing overwritten, is completion only of what is there, and does every call end? |
| `two_deliveries` | 2 plans of different intents for one branch, 1 call, any attempt reconciled under any plan | is the branch held while it is written, and does no plan complete on what it did not deliver? |
| `discovery` | 3 rounds, 2 questions, 2 brief versions, crashes | is one round live, is every answer heard, does provenance hold, is nothing open at acceptance? |
| `delivery` | phase 1 graph of one item; a custom build's plan from the workspace on (6 items in a chain); 6 assignments, 1 server, 2 briefs, 1 kill after 2, 4, 5, 7 or 24 statements or at an await | is work verified before what builds on it, done by one assignment at a time, for the versions it was made for, and is no server left? |
| `autonomy` | 1 item, 2 assignments, 3 routes (a free worker, a free verifier and a metered one, of two groups), 2 iterations, amounts of 1, 1 kill, fairness | are spend, usage and outcome what happened, is the reserve kept, and does every loop end? |
| `accepted_final` | as `discovery` | disagreement 4 below |
| `execution_abandoned` | 3 plans, 1 call, plans made by hand | disagreements 5 and 6 |
| `completed_undelivered` | 2 plans, 1 call, completion by hand | disagreement 7 |
| `self_certified` | as `autonomy`: the metered route, of the verifier's group, replaces the worker | disagreement 10 |

Definitions whose comment begins with "Mutant:" are plausible bugs, each written before the
definition it would replace. For every property of a passing run, `PROJECT.json`
names one that makes TLC find the property violated, so no property holds whatever the code does.

### Bounds, and why they are enough

* *Two plans* are the fewest that can supersede one another, share an intent or
  compete for a branch; the invariants relate a plan to itself or to one
  other. *Two approvals* give one orphan beside one that counts.
* *`MaxVersion` = 2*: staleness is a version that differs, and one step makes it differ.
  In the source control runs it is 1: the plan's context is then stale by expiry and
  by rejection only, and version staleness is the ledger's runs' matter. Actions that would
  raise a version are disabled there.
* *Attempts* need no bound: the ledger has its own (`maxAttempts`, 2 by default).
  Two attempts are what a retry takes.
* *Two calls* are the fewest that race; *one interference* is enough since
  every property about the remote is stated either until it or across steps other than it. Kills and every ledger endpoint
  are left to the runs with one call, which a kill interrupts at the same statements; the theorems cover all of them together.
* *Two plans* without supersession are what one observation, applied to another attempt, takes; superseding a delivery and
  giving its branch to another takes a third plan, the one that supersedes (`execution_abandoned`).
* *Three rounds* is the code's own limit, `MAX_DISCOVERY_ROUNDS`. *Two questions* allow one to be
  answered while the other is open. *Two brief versions*: one accepted, one revised.

* *`delivery`*: the chain of a custom build without its two text tasks (they differ from the preparation of the
  workspace in nothing the model sees), and one item of the phase 1 graph to be superseded. One
  item may be moved and assigned by hand: the flow, the one that awaits. Six assignments are one
  for each item, or a second try of the flow and all up to the review. `MaxVersion` gives each item what creation, readiness,
  completion, a second try (the flow) and a revision take. The numbers in `KilledAfter` stop a graph
  within its items and within its dependencies, and a task before, between and after the writes that must agree; other numbers
  stop between the same ones. One kill: what a kill leaves is judged by all that follows it.
* *`autonomy`*: two assignments of one item are the fewest whose calls overlap (a drill or a
  loop beside what is left of another one); three routes of two groups let each role be replaced once; two iterations are a try and a
  retry; an envelope of one estimate can be used by exactly one of a loop, a drill and a metered action.
  A limit of two requests takes a counted bucket from healthy to exhausted, and reports of `reserved` cover the quota in between.

Symmetry over plans, approvals, calls and intents is used in the safety runs only.

### Fairness

`delivery_by_hand` assumes `WF_vars(CallStep(c))` for each call: a call suspended at an await
goes on, because `fetch` either answers or fails by the runtime's own time limit, and each
branch of the code that follows is synchronous. Nothing is assumed of operators, of
collaborators, of requests that were given up or of kills, though all of them may act. `EveryCallEnds` is about calls only: that
a plan does not stay executing is false. A killed `execute` leaves its plan executing until an operator reports the attempt, an operator may
start an attempt and never report it, and a refused mirror does the same without either (`execution_abandoned`); no fairness of the code's own
would repair these. What a call itself executes is settled: `BundlesFinish`, an action property of `source_control`, says
that a call lets go of an open attempt in no other way than a kill.

`autonomy` assumes `WF_vars(Returns(a))` per assignment: the call a loop awaits answers or throws. The adapter's own limit of
90 seconds ends with the headers (`timedFetch`, `provider-adapters.js:142`, clears its timer then); the body that follows is read under
the runtime's limit only. What follows is synchronous up to the next call. A
killed loop awaits nothing any more (`"lost"`), so that no fairness of the process is assumed.

## Where the code and the documents disagree

Four of these have a run whose trace shows them (the name in parentheses); the others are
short behaviours of the same modules.

1. **A superseded plan can be revived** (part of `execution_abandoned`). `resolveAuthority`
   (`phase40-external-actions.js:117`) writes the plan's status without looking at it. A plan that
   is superseded while its approval is requested becomes `authorized` when that approval is
   approved. `docs/architecture/external-action-contract.md:53` says a change creates a new
   plan "and supersedes the old one". `UntouchedWhileRequested` proves how far this can go: such a
   plan has never been attempted.
2. **A retry may be blind across plans**. `preflight` looks for uncertain attempts of
   the *same* plan; a second plan for the same effect may start while the first one's
   attempt is uncertain (`external-action-contract.md:139`). For one plan the promise is proved
   (`ReconciledBeforeRetry`). For deliveries the mirror's index stands in the way while the first one's mirror is live, which an
   uncertain delivery's is until its plan is superseded through the ledger (see 5).
3. **A failed plan may have had an effect**. A createRef whose answer is lost and which is
   observed as not applied may arrive after the retry's createRef was refused; the
   plan is then `failed`, which `external-action-contract.md:83` defines as "no side effect requiring reconciliation".
4. **An accepted intake can be reopened** (`accepted_final`). An analysis that was running when
   the intake was accepted sets it back to `review` or `discovery` when it ends
   (`phase31-discovery.js:61`).
5. **A superseded delivery may be attempted on a branch that is another's**. `compilePlan` supersedes
   nothing, but the ledger's endpoint (`http/phase40-plan-api.js:8`) takes a `supersedesPlanId` of any plan. Then `get` lets the mirror of the
   superseded delivery go, another one takes the branch, and disagreement 1 does the rest. `docs/reviews/phase-4.1-implementation-report.md:48`
   says one active plan owns a branch at a time. What is left of it is `BranchHeld`: that delivery never gets as far as the remote, since
6. **its execution is abandoned** (`execution_abandoned`): the attempt is committed, the mirror's index refuses `executing`
   (`phase41-source-control.js:124`), the error ends the call, and the plan executes for good, although
   `external-action-contract.md:77` calls executing "one bounded provider attempt is in progress". No kill is needed.
7. **A delivery may complete undelivered** (`completed_undelivered`). `reconcile` applies what it observed of the plan in the URL to whichever
   attempt the caller names (`phase41-source-control.js:151`, `phase40-external-actions.js:177`). The plan of that attempt becomes verified and
   can be completed, although `source-control-adapter-contract.md:152` asks that the external state match *the* plan.
   For observations of the plan itself the promise is proved (`CompleteIsDelivered`).
8. **The findings of an accepted round are rewritten**, by the step that `accepted_final` shows. `accept` leaves them proposed, and an analysis
   that was still running supersedes them (`phase31-discovery.js:149`); `docs/plans/phase-3.1-adaptive-discovery-strategy.md:130`
   says they remain proposed. What acceptance itself decided is not rewritten (`ProvenanceHeld`).
9. **Open questions do not always block the next round**. Only the latest round's do
   (`phase31-discovery.js:38`), and a round may start while another is still running; a round that was overtaken then leaves questions that nobody can answer.
   `docs/testing/phase-3.1-acceptance-criteria.md:26` says open questions block the next reasoning round.
10. **A loop may certify itself** (`self_certified`). A worker that replaces a failed one is chosen without regard to the verifier's
    group (`phase2-autonomy-kernel.js:455`), so a loop that requires independence passes with both of one group, which
    `docs/decisions/ADR-022-phase2-autonomy-kernel-and-live-certification.md:20` forbids. It is the only way: `IndependenceLasts` proves that
    a loop whose worker was never replaced passes by a verifier of another group.

## The proofs

`tlapm` on `ExternalActionsProofs`, `SourceControlProofs`, `DiscoveryProofs`, `WorkLifecycleProofs`, `DeliveryProofs`,
`AutonomyProofs` and `SpendProofs` proves everything below, for every value of the constants that satisfies the assumptions named in the modules:
`MaxVersion` and `MaxBriefs` are positive naturals, `MaxRounds` is a natural, action classes and authorities are among
those the schema allows, recovery inputs are naturals, graphs are sequences of items, dependencies
name items, numbers of statements are naturals, amounts and estimates are naturals and only metered routes cost
anything, a route of the broker is free and has one role, and the sentinels are not members of the sets they extend
(the intents of deliveries not among the other contents of a branch or pull request: absent, base, foreign, none).

**The ledger.** None of `ReconciledBeforeRetry`, `AttemptBudget`, `CompletionIsConfirmed` is inductive:
that an earlier attempt was not applied follows only if an authorized plan's *last* attempt was
observed not to be, which is a statement about two tables. `LedgerInvariant` is the strengthening, plan by plan:

* `HasContent`: a plan's content was checked when it was created;
* `BoundToPlan`: the approval it names is for this plan and these versions. Needed
  for `UseTimeAuthority` and because two plans must not share an approval;
* `UntouchedWhileRequested`: a plan whose approval is still requested is proposed or superseded
  and has no attempts. `resolveAuthority` overwrites the status whatever it is, so without this
  conjunct approving could turn an executing plan authorized, and a second attempt could start;
* `StatusAgrees`: status and last attempt tell one story;
* `EarlierNotApplied`, `WithinBudget`, `ConfirmedIfComplete`: the properties themselves.

`LedgerCorrect` is `Spec => []LedgerInvariant`, from one lemma per action or group of actions;
`TypeCorrect`, `RetriesAreReconciled`, `AttemptsAreBounded` and `CompletionsAreConfirmed` follow from it.
`AuthorityHoldsAtUse` proves the action property: only `StartAttempt` lengthens a list of
attempts, and its preflight together with `BoundToPlan` gives an approval for the versions of that very state.
`LedgerImplementsGovernedEffect` maps the eleven statuses onto five phases (`Phase`). A superseded plan is mapped by
whether its approval is still requested, because it can still be authorized; the
effect of `createPlan` on the plan it supersedes, and of a revision or a rejection on approvals,
are steps of `Abandon` or stutters.

**The delivery service.** `SourceControl` drives the ledger from calls that are suspended, overlap and die.
Each of its steps is a step of the ledger, or leaves the ledger alone, or (`DecideConfirmed`) confirms an attempt and completes a plan, perhaps another one, in one
stretch, which is two steps of the ledger at once (`LedgerStep`, `ConfirmAndComplete`). So the ledger's own lemmas say what becomes of plans,
approvals and attempts, and `AuthorityHoldsAtUse` and `ServiceImplementsGovernedEffect` hold of a delivery as they do of
any action. What remains is the mirror, the calls and the remote. `ServiceInvariant` adds to the ledger's invariant:

* `RowHolds`: a mirror has a plan, and a plan that was verified on the service's observation of it is on the remote.
  `CompleteIsDelivered` follows; that it speaks of `confirmedBy = "itself"` only is what disagreement 7 leaves of it;
* `CallHolds`: a call's plan has a mirror and the attempt it names exists, what it saw of the planned effect lasts, and while
  its attempt is open its mirror is live. A verdict is reached one or two awaits before it is decided on, so
  `CompleteIsDelivered` is not inductive without it. With `OneActive`, the unique index, the last part is `BranchHeld`: meanwhile the mirror is written by `get`, by failed
  observations and with the status of other plans, but never with one that lets go of the branch (`WorkHasTheBranch`);
* `Apart`: two calls inside `executeBundle` for one plan hold different attempts. Only a plan's last attempt can be open
  (`OpenAttemptIsLast`, from the ledger), so with the index it makes `OneMutator`, which speaks of
  calls whose attempts are still open; a call whose attempt was meanwhile finished by the operator
  or reconciled goes on mutating, and it is the remote that stops it;
* `RemoteHolds`: unless somebody else touched the branch, whoever is past `createRef` is alone, until then nothing but
  creations is in flight, and an intent was committed once if the branch holds it and never otherwise. This is `DeliveredOnce`
  made inductive: that a second `createRef` is refused is what serializes calls that the ledger no longer tells apart.

All seven invariants and action properties of the passing runs, `TypeOK` beside them, are theorems for any number of plans and
calls, with crashes, lost answers, late requests, any attempt reconciled under any plan, and operators at every endpoint of the ledger.

**Discovery.** `OneLiveAnalysis`, `AnswersAreHeard` and `ProvenanceHeld` need one another little, but all need
`AwaitedRunning`: only a round that is running is waited for, so a late result never
lands on a round that was answered or accepted. With `TypeOK` they form `DiscoveryInvariant`.
`ProvenanceHeld` says of the accepted round what `accept` decided, which `#supersede` spares because it is no longer proposed; of
the findings it cannot be said (disagreement 8). `AnswersAreHeard` rests on answers being taken for the latest round only, so that no later round exists whose prompt
missed them; `NothingOpenWhenAccepted` on the accepted round being the live one.

**Work and delivery.** `WorkLifecycleProofs` does not prove invariance of each action one by one: it says once what any
of them may do (`LifecycleStep`: each item stays, is created, or moves to its next version, becoming complete only with
evidence and by an assignment that passes in that step; each assignment is `Kept` or `Made`) and proves that such a step
keeps `LifecycleInvariant`, however many statements a killed method carried out. The strengthening needs two facts that no run states:

* `Bound`: while an item has an assignment's version, it is ready and the assignment not verified. It makes
  `VersionWitnessesReady` and keeps a passed verification from being overwritten (`PassedStays`), on which completion,
  dependencies and activations rest;
* `Wired`: unless a graph was cut, an existing item has its dependency rows. With the readiness of `Eligible` it makes `DependenciesFirst`.
  For `EnsurePlan` it takes the arithmetic of the statements' numbers: if the last is carried out, every row is.

`DeliveryProofs` then shows that every action of `Delivery` is a `LifecycleStep`: `Perform`, for every `from` and `k`,
is one (`PerformSteps`), so that a kill anywhere in a task is covered, not only at the numbers of the run. Beside it,
`Tended` (an alive server has a flow that has not sent SIGKILL yet) and `Awaited` carry the servers, and
`workspace = "cleaned" => ~files` keeps a server from being started in a cleaned workspace. All nine
invariants of the run are theorems, for any plan, number of assignments, servers, versions and kills.

**The kernel and the broker.** `AutonomyProofs` reuses the lifecycle: what a loop does between two awaits (carrying out
and verifying its assignment, or releasing it) is a `LifecycleStep`, so `LifecycleKept` repeats, under the
kernel, what `Delivery` promises of items. Beside it stands `LoopStep(new)`: every loop is left alone or dies with its
process (`LoopKept`), or ends the step in a state that satisfies `LoopHolds`; attempts that succeeded stay, charged
if metered. `FreeFirstInvariant` has three parts:

* `LoopsInvariant`: each loop satisfies `LoopHolds`. `LoopTellsTheOutcome` is not inductive: an
  assignment could be restarted under a loop that has ended, unless the assignment of a begun loop is started
  (`Tells`) and a kept step never starts one (`LoopKept`). `Independent` (a verifier of another group unless the worker was replaced, which is `IndependenceLasts`, the other half of disagreement 10) holds already while a loop awaits,
  since a passing verifier may have replaced another; `GoesOn` says an awaiting loop has its attempt and its routes.
* `QuotaInvariant`: only attempts that succeeded are accounted, so a later change of an attempt never
  touches what was counted; with finitely many attempts, `CountedOnce` is a fact about cardinalities.
* `WithinApproval`: all of `SpendIsAccounted` but the equation with a sum, which is `SpendProofs`' part.

`NextKeeps` proves that a step keeps it, and that a free-first loop begins with a worker whose quota is not
reserved, which is `WorkersLeaveReserve`. Any routes, groups, buckets, limits and numbers of iterations and kills are covered.

**The accounts.** `SpendProofs` proves that the envelope's amount *is* the sum of the charges. The sum is a fold
over a set, that is, a lookup in a table of the costs of all subsets (`Table`), each the cost of the subset without one
chosen member. The library's induction takes an operator and cannot be used; each fact about sums (tables exist and agree,
a cost is a natural number, one more charge adds one estimate: `CostWith`) is proved of a smallest subset for which it would be wrong.
The rest is that no charge is lost: `attempts` is a set, and an attempt equal to a charged one would be charged without
raising the sum. `AccountsInvariant` excludes it: a loop that has not begun has no attempts; every attempt of an awaiting loop
is the one it awaits (`AwaitedBy`) or succeeded before it (`Earlier`); a drill's two routes differ; an attempt that is running
is not charged; and what is spent is what metered actions took and what the charged attempts cost. Every step
of a loop, whatever was replaced or repaired, goes on to a later attempt or ends the loop (`Continues`), which keeps it.

**What liveness rests on.** `EveryCallEnds` and `EveryLoopEnds` apply fairness to steps that make progress. That
the steps are enabled, and the use of fairness itself, are beyond the prover; that they make progress, and that nothing else undoes
it, is proved:

* `CallsAreBounded`: a call of `execute` or `reconcile` has a number of awaits left, at most eight, that every step of
  its own lowers and no step of another call, of an operator or of the remote raises;
* `BundlesReport`: a call at work on an open attempt stays at work on it until the attempt is finished, or the
  process is killed. No way out of `executeBundle` forgets its attempt, so, with the former, what a call executes is
  settled when the call ends. Of plans nothing of the kind holds: disagreement 6 is an executing plan without a call;
* `LoopsAreBounded`: whenever a provider returns, its loop has fewer attempts left, and no other step gives it more: two
  attempts an iteration at most, however routes fail, are replaced or repair one another.

**Only model-checked**: the two liveness properties, `EveryCallEnds` and `EveryLoopEnds`, under fairness. All
invariants and the action properties of the passing runs are theorems. The violations are TLC counterexamples.

## Not modelled, and why

* *Data*: canonical JSON, hashes, manifests, file contents, prompts, the validation of a provider's output.
  They enter as equality of values or as an outcome.
* *Database and migrations*: taken as given (atomic transactions, enforced triggers); the
  triggers and indices that guard state are modelled as guards.
* *HTTP, configuration, logging, certification scripts, fixtures*: no state of their own.
* *Repository proposals*: a mock that records a name; its approval follows the pattern of the spend request's.
* *Scores, connection health, skills, registration of providers and routes*: they decide which eligible route wins, and
  any of them may win here. *The broker's day*: counters and quotas are those of one day.
* *The bridge to an external agent* (`runtime/antigravity-bridge.js`): a prompt may go on in the agent after the
  adapter's time limit ended the attempt; what it uses is not counted, and no state of the service shows it.
* *The golden path's closing*: its report and the project's last version (`phase35-certification.js:96`).

## Plan

Done, in the order of what can do irrevocable harm: `GovernedEffect`, `ExternalActions`, `SourceControl`,
`Discovery` and their proofs, `WorkLifecycle`, `Delivery` and their proofs, `AutonomyLoop`, `FreeFirst` and their proofs.
What is left:

1. reconciliations with equal timestamps (`phase40-external-actions.js:181`) as a nondeterministic choice;
2. the day's rollover of the broker's counters, and usage reported by the bridge;
3. repository proposals, together with a third kind of approval subject.
