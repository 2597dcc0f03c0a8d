---------------------------- MODULE SourceControl ----------------------------
(***************************************************************************)
(* Delivery of a verified artifact to a remote repository: the source      *)
(* control service, its GitHub adapter and the remote, on top of the       *)
(* external-action ledger.  Every plan here delivers to the one branch of  *)
(* the one repository the model has.                                       *)
(*                                                                         *)
(* execute and reconcile are asynchronous: between two awaits a call runs  *)
(* without interleaving, and at an await any other call, a foreign actor   *)
(* on the remote, a late request or the end of the process may come first. *)
(* One action is one stretch between awaits.                               *)
(***************************************************************************)
EXTENDS Integers, Sequences

CONSTANTS
  Plans, Approvals, WorkItems, Intents, MaxVersion,
  NoPlan, NoItem, NoApproval, NoContent,
  Calls,      \* execute and reconcile requests the server may hold at once
  MayCrash,   \* whether the process may be killed
  ByHand      \* the ledger's own endpoints that operators use on deliveries

ASSUME ByHandAssumption == ByHand \subseteq {"plan", "start", "finish", "reconcile", "complete"}
ASSUME CrashAssumption == MayCrash \in BOOLEAN
ASSUME BoundAssumption == MaxVersion \in Nat \ {0}
ASSUME SentinelAssumption ==
  /\ NoPlan \notin Plans
  /\ NoItem \notin WorkItems
  /\ NoApproval \notin Approvals
  /\ Intents \cap {"absent", "base", "foreign", "none"} = {}

VARIABLES
  \* of the ledger
  projectVersion, itemVersion, content, status, approvalOf, approval,
  attempts, expired, envelopeOpen,
  \* of the service
  delivery,   \* source_control_delivery_plans.status, the mirror of status
  artifact,   \* the workspace still holds the files of the verified manifest
  call,       \* the requests being served
  confirmedBy, \* history: what the observation that confirmed a plan's attempt was of
  \* of the remote
  branch,     \* the delivery branch: absent, at the base, at an intent's commit, or foreign
  pull,       \* the open pull request from it: none, an intent's, or foreign
  inFlight,   \* requests given up by their sender that may still be carried out
  interfered, \* a foreign actor has touched the branch or its pull request
  commits     \* per intent, how often the branch was moved to a commit of it

Ledger == INSTANCE ExternalActions WITH
  ActionClasses  <- {"durable_external_mutation"},
  Authorities    <- {"exact_approval"},
  RecoveryInputs <- {2}

ledgerVars == <<projectVersion, itemVersion, content, status, approvalOf, approval,
                attempts, expired, envelopeOpen>>
remoteVars == <<branch, pull, inFlight, interfered, commits>>
vars == <<ledgerVars, delivery, artifact, call, confirmedBy, remoteVars>>

-----------------------------------------------------------------------------
\* Where a call is: the await it is suspended at.
Await == {"idle", "remote", "check", "create", "update", "pull",
          "observe", "observePull", "decide"}

\* What adapter.reconcile makes of the branch and pull request it saw.
Verdict == {"not_applied", "delivered", "drifted"}

\* The plan a call was made for, and the attempt it works on with the plan that
\* made that attempt: reconcile takes any attempt.
Idle == [pc |-> "idle", plan |-> NoPlan, of |-> NoPlan, attempt |-> 0, seen |-> "absent"]

Call == [pc: Await, plan: Plans \cup {NoPlan}, of: Plans \cup {NoPlan}, attempt: Nat,
         seen: {"absent", "base", "foreign"} \cup Intents \cup Verdict]

TypeOK ==
  /\ Ledger!TypeOK
  /\ delivery \in [Plans -> Ledger!PlanStatus \cup {"absent"}]
  /\ artifact \in BOOLEAN
  /\ call \in [Calls -> Call]
  /\ confirmedBy \in [Plans -> {"nothing", "itself", "another", "operator"}]
  /\ branch \in {"absent", "base", "foreign"} \cup Intents
  /\ pull \in {"none", "foreign"} \cup Intents
  /\ inFlight \subseteq [kind: {"create", "update", "pull"}, intent: Intents]
  /\ interfered \in BOOLEAN
  /\ commits \in [Intents -> Nat]

Init ==
  /\ Ledger!Init
  /\ delivery = [p \in Plans |-> "absent"]
  /\ artifact = TRUE
  /\ call = [c \in Calls |-> Idle]
  /\ confirmedBy = [p \in Plans |-> "nothing"]
  /\ branch = "absent"
  /\ pull = "none"
  /\ inFlight = {}
  /\ interfered = FALSE
  /\ commits = [i \in Intents |-> 0]

-----------------------------------------------------------------------------
(* The mirror and its unique index on active deliveries of a branch. *)

\* Mutant: an uncertain delivery gives its branch up.
InactiveWhenUncertain ==
  {"absent", "complete", "rejected", "superseded", "failed", "uncertain"}

Inactive == {"absent", "complete", "rejected", "superseded", "failed"}

BranchFreeFor(p) == \A q \in Plans \ {p} : delivery[q] \in Inactive

\* An update that would break the index throws and writes nothing.
Syncable(p, s) == s \in Inactive \/ BranchFreeFor(p)

Synced(p, s) == IF Syncable(p, s) THEN [delivery EXCEPT ![p] = s] ELSE delivery

Goto(c, pc) == call' = [call EXCEPT ![c].pc = pc]
End(c)      == call' = [call EXCEPT ![c] = Idle]

\* Killed between two statements: nothing that was to follow happens.
Dies   == MayCrash /\ call' = [c \in Calls |-> Idle]
Killed == Dies /\ UNCHANGED delivery

\* get, at the end of every method: the mirror is brought up to the plan as it is
\* now. That write is never refused once the one before it was accepted.
ThenGet(c, p, s) ==
  \/ /\ delivery' = IF Syncable(p, s) THEN [delivery EXCEPT ![p] = status'[p]] ELSE delivery
     /\ End(c)
  \/ Dies /\ delivery' \in {delivery, Synced(p, s)}

\* A status written to the ledger is then written to the mirror; a write the
\* index refuses ends the call.
ThenSync(c, p, s, pc) ==
  \/ /\ delivery' = Synced(p, s)
     /\ IF pc = "idle" \/ ~Syncable(p, s) THEN End(c) ELSE Goto(c, pc)
  \/ Killed

-----------------------------------------------------------------------------
(* compilePlan, the authority endpoints and get *)

DeliveryRequest(i, w, q) ==
  [intent |-> i, item |-> w, actionClass |-> "durable_external_mutation",
   authority |-> "exact_approval", recovery |-> 2, supersedes |-> q]

\* compilePlan supersedes nothing. The ledger's plan is committed before the
\* delivery row is inserted: when the index refuses the row, or the process is
\* killed, a later compile finds the plan and inserts the row then.
CompilePlan(p, i, w) ==
  /\ artifact
  /\ \/ Ledger!CreatePlan(p, DeliveryRequest(i, w, NoPlan))
     \/ /\ status[p] # "absent"
        /\ content[p] = Ledger!ContentOf(DeliveryRequest(i, w, NoPlan))
        /\ delivery[p] = "absent"
        /\ UNCHANGED ledgerVars
  /\ \/ delivery' = IF BranchFreeFor(p) THEN [delivery EXCEPT ![p] = status'[p]] ELSE delivery
     \/ MayCrash /\ delivery' \in {delivery, Synced(p, "proposed")}
  /\ UNCHANGED <<artifact, call, confirmedBy, remoteVars>>

\* A plan made by the ledger's own endpoint has no mirror, and may supersede any
\* delivery that is not executing or reconciling.
LedgerPlan(p, i, w, q) ==
  /\ "plan" \in ByHand
  /\ Ledger!CreatePlan(p, DeliveryRequest(i, w, q))
  /\ UNCHANGED <<delivery, artifact, call, confirmedBy, remoteVars>>

\* With or without the service's sync: the ledger has endpoints of its own.
Authority(p) ==
  /\ Ledger!AuthorityStep(p)
  /\ \/ delivery[p] # "absent" /\ delivery' = Synced(p, status'[p])
     \/ UNCHANGED delivery
  /\ UNCHANGED <<artifact, call, confirmedBy, remoteVars>>

Get(p) ==
  /\ delivery[p] # "absent"
  /\ delivery' = Synced(p, status[p])
  /\ UNCHANGED <<ledgerVars, artifact, call, confirmedBy, remoteVars>>

-----------------------------------------------------------------------------
(* execute, up to the attempt *)

\* #block: the plan only if it is still authorized, the mirror in any case.
BlockDelivery(c, p) ==
  /\ status' = [status EXCEPT ![p] = IF @ = "authorized" THEN "blocked" ELSE @]
  /\ UNCHANGED <<projectVersion, itemVersion, content, approvalOf, approval,
                 attempts, expired, envelopeOpen>>
  /\ ThenSync(c, p, "blocked", "idle")

ExecuteBegin(c, p) ==
  /\ call[c].pc = "idle"
  /\ delivery[p] # "absent"
  /\ Ledger!Preflight(p)
  /\ artifact
  /\ call' = [call EXCEPT ![c] = [Idle EXCEPT !.pc = "remote", !.plan = p, !.of = p]]
  /\ UNCHANGED <<ledgerVars, delivery, artifact, confirmedBy, remoteVars>>

ExecuteBlocked(c, p) ==
  /\ call[c].pc = "idle"
  /\ delivery[p] # "absent"
  /\ status[p] = "authorized"
  /\ ~Ledger!Preflight(p) \/ ~artifact
  /\ BlockDelivery(c, p)
  /\ UNCHANGED <<artifact, confirmedBy, remoteVars>>

\* Base drift, an unavailable repository, a failed read or a drifted file.  The
\* base is a matter of the remote alone: any read of it may find it moved.
RemoteRefused(c) ==
  /\ call[c].pc = "remote"
  /\ BlockDelivery(c, call[c].plan)
  /\ UNCHANGED <<artifact, confirmedBy, remoteVars>>

\* The files are read after the await, and the attempt's own preflight sees the
\* ledger as it is now.
RemoteAccepted(c) ==
  LET p == call[c].plan IN
  /\ call[c].pc = "remote"
  /\ artifact
  /\ Ledger!StartAttempt(p)
  /\ \/ /\ delivery' = Synced(p, "executing")
        /\ call' = [call EXCEPT ![c] =
             IF Syncable(p, "executing")
             THEN [@ EXCEPT !.pc = "check", !.attempt = Len(attempts'[p])]
             ELSE Idle]
     \/ Killed
  /\ UNCHANGED <<artifact, confirmedBy, remoteVars>>

\* A start refused now throws: the ledger blocks the plan, nobody syncs.
StartThrows(c) ==
  /\ call[c].pc = "remote"
  /\ artifact
  /\ ~Ledger!Preflight(call[c].plan)
  /\ Ledger!StartRefused(call[c].plan) \/ (status[call[c].plan] # "authorized" /\ UNCHANGED ledgerVars)
  /\ End(c)
  /\ UNCHANGED <<delivery, artifact, confirmedBy, remoteVars>>

-----------------------------------------------------------------------------
(* executeBundle of the GitHub adapter, and the end of execute *)

IntentOf(p) == content[p].intent

Finishable(p, n) == attempts[p][n].status = "started" /\ status[p] = "executing"

\* Mutant: an error thrown by executeBundle is not caught.
FinishBundleUncaught(c, outcome) ==
  LET p == call[c].plan IN
  /\ IF outcome = "uncertain"
     THEN End(c) /\ UNCHANGED <<ledgerVars, delivery>>
     ELSE /\ Ledger!FinishAttempt(p, call[c].attempt, outcome)
          /\ ThenSync(c, p, Ledger!StatusAfter(outcome),
                      IF outcome = "failed" THEN "idle" ELSE "observe")
  /\ UNCHANGED <<artifact, confirmedBy>>

\* An attempt that somebody else has finished cannot be finished again: the call
\* ends with that error and nobody syncs.
FinishBundle(c, outcome) ==
  LET p == call[c].plan IN
  /\ \/ /\ Ledger!FinishAttempt(p, call[c].attempt, outcome)
        /\ ThenSync(c, p, Ledger!StatusAfter(outcome),
                    IF outcome = "failed" THEN "idle" ELSE "observe")
     \/ /\ ~Finishable(p, call[c].attempt)
        /\ End(c)
        /\ UNCHANGED <<ledgerVars, delivery>>
  /\ UNCHANGED <<artifact, confirmedBy>>

\* Mutant: a branch and a pull request of the right names are enough.
ClassifiedByName(p, seen, seenPull) ==
  CASE seen = "absent" /\ seenPull = "none" -> "not_applied"
    [] seen # "absent" /\ seenPull # "none" -> "delivered"
    [] OTHER -> "drifted"

\* Mutant: the pull request is not looked at once the commit is right.
ClassifiedIgnoringPull(p, seen, seenPull) ==
  CASE seen = "absent" /\ seenPull = "none" -> "not_applied"
    [] seen = IntentOf(p) -> "delivered"
    [] OTHER -> "drifted"

\* Mutant: a half-applied bundle has a class of its own.
ClassifiedPartially(p, seen, seenPull) ==
  CASE seen = "absent" /\ seenPull = "none" -> "not_applied"
    [] seen = IntentOf(p) /\ seenPull = IntentOf(p) -> "delivered"
    [] seen = "base" -> "partially_applied"
    [] OTHER -> "drifted"

\* Nothing there, exactly the planned commit and pull request, or anything else.
Classified(p, seen, seenPull) ==
  CASE seen = "absent" /\ seenPull = "none" -> "not_applied"
    [] seen = IntentOf(p) /\ seenPull = IntentOf(p) -> "delivered"
    [] OTHER -> "drifted"

\* With required checks still running a delivered bundle is uncertain.
Classifications(verdict) ==
  IF verdict = "delivered" THEN {"confirmed", "uncertain"} ELSE {verdict}

\* The reads before the first mutation: an error among them is a known failure,
\* unless it was the body of an answer that could not be read.
BundleRefused(c) ==
  /\ call[c].pc = "check"
  /\ \E outcome \in {"failed", "uncertain"} : FinishBundle(c, outcome)
  /\ UNCHANGED remoteVars

\* The branch is already what the plan would make it.
BundleReused(c) ==
  /\ call[c].pc = "check"
  /\ Classified(call[c].plan, branch, pull) = "delivered"
  /\ FinishBundle(c, "succeeded")
  /\ UNCHANGED remoteVars

\* Mutant: a branch that exists is taken for the plan's own and built upon.
BundleClearBuildsOn(c) ==
  /\ call[c].pc = "check"
  /\ Goto(c, IF branch = "absent" THEN "create" ELSE "update")
  /\ UNCHANGED <<ledgerVars, delivery, artifact, confirmedBy, remoteVars>>

BundleClear(c) ==
  /\ call[c].pc = "check"
  /\ branch = "absent"
  /\ Goto(c, "create")
  /\ UNCHANGED <<ledgerVars, delivery, artifact, confirmedBy, remoteVars>>

\* Carried out on the remote: a ref is created only where there is none, moved
\* only from the commit's parent, and a branch has one open pull request.
Creatable == branch = "absent"

\* Mutant: the update is sent with force.
MovableByForce == branch # "absent"

Movable  == branch = "base"
Openable == branch # "absent" /\ pull = "none"

CarryOut(kind, i) ==
  /\ \/ kind = "create" /\ Creatable /\ branch' = "base" /\ UNCHANGED <<pull, commits>>
     \/ /\ kind = "update" /\ Movable /\ branch' = i
        /\ commits' = [commits EXCEPT ![i] = @ + 1]
        /\ UNCHANGED pull
     \/ kind = "pull" /\ Openable /\ pull' = i /\ UNCHANGED <<branch, commits>>
  /\ UNCHANGED interfered

Pending(c) == [kind |-> call[c].pc, intent |-> IntentOf(call[c].plan)]

AfterRequest == [create |-> "update", update |-> "pull"]

RequestAnswered(c) ==
  LET kind == call[c].pc IN
  /\ kind \in {"create", "update", "pull"}
  /\ CarryOut(kind, IntentOf(call[c].plan))
  /\ UNCHANGED inFlight
  /\ IF kind = "pull"
     THEN FinishBundle(c, "succeeded")
     ELSE Goto(c, AfterRequest[kind]) /\ UNCHANGED <<ledgerVars, delivery, artifact, confirmedBy>>

\* An open pull request for the branch is taken as the bundle's own.
PullFound(c) ==
  /\ call[c].pc = "pull"
  /\ pull # "none"
  /\ FinishBundle(c, "succeeded")
  /\ UNCHANGED remoteVars

\* A definite refusal of the first mutation is a failure without effect; of a
\* later one, a partial mutation.
RequestRefused(c) ==
  /\ call[c].pc \in {"create", "update", "pull"}
  /\ FinishBundle(c, IF call[c].pc = "create" THEN "failed" ELSE "uncertain")
  /\ UNCHANGED remoteVars

\* No answer: the request may yet be carried out.
RequestLost(c) ==
  /\ call[c].pc \in {"create", "update", "pull"}
  /\ FinishBundle(c, "uncertain")
  /\ inFlight' = inFlight \cup {Pending(c)}
  /\ UNCHANGED <<branch, pull, interfered, commits>>

-----------------------------------------------------------------------------
(* reconcile *)

\* Whichever attempt the caller names: that it was made under plan p is not checked.
ReconcileBegin(c, p, q, n) ==
  /\ call[c].pc = "idle"
  /\ delivery[p] # "absent"
  /\ call' = [call EXCEPT ![c] = [Idle EXCEPT !.pc = "observe", !.plan = p,
                                            !.of = q, !.attempt = n]]
  /\ UNCHANGED <<ledgerVars, delivery, artifact, confirmedBy, remoteVars>>

ObserveBranch(c) ==
  /\ call[c].pc = "observe"
  /\ call' = [call EXCEPT ![c].pc = "observePull", ![c].seen = branch]
  /\ UNCHANGED <<ledgerVars, delivery, artifact, confirmedBy, remoteVars>>

\* What follows reads the commit seen, its tree and its checks.
ObservePull(c) ==
  /\ call[c].pc = "observePull"
  /\ call' = [call EXCEPT ![c].pc = "decide",
                          ![c].seen = Classified(call[c].plan, @, pull)]
  /\ UNCHANGED <<ledgerVars, delivery, artifact, confirmedBy, remoteVars>>

\* Mutant: the status filter of #markUncertain is too wide.
UnresolvedOrActive == {"reconciling", "uncertain", "executing", "authorized"}

Unresolved == {"reconciling", "uncertain"}

\* Mutant: an observation that fails is made again.
ObserveFailsRetries(c) ==
  /\ call[c].pc \in {"observe", "observePull", "decide"}
  /\ Goto(c, "observe")
  /\ UNCHANGED <<ledgerVars, delivery, artifact, confirmedBy, remoteVars>>

\* #markUncertain: the plan only while it is reconciled, the mirror in any case.
ObserveFails(c) ==
  LET p == call[c].plan IN
  /\ call[c].pc \in {"observe", "observePull", "decide"}
  /\ status' = [status EXCEPT ![p] = IF @ \in Unresolved THEN "uncertain" ELSE @]
  /\ UNCHANGED <<projectVersion, itemVersion, content, approvalOf, approval,
                 attempts, expired, envelopeOpen>>
  /\ ThenSync(c, p, "uncertain", "idle")
  /\ UNCHANGED <<artifact, confirmedBy, remoteVars>>

\* The ledger accepts a reconciliation of attempt n of plan q.
Reconcilable(q, n) ==
  /\ attempts[q][n].status \in {"succeeded", "uncertain"}
  /\ status[q] \in {"reconciling", "uncertain"}

Undecided(q, n) == Reconcilable(q, n) /\ attempts[q][n].decided = "none"

\* What was observed of the call's plan is applied to the attempt it names, in
\* the ledger as it is when the last read returns; the status that plan then
\* has goes to the mirror of the call's own.
DecideUnconfirmed(c) ==
  LET p == call[c].plan  q == call[c].of  n == call[c].attempt IN
  /\ call[c].pc = "decide"
  /\ Reconcilable(q, n)
  /\ \E seen \in Classifications(call[c].seen) \ {"confirmed"} :
       /\ Ledger!Reconcile(q, n, seen)
       /\ ThenGet(c, p, Ledger!StatusReconciled(seen))
  /\ UNCHANGED <<artifact, confirmedBy, remoteVars>>

\* complete is called for the call's plan, and refuses one that is not verified.
Completes(p, q) == Syncable(p, "verified") /\ (p = q \/ status[p] = "verified")

\* A confirmed delivery is completed in the same stretch, unless the mirror or
\* complete refuses, or the process is killed before or after it.
DecideConfirmed(c) ==
  LET p == call[c].plan  q == call[c].of  n == call[c].attempt
      verified == [status EXCEPT ![q] = "verified"]
      complete == [verified EXCEPT ![p] = "complete"]
  IN
  /\ call[c].pc = "decide"
  /\ "confirmed" \in Classifications(call[c].seen)
  /\ Undecided(q, n)
  /\ attempts' = [attempts EXCEPT ![q][n].decided = "confirmed"]
  /\ confirmedBy' = [confirmedBy EXCEPT ![q] = IF p = q THEN "itself" ELSE "another"]
  /\ \/ /\ Completes(p, q)
        /\ status' = complete
        /\ delivery' = [delivery EXCEPT ![p] = "complete"]
        /\ End(c)
     \/ /\ ~Completes(p, q)
        /\ status' = verified
        /\ delivery' = Synced(p, "verified")
        /\ End(c)
     \/ /\ Dies
        /\ \/ status' = verified /\ delivery' \in {delivery, Synced(p, "verified")}
           \/ Completes(p, q) /\ status' = complete /\ delivery' = Synced(p, "verified")
  /\ UNCHANGED <<projectVersion, itemVersion, content, approvalOf, approval,
                 expired, envelopeOpen, artifact, remoteVars>>

\* An earlier attempt, already decided, of a plan whose last one is not: its
\* record is returned, and the call goes on with the plan's status.
DecideAgain(c) ==
  LET p == call[c].plan  q == call[c].of  n == call[c].attempt IN
  /\ call[c].pc = "decide"
  /\ Reconcilable(q, n)
  /\ attempts[q][n].decided # "none"
  /\ \/ UNCHANGED ledgerVars /\ ThenGet(c, p, status[q])
     \/ /\ "confirmed" \in Classifications(call[c].seen)
        /\ Syncable(p, status[q])
        /\ Ledger!Complete(p)
        /\ \/ delivery' = [delivery EXCEPT ![p] = "complete"] /\ End(c)
           \/ Dies /\ delivery' = Synced(p, status[q])
     \/ /\ "confirmed" \in Classifications(call[c].seen)
        /\ Syncable(p, status[q]) => status[p] # "verified"
        /\ delivery' = Synced(p, status[q])
        /\ End(c)
        /\ UNCHANGED ledgerVars
  /\ UNCHANGED <<artifact, confirmedBy, remoteVars>>

\* The ledger refuses.
DecideTooLate(c) ==
  /\ call[c].pc = "decide"
  /\ ~Reconcilable(call[c].of, call[c].attempt)
  /\ End(c)
  /\ UNCHANGED <<ledgerVars, delivery, artifact, confirmedBy, remoteVars>>

-----------------------------------------------------------------------------
(* Around the service *)

\* An exact approval spends nothing, so the envelope is left alone.
LedgerContext ==
  /\ \/ Ledger!AcceptBrief
     \/ \E affected \in SUBSET WorkItems : Ledger!ReviseProjectGoal(affected, {})
     \/ \E w \in WorkItems : Ledger!TransitionWorkItem(w)
     \/ \E p \in Plans : Ledger!Expire(p)
     \/ \E a \in Approvals, d \in Ledger!Decisions : Ledger!ResolveApproval(a, d)
  /\ UNCHANGED <<delivery, artifact, call, confirmedBy, remoteVars>>

\* The ledger's endpoints for attempts and completion serve deliveries too: an
\* operator may attempt a delivery by hand, and may report any outcome or
\* observation, after a crash or while a call still works on the attempt.
OperatorAttempt(p) ==
  /\ \/ "start" \in ByHand /\ Ledger!StartAttempt(p)
     \/ "start" \in ByHand /\ Ledger!StartRefused(p)
     \/ /\ "finish" \in ByHand
        /\ \E n \in 1..Len(attempts[p]), outcome \in Ledger!Outcomes :
             Ledger!FinishAttempt(p, n, outcome)
     \/ "complete" \in ByHand /\ Ledger!Complete(p)
  /\ UNCHANGED <<delivery, artifact, call, confirmedBy, remoteVars>>

OperatorReconcile(p, n, class) ==
  /\ "reconcile" \in ByHand
  /\ Ledger!Reconcile(p, n, class)
  /\ confirmedBy' = IF class = "confirmed"
                    THEN [confirmedBy EXCEPT ![p] = "operator"] ELSE confirmedBy
  /\ UNCHANGED <<delivery, artifact, call, remoteVars>>

ArtifactDrifts ==
  /\ artifact
  /\ artifact' = FALSE
  /\ UNCHANGED <<ledgerVars, delivery, call, confirmedBy, remoteVars>>

\* Somebody else pushes to, deletes, or opens or closes a pull request from the branch.
Interfere ==
  /\ ~interfered
  /\ interfered' = TRUE
  /\ \/ branch' \in {"absent", "foreign"} /\ branch' # branch /\ pull' \in {pull, "none"}
     \/ branch # "absent" /\ pull' \in {"none", "foreign"} /\ pull' # pull /\ UNCHANGED branch
  /\ UNCHANGED <<ledgerVars, delivery, artifact, confirmedBy, call, inFlight, commits>>

LateRequest(m) ==
  /\ m \in inFlight
  /\ inFlight' = inFlight \ {m}
  /\ CarryOut(m.kind, m.intent)
  /\ UNCHANGED <<ledgerVars, delivery, artifact, confirmedBy, call>>

\* The process is killed while a call waits: what it had sent may still arrive.
Crash ==
  /\ MayCrash
  /\ \E c \in Calls : call[c].pc # "idle"
  /\ \E sent \in SUBSET {c \in Calls : call[c].pc \in {"create", "update", "pull"}} :
       inFlight' = inFlight \cup {Pending(c) : c \in sent}
  /\ call' = [c \in Calls |-> Idle]
  /\ UNCHANGED <<ledgerVars, delivery, artifact, confirmedBy, branch, pull, interfered, commits>>

-----------------------------------------------------------------------------
\* The steps a suspended call takes when what it waits for is answered.
CallStep(c) ==
  \/ RemoteRefused(c)
  \/ RemoteAccepted(c)
  \/ StartThrows(c)
  \/ BundleRefused(c)
  \/ BundleReused(c)
  \/ BundleClear(c)
  \/ RequestAnswered(c)
  \/ PullFound(c)
  \/ RequestRefused(c)
  \/ RequestLost(c)
  \/ ObserveBranch(c)
  \/ ObserveFails(c)
  \/ ObservePull(c)
  \/ DecideUnconfirmed(c)
  \/ DecideConfirmed(c)
  \/ DecideAgain(c)
  \/ DecideTooLate(c)

Request(c) ==
  \/ \E p \in Plans : ExecuteBegin(c, p)
  \/ \E p \in Plans : ExecuteBlocked(c, p)
  \/ \E p, q \in Plans : \E n \in 1..Len(attempts[q]) : ReconcileBegin(c, p, q, n)

Environment ==
  \/ LedgerContext
  \/ \E p \in Plans : OperatorAttempt(p)
  \/ \E p \in Plans : \E n \in 1..Len(attempts[p]), class \in Ledger!Classifications :
       OperatorReconcile(p, n, class)
  \/ ArtifactDrifts
  \/ Interfere
  \/ \E m \in inFlight : LateRequest(m)
  \/ Crash

Next ==
  \/ \E p \in Plans, i \in Intents, w \in WorkItems : CompilePlan(p, i, w)
  \/ \E p \in Plans, i \in Intents, w \in WorkItems, q \in Plans \cup {NoPlan} :
       LedgerPlan(p, i, w, q)
  \/ \E p \in Plans : Authority(p)
  \/ \E p \in Plans : Get(p)
  \/ \E c \in Calls : Request(c)
  \/ \E c \in Calls : CallStep(c)
  \/ Environment

Spec == Init /\ [][Next]_vars

\* An await always ends: fetch answers, or fails when its own time limit passes.
Fairness == \A c \in Calls : WF_vars(CallStep(c))

FairSpec == Spec /\ Fairness

-----------------------------------------------------------------------------
(* Properties *)

\* The call is inside executeBundle, on an attempt nobody has reported yet.
Working(c) ==
  /\ call[c].pc \in {"check", "create", "update", "pull"}
  /\ Finishable(call[c].plan, call[c].attempt)

\* Past its first mutation.
Delivering(c) == call[c].pc \in {"update", "pull"}

\* The ledger's invariant survives being driven from asynchronous calls.
LedgerHolds == Ledger!LedgerInvariant

\* Two executes that both passed the preflight before their first await never
\* both work on the remote: the attempt each starts after it excludes the other.
OneMutator == \A c, d \in Calls : Working(c) /\ Working(d) => c = d

\* While a call mutates the remote on an attempt that is still open, no other
\* plan's delivery is live for the branch: whatever else writes the mirror
\* meanwhile (get, a failed observation, a decision on another plan's attempt),
\* it does not let go of the unique index.
BranchHeld ==
  \A c \in Calls : Working(c) =>
    \A q \in Plans \ {call[c].plan} :
      delivery[q] \in {"absent", "complete", "rejected", "superseded", "failed"}

OnRemote(p) == branch = IntentOf(p) /\ pull = IntentOf(p)

\* A delivery completed on the service's own observation of it is on the remote,
\* unless somebody else touched the branch: its commit on the branch and its pull
\* request open, however old the observation was when it was decided on.
CompleteIsDelivered ==
  \A p \in Plans :
    status[p] = "complete" /\ confirmedBy[p] = "itself" /\ ~interfered => OnRemote(p)

\* However many attempts, lost answers, late requests and observations that were
\* stale when they were decided on, one bundle only gets past its first mutation,
\* and the branch receives one commit.
DeliveredOnce ==
  ~interfered =>
    /\ \A c, d \in Calls : Delivering(c) /\ Delivering(d) => c = d
    /\ \A c \in Calls : Delivering(c) => \A m \in inFlight : m.kind = "create"
    /\ \A i, j \in Intents : commits[i] <= 1 /\ (commits[i] > 0 /\ commits[j] > 0 => i = j)

\* No request of the service moves a branch that holds anything but the base
\* commit (createRef refuses an existing ref, updateRef is sent without force).
NothingOverwritten ==
  [][branch \notin {"absent", "base"} /\ interfered' = interfered => branch' = branch]_vars

\* A call at work on an open attempt stays at work on it until the attempt is
\* finished, by the call or by an operator, or the process is killed: no answer,
\* refusal or error inside executeBundle lets go of it.
BundlesFinish ==
  [][\A c \in Calls : Working(c) =>
       \/ Working(c)' /\ call'[c].plan = call[c].plan /\ call'[c].attempt = call[c].attempt
       \/ attempts'[call[c].plan][call[c].attempt].status # "started"
       \/ MayCrash /\ call'[c] = Idle]_vars

\* "executing - one bounded provider attempt is in progress": a step of the
\* service that makes a plan executing has a call at work on the attempt.
ExecutingIsInProgress ==
  [][\A p \in Plans :
       status[p] # "executing" /\ status'[p] = "executing" /\ call' # call
       => \E c \in Calls : call'[c].plan = p /\ call'[c].pc = "check"]_vars

\* "Workflow OS may mark the source-control delivery action complete only after
\* external state matches the plan", where no operator vouched for it.
DeliveredBeforeComplete ==
  \A p \in Plans :
    status[p] = "complete" /\ confirmedBy[p] # "operator" /\ ~interfered => OnRemote(p)

\* However reads fail, attempts are finished by others and decisions come too late,
\* every request is answered in the end or dies with its process.
EveryCallEnds == \A c \in Calls : (call[c].pc # "idle") ~> (call[c].pc = "idle")
=============================================================================
