--------------------------- MODULE ExternalActions ---------------------------
(***************************************************************************)
(* The governed external-action ledger: one project's external action      *)
(* plans, the approvals that authorize them, the attempts made under them  *)
(* and the reconciliation of those attempts.                               *)
(*                                                                         *)
(* The service is one Node process over a synchronous SQLite connection,   *)
(* so a method runs to its end without interleaving and is one action      *)
(* here.  Where a method commits in several statements, the action that    *)
(* stops after the first of them stands for a process killed in between.   *)
(***************************************************************************)
EXTENDS Integers, Sequences

CONSTANTS
  Plans,           \* identities of external_action_plans rows
  Approvals,       \* identities of approvals rows
  WorkItems,       \* the project's work items
  Intents,         \* adapter, target, inputs and limits of an effect, as one value
  ActionClasses,   \* the action classes callers use
  Authorities,     \* the authority requirements callers use
  RecoveryInputs,  \* recovery.maxAttempts as callers send it; 0 is "absent or not a positive integer"
  MaxVersion,      \* bound on project and work item versions
  NoPlan, NoItem, NoApproval, NoContent

ASSUME VersionAssumption == MaxVersion \in Nat \ {0}
ASSUME ClassAssumption ==
  ActionClasses \subseteq {"read_only", "durable_external_mutation", "production_or_destructive"}
ASSUME AuthorityAssumption ==
  Authorities \subseteq {"none", "exact_approval", "approval_and_spend"}
ASSUME RecoveryAssumption == RecoveryInputs \subseteq Nat
ASSUME SentinelAssumption ==
  /\ NoPlan \notin Plans
  /\ NoItem \notin WorkItems
  /\ NoApproval \notin Approvals

VARIABLES
  projectVersion,  \* projects.version
  itemVersion,     \* work_items.version
  content,         \* the immutable, hashed part of each plan
  status,          \* external_action_plans.status, "absent" before the row exists
  approvalOf,      \* external_action_plans.approval_id
  approval,        \* the approvals rows
  attempts,        \* per plan, its attempts in attempt_number order
  expired,         \* plans whose expires_at has passed
  envelopeOpen     \* the spend envelope is approved and not yet spent

vars == <<projectVersion, itemVersion, content, status, approvalOf, approval,
          attempts, expired, envelopeOpen>>

authorityVars == <<approvalOf, approval>>
contextVars   == <<projectVersion, itemVersion, expired, envelopeOpen>>

-----------------------------------------------------------------------------
PlanStatus ==
  {"proposed", "authorized", "executing", "reconciling", "verified", "complete",
   "rejected", "blocked", "failed", "uncertain", "superseded"}

Version == Nat \ {0}

PlanRequest ==
  [intent: Intents, item: WorkItems \cup {NoItem}, actionClass: ActionClasses,
   authority: Authorities, recovery: RecoveryInputs,
   supersedes: Plans \cup {NoPlan}]

PlanContent ==
  [intent: Intents, version: Version, projectVersion: Version,
   item: WorkItems \cup {NoItem}, itemVersion: Nat, actionClass: ActionClasses,
   authority: Authorities, maxAttempts: 1..10,
   supersedes: Plans \cup {NoPlan}]

ApprovalRow ==
  [status: {"absent", "requested", "approved", "rejected", "superseded"},
   plan: Plans \cup {NoPlan}, item: WorkItems \cup {NoItem}, itemVersion: Nat]

Attempt ==
  [status: {"started", "succeeded", "failed", "uncertain"},
   decided: {"none", "confirmed", "not_applied", "drifted"}]

NoRow == [status |-> "absent", plan |-> NoPlan, item |-> NoItem, itemVersion |-> 0]

TypeOK ==
  /\ projectVersion \in Version
  /\ itemVersion \in [WorkItems -> Version]
  /\ content \in [Plans -> PlanContent \cup {NoContent}]
  /\ status \in [Plans -> PlanStatus \cup {"absent"}]
  /\ approvalOf \in [Plans -> Approvals \cup {NoApproval}]
  /\ approval \in [Approvals -> ApprovalRow]
  /\ attempts \in [Plans -> Seq(Attempt)]
  /\ expired \in SUBSET Plans
  /\ envelopeOpen \in BOOLEAN

Init ==
  /\ projectVersion = 1
  /\ itemVersion = [w \in WorkItems |-> 1]
  /\ content = [p \in Plans |-> NoContent]
  /\ status = [p \in Plans |-> "absent"]
  /\ approvalOf = [p \in Plans |-> NoApproval]
  /\ approval = [a \in Approvals |-> NoRow]
  /\ attempts = [p \in Plans |-> << >>]
  /\ expired = {}
  /\ envelopeOpen = TRUE

-----------------------------------------------------------------------------
(* createPlan *)

\* Mutant: the attempt limit is taken as it was sent.
NormalizeRecoveryAsGiven(r) == r

\* normalizeRecovery: a positive integer is capped at 10, anything else is 2.
NormalizeRecovery(r) == IF r > 0 THEN (IF r < 10 THEN r ELSE 10) ELSE 2

ValidRequest(r) ==
  /\ r.actionClass # "read_only" => r.authority # "none"
  /\ r.authority # "none" => r.item # NoItem

\* The hashed content: a request bound to the versions current when it arrives.
ContentOf(r) ==
  [intent |-> r.intent,
   version |-> IF r.supersedes = NoPlan THEN 1 ELSE content[r.supersedes].version + 1,
   projectVersion |-> projectVersion,
   item |-> r.item,
   itemVersion |-> IF r.item = NoItem THEN 0 ELSE itemVersion[r.item],
   actionClass |-> r.actionClass,
   authority |-> r.authority,
   maxAttempts |-> NormalizeRecovery(r.recovery),
   supersedes |-> r.supersedes]

\* Mutant: a plan can be superseded while its attempt is running.
SupersedableWhileActive(q) == status[q] \notin {"absent", "reconciling"}

\* Any plan that is not executing or reconciling may be superseded, whatever
\* else its status.
Supersedable(q) == status[q] \notin {"absent", "executing", "reconciling"}

\* Equal content has an equal idempotency key, and returns the existing plan.
CreatePlan(p, r) ==
  /\ status[p] = "absent"
  /\ ValidRequest(r)
  /\ r.supersedes # NoPlan => Supersedable(r.supersedes)
  /\ \A q \in Plans : content[q] # ContentOf(r)
  /\ content' = [content EXCEPT ![p] = ContentOf(r)]
  /\ status' = [q \in Plans |-> IF q = p THEN "proposed"
                                ELSE IF q = r.supersedes THEN "superseded"
                                ELSE status[q]]
  /\ UNCHANGED <<authorityVars, attempts, contextVars>>

-----------------------------------------------------------------------------
(* requestAuthority and resolveAuthority *)

\* A read-only plan that needs no authority authorizes itself.
SelfAuthorize(p) ==
  /\ status[p] = "proposed"
  /\ content[p].authority = "none"
  /\ status' = [status EXCEPT ![p] = "authorized"]
  /\ UNCHANGED <<content, authorityVars, attempts, contextVars>>

\* The insert trigger admits an approval only for the work item's current version.
InsertApproval(p, a) ==
  /\ status[p] = "proposed"
  /\ content[p].authority # "none"
  /\ approvalOf[p] = NoApproval
  /\ approval[a].status = "absent"
  /\ itemVersion[content[p].item] = content[p].itemVersion
  /\ approval' = [approval EXCEPT ![a] =
       [status |-> "requested", plan |-> p, item |-> content[p].item,
        itemVersion |-> content[p].itemVersion]]
  /\ UNCHANGED <<content, status, attempts, contextVars>>

RequestAuthority(p, a) ==
  /\ InsertApproval(p, a)
  /\ approvalOf' = [approvalOf EXCEPT ![p] = a]

\* The process stops between the approval's insert and the plan's update.
RequestAuthorityInterrupted(p, a) ==
  /\ InsertApproval(p, a)
  /\ UNCHANGED approvalOf

Requested(a) == approval[a].status = "requested"

\* The update trigger admits "approved" only while the subject is current.
SubjectCurrent(a) == itemVersion[approval[a].item] = approval[a].itemVersion

\* Freshness of a plan, in the parts the preflight composes.
ContextCurrent(p) ==
  /\ content[p].projectVersion = projectVersion
  /\ content[p].item # NoItem => content[p].itemVersion = itemVersion[content[p].item]
  /\ p \notin expired

SpendAvailable(p) == content[p].authority = "approval_and_spend" => envelopeOpen

ApprovedFor(p) ==
  /\ approvalOf[p] # NoApproval
  /\ approval[approvalOf[p]].status = "approved"
  /\ approval[approvalOf[p]].plan = p

Fresh(p) ==
  /\ ContextCurrent(p)
  /\ SpendAvailable(p)
  /\ content[p].authority # "none" => ApprovedFor(p)

\* The approval is resolved first, in its own statement; the plan's status is
\* then overwritten, whatever it is, unless the plan turns out to be stale.
ApproveAuthority(p) ==
  LET a == approvalOf[p] IN
  /\ a # NoApproval
  /\ Requested(a)
  /\ SubjectCurrent(a)
  /\ approval' = [approval EXCEPT ![a].status = "approved"]
  /\ status' = IF /\ ContextCurrent(p)
                  /\ SpendAvailable(p)
                  /\ approval[a].plan = p
               THEN [status EXCEPT ![p] = "authorized"]
               ELSE status
  /\ UNCHANGED <<content, approvalOf, attempts, contextVars>>

RejectAuthority(p) ==
  LET a == approvalOf[p] IN
  /\ a # NoApproval
  /\ Requested(a)
  /\ approval' = [approval EXCEPT ![a].status = "rejected"]
  /\ status' = [status EXCEPT ![p] = "rejected"]
  /\ UNCHANGED <<content, approvalOf, attempts, contextVars>>

\* The general approval endpoint resolves the row and never looks at the plan;
\* it is also what a resolveAuthority killed after its first statement leaves.
ResolveApproval(a, decision) ==
  /\ Requested(a)
  /\ decision = "approved" => SubjectCurrent(a)
  /\ approval' = [approval EXCEPT ![a].status = decision]
  /\ UNCHANGED <<content, status, approvalOf, attempts, contextVars>>

-----------------------------------------------------------------------------
(* preflight, startAttempt, finishAttempt, reconcile, complete *)

UnreconciledUncertain(p) ==
  \E n \in 1..Len(attempts[p]) : /\ attempts[p][n].status = "uncertain"
                                 /\ attempts[p][n].decided = "none"

\* Mutant: the preflight trusts the status instead of rechecking the authority.
PreflightTrustsStatus(p) ==
  /\ status[p] = "authorized"
  /\ ContextCurrent(p)
  /\ ~UnreconciledUncertain(p)
  /\ Len(attempts[p]) < content[p].maxAttempts

\* Mutant: one attempt too many.
PreflightOffByOne(p) ==
  /\ status[p] = "authorized"
  /\ Fresh(p)
  /\ ~UnreconciledUncertain(p)
  /\ Len(attempts[p]) <= content[p].maxAttempts

\* Mutant: a plan whose attempt is running may start another.
PreflightReentrant(p) ==
  /\ status[p] \in {"authorized", "executing"}
  /\ Fresh(p)
  /\ ~UnreconciledUncertain(p)
  /\ Len(attempts[p]) < content[p].maxAttempts

Preflight(p) ==
  /\ status[p] = "authorized"
  /\ Fresh(p)
  /\ ~UnreconciledUncertain(p)
  /\ Len(attempts[p]) < content[p].maxAttempts

StartAttempt(p) ==
  /\ Preflight(p)
  /\ status' = [status EXCEPT ![p] = "executing"]
  /\ attempts' = [attempts EXCEPT ![p] =
                    Append(@, [status |-> "started", decided |-> "none"])]
  /\ UNCHANGED <<content, authorityVars, contextVars>>

\* A start refused by the preflight blocks an authorized plan.
StartRefused(p) ==
  /\ status[p] = "authorized"
  /\ ~Preflight(p)
  /\ status' = [status EXCEPT ![p] = "blocked"]
  /\ UNCHANGED <<content, authorityVars, attempts, contextVars>>

\* Mutant: the plan takes the attempt's status.
StatusAfterIsOutcome(outcome) == outcome

\* Mutant: a failed attempt leaves the plan open for another one.
StatusAfterFailureRetries(outcome) ==
  CASE outcome = "succeeded" -> "reconciling"
    [] outcome = "uncertain" -> "uncertain"
    [] outcome = "failed"    -> "authorized"

StatusAfter(outcome) ==
  CASE outcome = "succeeded" -> "reconciling"
    [] outcome = "uncertain" -> "uncertain"
    [] outcome = "failed"    -> "failed"

FinishAttempt(p, n, outcome) ==
  /\ attempts[p][n].status = "started"
  /\ status[p] = "executing"
  /\ attempts' = [attempts EXCEPT ![p][n].status = outcome]
  /\ status' = [status EXCEPT ![p] = StatusAfter(outcome)]
  /\ UNCHANGED <<content, authorityVars, contextVars>>

\* Mutant: an observation that differs from the expectation is accepted.
StatusReconciledLoosely(classification) ==
  CASE classification \in {"confirmed", "drifted"} -> "verified"
    [] classification = "not_applied" -> "authorized"
    [] classification = "uncertain"   -> "uncertain"

StatusReconciled(classification) ==
  CASE classification = "confirmed"   -> "verified"
    [] classification = "not_applied" -> "authorized"
    [] classification = "drifted"     -> "blocked"
    [] classification = "uncertain"   -> "uncertain"

\* A decided attempt is left alone: the existing record is returned.
Reconcile(p, n, classification) ==
  /\ attempts[p][n].status \in {"succeeded", "uncertain"}
  /\ status[p] \in {"reconciling", "uncertain"}
  /\ attempts[p][n].decided = "none"
  /\ attempts' = IF classification = "uncertain"
                 THEN attempts
                 ELSE [attempts EXCEPT ![p][n].decided = classification]
  /\ status' = [status EXCEPT ![p] = StatusReconciled(classification)]
  /\ UNCHANGED <<content, authorityVars, contextVars>>

Complete(p) ==
  /\ status[p] = "verified"
  /\ status' = [status EXCEPT ![p] = "complete"]
  /\ UNCHANGED <<content, authorityVars, attempts, contextVars>>

-----------------------------------------------------------------------------
(* The source-control service writes two statuses itself. *)

Block(p) ==
  /\ status[p] = "authorized"
  /\ status' = [status EXCEPT ![p] = "blocked"]
  /\ UNCHANGED <<content, authorityVars, attempts, contextVars>>

\* Mutant: the status filter of the update is missing.
MarkAnyUncertain(p) ==
  /\ status[p] # "absent"
  /\ status' = [status EXCEPT ![p] = "uncertain"]
  /\ UNCHANGED <<content, authorityVars, attempts, contextVars>>

MarkUncertain(p) ==
  /\ status[p] \in {"reconciling", "uncertain"}
  /\ status' = [status EXCEPT ![p] = "uncertain"]
  /\ UNCHANGED <<content, authorityVars, attempts, contextVars>>

-----------------------------------------------------------------------------
(* The rest of the control plane moves the context under a plan's feet. *)

\* The first transaction of a goal revision, alone: an accepted brief, or a
\* revision whose process stops before its second transaction.
AcceptBrief ==
  /\ projectVersion < MaxVersion
  /\ projectVersion' = projectVersion + 1
  /\ UNCHANGED <<itemVersion, content, status, authorityVars, attempts,
                 expired, envelopeOpen>>

\* A revision stales the affected items, the canceled and superseded ones
\* excepted, and supersedes the live approvals of all of them.
ReviseProjectGoal(affected, closed) ==
  /\ projectVersion < MaxVersion
  /\ \A w \in affected \ closed : itemVersion[w] < MaxVersion
  /\ projectVersion' = projectVersion + 1
  /\ itemVersion' = [w \in WorkItems |->
       IF w \in affected \ closed THEN itemVersion[w] + 1 ELSE itemVersion[w]]
  /\ approval' = [a \in Approvals |->
       IF /\ approval[a].item \in affected
          /\ approval[a].status \in {"requested", "approved"}
       THEN [approval[a] EXCEPT !.status = "superseded"]
       ELSE approval[a]]
  /\ UNCHANGED <<content, status, approvalOf, attempts, expired, envelopeOpen>>

TransitionWorkItem(w) ==
  /\ itemVersion[w] < MaxVersion
  /\ itemVersion' = [itemVersion EXCEPT ![w] = @ + 1]
  /\ UNCHANGED <<projectVersion, content, status, authorityVars, attempts,
                 expired, envelopeOpen>>

\* A cost record that reaches the envelope's limit exhausts it.
ExhaustEnvelope ==
  /\ envelopeOpen
  /\ envelopeOpen' = FALSE
  /\ UNCHANGED <<projectVersion, itemVersion, content, status, authorityVars,
                 attempts, expired>>

\* A plan with no expires_at is one this never happens to.
Expire(p) ==
  /\ status[p] # "absent"
  /\ p \notin expired
  /\ expired' = expired \cup {p}
  /\ UNCHANGED <<projectVersion, itemVersion, content, status, authorityVars,
                 attempts, envelopeOpen>>

-----------------------------------------------------------------------------
Decisions       == {"approved", "rejected"}
Outcomes        == {"succeeded", "failed", "uncertain"}
Classifications == {"confirmed", "not_applied", "drifted", "uncertain"}

AuthorityStep(p) ==
  \/ SelfAuthorize(p)
  \/ \E a \in Approvals : RequestAuthority(p, a)
  \/ \E a \in Approvals : RequestAuthorityInterrupted(p, a)
  \/ ApproveAuthority(p)
  \/ RejectAuthority(p)

EffectStep(p) ==
  \/ StartAttempt(p)
  \/ StartRefused(p)
  \/ \E n \in 1..Len(attempts[p]), o \in Outcomes : FinishAttempt(p, n, o)
  \/ \E n \in 1..Len(attempts[p]), c \in Classifications : Reconcile(p, n, c)
  \/ Complete(p)
  \/ Block(p)
  \/ MarkUncertain(p)

ContextStep ==
  \/ AcceptBrief
  \/ \E affected, closed \in SUBSET WorkItems : ReviseProjectGoal(affected, closed)
  \/ \E w \in WorkItems : TransitionWorkItem(w)
  \/ ExhaustEnvelope
  \/ \E p \in Plans : Expire(p)

Next ==
  \/ \E p \in Plans, r \in PlanRequest : CreatePlan(p, r)
  \/ \E p \in Plans : AuthorityStep(p)
  \/ \E a \in Approvals, d \in Decisions : ResolveApproval(a, d)
  \/ \E p \in Plans : EffectStep(p)
  \/ ContextStep

Spec == Init /\ [][Next]_vars

-----------------------------------------------------------------------------
(* Invariants, plan by plan *)

LastAttempt(p) == attempts[p][Len(attempts[p])]

\* A plan's content is written, and checked, when the plan is created.
HasContent(p) ==
  status[p] # "absent" =>
    /\ content[p] \in PlanContent
    /\ content[p].authority # "none" => content[p].item # NoItem

\* The approval a plan names was requested for this plan and for the version of
\* its work item the plan was made for.
BoundToPlan(p) ==
  approvalOf[p] # NoApproval =>
    /\ approval[approvalOf[p]].status # "absent"
    /\ approval[approvalOf[p]].plan = p
    /\ approval[approvalOf[p]].item = content[p].item
    /\ approval[approvalOf[p]].itemVersion = content[p].itemVersion
    /\ content[p].authority # "none"
    /\ status[p] # "absent"

\* resolveAuthority writes the status without looking at it; what saves the
\* ledger is that an approval still to be resolved belongs to a plan that has
\* never acted.
UntouchedWhileRequested(p) ==
  approvalOf[p] # NoApproval /\ Requested(approvalOf[p]) =>
    /\ status[p] \in {"proposed", "superseded"}
    /\ attempts[p] = << >>

\* The plan's status and its attempts, kept in two tables, tell one story.
StatusAgrees(p) ==
  /\ status[p] = "executing" <=> attempts[p] # << >> /\ LastAttempt(p).status = "started"
  /\ status[p] = "reconciling" =>
       /\ attempts[p] # << >>
       /\ LastAttempt(p).status = "succeeded"
       /\ LastAttempt(p).decided = "none"
  /\ status[p] = "uncertain" =>
       /\ attempts[p] # << >>
       /\ LastAttempt(p).status \in {"succeeded", "uncertain"}
       /\ LastAttempt(p).decided = "none"
  /\ status[p] = "authorized" /\ attempts[p] # << >> =>
       LastAttempt(p).decided = "not_applied"
  /\ status[p] \in {"absent", "proposed", "rejected"} => attempts[p] = << >>
  /\ \A n \in 1..Len(attempts[p]) :
       attempts[p][n].decided # "none" => attempts[p][n].status \in {"succeeded", "uncertain"}

EarlierNotApplied(p) ==
  \A n \in 1..Len(attempts[p]) - 1 : attempts[p][n].decided = "not_applied"

WithinBudget(p) ==
  attempts[p] # << >> => Len(attempts[p]) <= content[p].maxAttempts

ConfirmedIfComplete(p) ==
  status[p] \in {"verified", "complete"} =>
    attempts[p] # << >> /\ LastAttempt(p).decided = "confirmed"

PlanInvariant(p) ==
  /\ HasContent(p)
  /\ BoundToPlan(p)
  /\ UntouchedWhileRequested(p)
  /\ StatusAgrees(p)
  /\ EarlierNotApplied(p)
  /\ WithinBudget(p)
  /\ ConfirmedIfComplete(p)

\* The inductive invariant: the plans, approvals and attempts of the ledger,
\* written by different statements of different methods, agree plan by plan.
LedgerInvariant == TypeOK /\ \A p \in Plans : PlanInvariant(p)

\* Reconcile before retry: whatever is attempted again under a plan, every
\* earlier attempt was observed not to have been applied.
ReconciledBeforeRetry == \A p \in Plans : EarlierNotApplied(p)

\* recovery.maxAttempts bounds the attempts a plan ever makes, over however
\* many rounds of reconciliation and whatever else happens to it.
AttemptBudget == \A p \in Plans : WithinBudget(p)

\* A plan is verified or complete only when its last attempt was observed to
\* have had exactly the effect planned.
CompletionIsConfirmed == \A p \in Plans : ConfirmedIfComplete(p)

-----------------------------------------------------------------------------
(* Action properties *)

\* An approval granted for exactly this plan and for the version its work item
\* has at this moment, under the project version the plan was made for.
AuthorizedNow(p) ==
  /\ content[p].projectVersion = projectVersion
  /\ p \notin expired
  /\ content[p].authority = "approval_and_spend" => envelopeOpen
  /\ content[p].authority # "none" =>
       \E a \in Approvals :
         approval[a] = [status |-> "approved", plan |-> p, item |-> content[p].item,
                        itemVersion |-> itemVersion[content[p].item]]

\* Authority is checked at the moment of use: an attempt starts only under an
\* approval, versions and spend that hold in that very state, however long ago
\* the plan became authorized (the comment at 0008 "re-check authority at use
\* time", and preflight).
UseTimeAuthority ==
  [][\A p \in Plans : Len(attempts'[p]) > Len(attempts[p]) => AuthorizedNow(p)]_vars

-----------------------------------------------------------------------------
(* What the ledger promises about one effect, whatever the plan's status is    *)
(* called: the specification GovernedEffect.                                   *)

\* A superseded plan whose approval is still to be resolved can still become
\* authorized, so its effect is merely unauthorized.
Phase(p) ==
  CASE status[p] \in {"absent", "proposed"} -> "unauthorized"
    [] status[p] = "superseded" ->
         IF approvalOf[p] # NoApproval /\ Requested(approvalOf[p])
         THEN "unauthorized" ELSE "settled"
    [] status[p] = "authorized" -> "authorized"
    [] status[p] = "executing" -> "acting"
    [] status[p] \in {"reconciling", "uncertain"} -> "unresolved"
    [] status[p] \in {"verified", "complete", "rejected", "blocked", "failed"} -> "settled"

Effect == INSTANCE GovernedEffect WITH
  Effects <- Plans, MaxTries <- 10,
  phase <- [p \in Plans |-> Phase(p)],
  tries <- [p \in Plans |-> Len(attempts[p])]

\* Every behaviour of the ledger is a behaviour of GovernedEffect.
RefinesGovernedEffect == Effect!Spec
=============================================================================
