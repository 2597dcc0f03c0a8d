------------------------- MODULE SourceControlProofs -------------------------
(***************************************************************************)
(* Proofs about SourceControl, for every set of plans, calls, approvals    *)
(* and work items, with kills or without.                                  *)
(*                                                                         *)
(* Every step of the service is one of the ledger, or leaves it alone, or  *)
(* confirms an attempt and completes a plan at once; so L, the ledger's    *)
(* own theorems, say what becomes of the ledger.  What is left is the      *)
(* mirror, the calls and the remote.                                       *)
(***************************************************************************)
EXTENDS SourceControl, SequenceTheorems, TLAPS

L == INSTANCE ExternalActionsProofs WITH
  ActionClasses  <- {"durable_external_mutation"},
  Authorities    <- {"exact_approval"},
  RecoveryInputs <- {2}

-----------------------------------------------------------------------------
(* The inductive invariant *)

Confirmer == {"nothing", "itself", "another", "operator"}

ServiceTypes ==
  /\ delivery \in [Plans -> L!PlanStatus \cup {"absent"}]
  /\ artifact \in BOOLEAN
  /\ call \in [Calls -> Call]
  /\ confirmedBy \in [Plans -> Confirmer]
  /\ branch \in {"absent", "base", "foreign"} \cup Intents
  /\ pull \in {"none", "foreign"} \cup Intents
  /\ inFlight \subseteq [kind: {"create", "update", "pull"}, intent: Intents]
  /\ interfered \in BOOLEAN
  /\ commits \in [Intents -> Nat]

\* A mirror has a plan; and what the service observed of a plan is on the remote.
RowHolds(p) ==
  /\ delivery[p] # "absent" => status[p] # "absent"
  /\ status[p] \in {"verified", "complete"} /\ confirmedBy[p] = "itself" /\ ~interfered => OnRemote(p)

\* The unique index.
OneActive ==
  \A p, q \in Plans : p # q => delivery[p] \in Inactive \/ delivery[q] \in Inactive

Mutating == {"check", "create", "update", "pull"}

\* A call knows a plan and an attempt that are there; on an open attempt it works
\* with a live mirror; and what it has seen of the planned effect lasts.
CallHolds(c) ==
  /\ call[c].pc # "idle" =>
       call[c].plan \in Plans /\ delivery[call[c].plan] # "absent" /\ call[c].of \in Plans
  /\ call[c].pc \notin {"idle", "remote"} => call[c].attempt \in 1..Len(attempts[call[c].of])
  /\ call[c].pc \in Mutating \cup {"remote"} => call[c].of = call[c].plan
  /\ call[c].pc \in Mutating /\ attempts[call[c].plan][call[c].attempt].status = "started" =>
       delivery[call[c].plan] \notin Inactive
  /\ call[c].pc = "observePull" /\ call[c].seen \in Intents /\ ~interfered => branch = call[c].seen
  /\ call[c].pc = "decide" => call[c].seen \in Verdict
  /\ call[c].pc = "decide" /\ call[c].seen = "delivered" /\ ~interfered => OnRemote(call[c].plan)

\* Each call inside executeBundle works on an attempt of its own.
Apart ==
  \A c, d \in Calls :
    /\ c # d
    /\ call[c].pc \in Mutating
    /\ call[d].pc \in Mutating
    /\ call[c].plan = call[d].plan
    => call[c].attempt # call[d].attempt

\* Who gets past the creation of the branch is alone; nobody does before it exists.
RemoteHolds ==
  ~interfered =>
    /\ branch # "foreign"
    /\ \A c \in Calls : Delivering(c) =>
         /\ branch # "absent"
         /\ \A d \in Calls : Delivering(d) => c = d
         /\ \A m \in inFlight : m.kind = "create"
    /\ \A m \in inFlight : m.kind # "create" => branch # "absent"
    /\ \A i \in Intents : commits[i] = IF branch = i THEN 1 ELSE 0

ServiceInvariant ==
  /\ L!LedgerInvariant
  /\ ServiceTypes
  /\ \A p \in Plans : RowHolds(p)
  /\ OneActive
  /\ \A c \in Calls : CallHolds(c)
  /\ Apart
  /\ RemoteHolds
-----------------------------------------------------------------------------
(***************************************************************************)
(* The ledger as SourceControl uses it is the ledger of L.                 *)
(***************************************************************************)

LEMMA Assumptions ==
  /\ MaxVersion \in Nat \ {0}
  /\ NoPlan \notin Plans
  /\ NoItem \notin WorkItems
  /\ NoApproval \notin Approvals
BY BoundAssumption, SentinelAssumption

LEMMA SameTypes == Ledger!TypeOK <=> L!TypeOK
BY DEF Ledger!TypeOK, L!TypeOK, Ledger!Version, L!Version, Ledger!PlanContent, L!PlanContent,
       Ledger!PlanStatus, L!PlanStatus, Ledger!Attempt, L!Attempt, Ledger!ApprovalRow, L!ApprovalRow

LEMMA SameInvariant == Ledger!LedgerInvariant <=> L!LedgerInvariant
<1>1. ASSUME NEW p \in Plans PROVE Ledger!PlanInvariant(p) <=> L!PlanInvariant(p)
  <2>1. Ledger!HasContent(p) <=> L!HasContent(p)
    BY DEF Ledger!HasContent, L!HasContent, Ledger!PlanContent, L!PlanContent, Ledger!Version, L!Version
  <2>2. Ledger!BoundToPlan(p) <=> L!BoundToPlan(p)
    BY DEF Ledger!BoundToPlan, L!BoundToPlan
  <2>3. Ledger!UntouchedWhileRequested(p) <=> L!UntouchedWhileRequested(p)
    BY DEF Ledger!UntouchedWhileRequested, L!UntouchedWhileRequested, Ledger!Requested, L!Requested
  <2>4. Ledger!StatusAgrees(p) <=> L!StatusAgrees(p)
    BY DEF Ledger!StatusAgrees, L!StatusAgrees, Ledger!LastAttempt, L!LastAttempt
  <2>5. Ledger!EarlierNotApplied(p) <=> L!EarlierNotApplied(p)
    BY DEF Ledger!EarlierNotApplied, L!EarlierNotApplied
  <2>6. Ledger!WithinBudget(p) <=> L!WithinBudget(p)
    BY DEF Ledger!WithinBudget, L!WithinBudget
  <2>7. Ledger!ConfirmedIfComplete(p) <=> L!ConfirmedIfComplete(p)
    BY DEF Ledger!ConfirmedIfComplete, L!ConfirmedIfComplete, Ledger!LastAttempt, L!LastAttempt
  <2> QED
    BY <2>1, <2>2, <2>3, <2>4, <2>5, <2>6, <2>7 DEF Ledger!PlanInvariant, L!PlanInvariant
<1> QED
  BY <1>1, SameTypes DEF Ledger!LedgerInvariant, L!LedgerInvariant

LEMMA SamePreflight ==
  ASSUME NEW p \in Plans
  PROVE  Ledger!Preflight(p) <=> L!Preflight(p)
BY DEF Ledger!Preflight, L!Preflight, Ledger!Fresh, L!Fresh, Ledger!ContextCurrent, L!ContextCurrent,
       Ledger!SpendAvailable, L!SpendAvailable, Ledger!ApprovedFor, L!ApprovedFor,
       Ledger!UnreconciledUncertain, L!UnreconciledUncertain

LEMMA SameCreatePlan ==
  ASSUME NEW p \in Plans, NEW r, Ledger!CreatePlan(p, r)
  PROVE  L!CreatePlan(p, r)
BY DEF Ledger!CreatePlan, L!CreatePlan, Ledger!ValidRequest, L!ValidRequest, Ledger!Supersedable,
       L!Supersedable, Ledger!ContentOf, L!ContentOf, Ledger!NormalizeRecovery, L!NormalizeRecovery,
       Ledger!authorityVars, L!authorityVars, Ledger!contextVars, L!contextVars

LEMMA SameAuthorityStep ==
  ASSUME NEW p \in Plans, Ledger!AuthorityStep(p)
  PROVE  L!AuthorityStep(p)
<1> USE DEF Ledger!authorityVars, L!authorityVars, Ledger!contextVars, L!contextVars
<1>1. Ledger!SelfAuthorize(p) => L!SelfAuthorize(p)
  BY DEF Ledger!SelfAuthorize, L!SelfAuthorize
<1>2. ASSUME NEW a \in Approvals
      PROVE  /\ Ledger!RequestAuthority(p, a) => L!RequestAuthority(p, a)
             /\ Ledger!RequestAuthorityInterrupted(p, a) => L!RequestAuthorityInterrupted(p, a)
  BY DEF Ledger!RequestAuthority, L!RequestAuthority, Ledger!RequestAuthorityInterrupted,
     L!RequestAuthorityInterrupted, Ledger!InsertApproval, L!InsertApproval
<1>3. Ledger!ApproveAuthority(p) => L!ApproveAuthority(p)
  BY DEF Ledger!ApproveAuthority, L!ApproveAuthority, Ledger!Requested, L!Requested,
     Ledger!SubjectCurrent, L!SubjectCurrent, Ledger!ContextCurrent, L!ContextCurrent,
     Ledger!SpendAvailable, L!SpendAvailable
<1>4. Ledger!RejectAuthority(p) => L!RejectAuthority(p)
  BY DEF Ledger!RejectAuthority, L!RejectAuthority, Ledger!Requested, L!Requested
<1> QED
  BY <1>1, <1>2, <1>3, <1>4 DEF Ledger!AuthorityStep, L!AuthorityStep

LEMMA SameEffectSteps ==
  ASSUME NEW p \in Plans
  PROVE  /\ Ledger!StartAttempt(p) => L!StartAttempt(p)
         /\ Ledger!StartRefused(p) => L!StartRefused(p)
         /\ Ledger!Complete(p) => L!Complete(p)
         /\ \A n, o : Ledger!FinishAttempt(p, n, o) => L!FinishAttempt(p, n, o)
         /\ \A n, s : Ledger!Reconcile(p, n, s) => L!Reconcile(p, n, s)
<1> USE DEF Ledger!authorityVars, L!authorityVars, Ledger!contextVars, L!contextVars
<1>1. Ledger!StartAttempt(p) => L!StartAttempt(p)
  BY SamePreflight DEF Ledger!StartAttempt, L!StartAttempt
<1>2. Ledger!StartRefused(p) => L!StartRefused(p)
  BY SamePreflight DEF Ledger!StartRefused, L!StartRefused
<1>3. Ledger!Complete(p) => L!Complete(p)
  BY DEF Ledger!Complete, L!Complete
<1>4. ASSUME NEW n, NEW o, Ledger!FinishAttempt(p, n, o) PROVE L!FinishAttempt(p, n, o)
  BY <1>4 DEF Ledger!FinishAttempt, L!FinishAttempt, Ledger!StatusAfter, L!StatusAfter
<1>5. ASSUME NEW n, NEW s, Ledger!Reconcile(p, n, s) PROVE L!Reconcile(p, n, s)
  BY <1>5 DEF Ledger!Reconcile, L!Reconcile, Ledger!StatusReconciled, L!StatusReconciled
<1> QED
  BY <1>1, <1>2, <1>3, <1>4, <1>5

-----------------------------------------------------------------------------
(***************************************************************************)
(* What becomes of the ledger.                                             *)
(***************************************************************************)

LedgerStep ==
  \/ [L!Next]_(L!vars)
  \/ \E p, q \in Plans : \E n \in 1..Len(attempts[q]) : L!ConfirmAndComplete(p, q, n)

\* A plan's content stays; its attempts only get more, and none is started twice;
\* and it is verified on the service's own observation of it only if its effect is
\* on the remote.
Moved(p) ==
  /\ status[p] # "absent" => content'[p] = content[p] /\ status'[p] # "absent"
  /\ Len(attempts[p]) <= Len(attempts'[p])
  /\ \A n \in 1..Len(attempts[p]) :
       attempts'[p][n].status = "started" => attempts[p][n].status = "started"
  /\ status'[p] \in {"verified", "complete"} /\ confirmedBy'[p] = "itself" /\ ~interfered =>
       status[p] # "absent" /\ OnRemote(p)

LedgerMoves ==
  /\ LedgerStep
  /\ confirmedBy' \in [Plans -> Confirmer]
  /\ \A p \in Plans : Moved(p)

LEMMA LedgerStepKeeps ==
  ASSUME L!LedgerInvariant, LedgerStep
  PROVE  L!LedgerInvariant'
BY L!NextInvariant, L!ConfirmAndCompletePreserves, Assumptions DEF LedgerStep

LEMMA ConfirmersTyped == ServiceInvariant => confirmedBy \in [Plans -> Confirmer]
BY DEF ServiceInvariant, ServiceTypes

LEMMA LedgerTypes ==
  ASSUME ServiceInvariant
  PROVE  /\ status \in [Plans -> L!PlanStatus \cup {"absent"}]
         /\ attempts \in [Plans -> Seq(L!Attempt)]
         /\ content \in [Plans -> L!PlanContent \cup {NoContent}]
         /\ \A p \in Plans : Len(attempts[p]) \in Nat /\ (attempts[p] = << >> <=> Len(attempts[p]) = 0)
         /\ \A p \in Plans : status[p] # "absent" => content[p] \in L!PlanContent /\ IntentOf(p) \in Intents
<1>1. /\ status \in [Plans -> L!PlanStatus \cup {"absent"}]
      /\ attempts \in [Plans -> Seq(L!Attempt)]
      /\ content \in [Plans -> L!PlanContent \cup {NoContent}]
  BY DEF ServiceInvariant, L!LedgerInvariant, L!TypeOK
<1>2. \A p \in Plans : Len(attempts[p]) \in Nat /\ (attempts[p] = << >> <=> Len(attempts[p]) = 0)
  BY <1>1, EmptySeq, LenProperties
<1>3. \A p \in Plans : status[p] # "absent" => content[p] \in L!PlanContent
  BY DEF ServiceInvariant, L!LedgerInvariant, L!PlanInvariant, L!HasContent
<1> QED
  BY <1>1, <1>2, <1>3 DEF IntentOf, L!PlanContent

\* A step that writes plans' status only, or nothing of the ledger.
LEMMA StatusMoves ==
  ASSUME ServiceInvariant, UNCHANGED <<content, attempts, confirmedBy>>,
         \A p \in Plans :
           \/ status'[p] = status[p]
           \/ status[p] = "verified" /\ status'[p] = "complete"
           \/ status'[p] \notin {"absent", "verified", "complete"}
  PROVE  \A p \in Plans : Moved(p)
<1> SUFFICES ASSUME NEW p \in Plans PROVE Moved(p)
  OBVIOUS
<1>1. RowHolds(p) /\ Len(attempts[p]) \in Nat
  BY LedgerTypes DEF ServiceInvariant
<1> QED
  BY <1>1 DEF Moved, RowHolds

LEMMA LedgerUntouched ==
  ASSUME ServiceInvariant, UNCHANGED <<ledgerVars, confirmedBy>>
  PROVE  LedgerMoves
<1>1. UNCHANGED L!vars /\ UNCHANGED <<content, attempts, status>>
  BY DEF ledgerVars, L!vars
<1> QED
  BY <1>1, StatusMoves, ConfirmersTyped DEF LedgerMoves, LedgerStep

LEMMA CreateMoves ==
  ASSUME ServiceInvariant, NEW p \in Plans, NEW i \in Intents, NEW w \in WorkItems,
         NEW q \in Plans \cup {NoPlan}, Ledger!CreatePlan(p, DeliveryRequest(i, w, q)),
         UNCHANGED confirmedBy
  PROVE  LedgerMoves /\ status'[p] # "absent"
<1> DEFINE r == DeliveryRequest(i, w, q)
<1>1. L!CreatePlan(p, r)
  BY SameCreatePlan
<1>2. r \in L!PlanRequest
  BY DEF DeliveryRequest, L!PlanRequest
<1>3. LedgerStep
  BY <1>1, <1>2 DEF LedgerStep, L!Next
<1>4. /\ status[p] = "absent" /\ status'[p] = "proposed" /\ UNCHANGED attempts
      /\ \A o \in Plans : status'[o] \in {status[o], "proposed", "superseded"}
      /\ \A o \in Plans \ {p} : content'[o] = content[o]
  BY <1>1, Assumptions, LedgerTypes DEF L!CreatePlan, L!authorityVars
<1>5. ASSUME NEW o \in Plans PROVE Moved(o)
  <2>1. RowHolds(o) /\ Len(attempts[o]) \in Nat
    BY LedgerTypes DEF ServiceInvariant
  <2> QED
    BY <1>4, <2>1 DEF Moved, RowHolds
<1> QED
  BY <1>3, <1>4, <1>5, ConfirmersTyped DEF LedgerMoves

\* Authority is resolved only for a plan that has never acted, superseded or not.
LEMMA AuthorityMoves ==
  ASSUME ServiceInvariant, NEW p \in Plans, Ledger!AuthorityStep(p), UNCHANGED confirmedBy
  PROVE  /\ LedgerMoves
         /\ \A q \in Plans : status[q] # "absent" => status'[q] # "absent"
<1>1. L!AuthorityStep(p)
  BY SameAuthorityStep
<1>2. LedgerStep
  BY <1>1 DEF LedgerStep, L!Next
<1>3. UNCHANGED <<content, attempts>>
  BY <1>1 DEF L!AuthorityStep, L!SelfAuthorize, L!RequestAuthority, L!RequestAuthorityInterrupted,
     L!InsertApproval, L!ApproveAuthority, L!RejectAuthority
<1>4. \A q \in Plans \ {p} : status'[q] = status[q]
  BY <1>1, LedgerTypes DEF L!AuthorityStep, L!SelfAuthorize, L!RequestAuthority,
     L!RequestAuthorityInterrupted, L!InsertApproval, L!ApproveAuthority, L!RejectAuthority
<1>5. status'[p] = status[p] \/ (status[p] # "absent" /\ status'[p] \in {"authorized", "rejected"})
  <2>1. L!UntouchedWhileRequested(p)
    BY DEF ServiceInvariant, L!LedgerInvariant, L!PlanInvariant
  <2> QED
    BY <1>1, <2>1, LedgerTypes DEF L!AuthorityStep, L!SelfAuthorize, L!RequestAuthority,
       L!RequestAuthorityInterrupted, L!InsertApproval, L!ApproveAuthority, L!RejectAuthority,
       L!UntouchedWhileRequested
<1>6. \A q \in Plans : Moved(q)
  BY <1>3, <1>4, <1>5, StatusMoves
<1> QED
  BY <1>2, <1>6, ConfirmersTyped DEF LedgerMoves, Moved

LEMMA ContextMoves ==
  ASSUME ServiceInvariant, LedgerContext
  PROVE  LedgerMoves /\ UNCHANGED <<delivery, artifact, call, remoteVars>>
<1> USE DEF Ledger!authorityVars, L!authorityVars, Ledger!contextVars, L!contextVars
<1>1. LedgerStep
  <2>1. CASE Ledger!AcceptBrief
    <3>1. L!AcceptBrief
      BY <2>1 DEF Ledger!AcceptBrief, L!AcceptBrief
    <3> QED
      BY <3>1 DEF LedgerStep, L!Next, L!ContextStep
  <2>2. CASE \E affected \in SUBSET WorkItems : Ledger!ReviseProjectGoal(affected, {})
    <3>1. PICK affected \in SUBSET WorkItems : L!ReviseProjectGoal(affected, {})
      BY <2>2 DEF Ledger!ReviseProjectGoal, L!ReviseProjectGoal
    <3>2. {} \in SUBSET WorkItems
      OBVIOUS
    <3>3. L!ContextStep
      BY <3>1, <3>2 DEF L!ContextStep
    <3> QED
      BY <3>3 DEF LedgerStep, L!Next
  <2>3. CASE \E w \in WorkItems : Ledger!TransitionWorkItem(w)
    <3>1. \E w \in WorkItems : L!TransitionWorkItem(w)
      BY <2>3 DEF Ledger!TransitionWorkItem, L!TransitionWorkItem
    <3> QED
      BY <3>1 DEF LedgerStep, L!Next, L!ContextStep
  <2>4. CASE \E p \in Plans : Ledger!Expire(p)
    <3>1. \E p \in Plans : L!Expire(p)
      BY <2>4 DEF Ledger!Expire, L!Expire
    <3> QED
      BY <3>1 DEF LedgerStep, L!Next, L!ContextStep
  <2>5. CASE \E a \in Approvals, d \in Ledger!Decisions : Ledger!ResolveApproval(a, d)
    <3>1. \E a \in Approvals, d \in L!Decisions : L!ResolveApproval(a, d)
      BY <2>5 DEF Ledger!ResolveApproval, L!ResolveApproval, Ledger!Decisions, L!Decisions,
         Ledger!Requested, L!Requested, Ledger!SubjectCurrent, L!SubjectCurrent
    <3> QED
      BY <3>1 DEF LedgerStep, L!Next
  <2> QED
    BY <2>1, <2>2, <2>3, <2>4, <2>5 DEF LedgerContext
<1>2. UNCHANGED <<content, status, attempts, confirmedBy>>
  BY DEF LedgerContext, Ledger!AcceptBrief, Ledger!ReviseProjectGoal, Ledger!TransitionWorkItem,
     Ledger!Expire, Ledger!ResolveApproval
<1> QED
  BY <1>1, <1>2, StatusMoves, ConfirmersTyped DEF LedgerMoves, LedgerContext

LEMMA CompleteMoves ==
  ASSUME ServiceInvariant, NEW p \in Plans, Ledger!Complete(p), UNCHANGED confirmedBy
  PROVE  LedgerMoves /\ status'[p] = "complete"
<1>1. L!Complete(p)
  BY SameEffectSteps
<1>2. LedgerStep
  BY <1>1 DEF LedgerStep, L!Next, L!EffectStep
<1>3. /\ UNCHANGED <<content, attempts>> /\ status[p] = "verified" /\ status'[p] = "complete"
      /\ \A q \in Plans \ {p} : status'[q] = status[q]
  BY <1>1, LedgerTypes DEF L!Complete
<1> QED
  BY <1>2, <1>3, StatusMoves, ConfirmersTyped DEF LedgerMoves

LEMMA StartMoves ==
  ASSUME ServiceInvariant, NEW p \in Plans, Ledger!StartAttempt(p), UNCHANGED confirmedBy
  PROVE  /\ LedgerMoves
         /\ status'[p] = "executing"
         /\ Len(attempts'[p]) = Len(attempts[p]) + 1
         /\ \A q \in Plans : status[q] # "absent" => status'[q] # "absent"
<1>1. L!StartAttempt(p)
  BY SameEffectSteps
<1>2. LedgerStep
  BY <1>1 DEF LedgerStep, L!Next, L!EffectStep
<1> DEFINE fresh == [status |-> "started", decided |-> "none"]
<1>3. /\ Len(Append(attempts[p], fresh)) = Len(attempts[p]) + 1
      /\ \A n \in 1..Len(attempts[p]) : Append(attempts[p], fresh)[n] = attempts[p][n]
  BY LedgerTypes, AppendProperties DEF L!Attempt
<1>4. /\ status[p] = "authorized" /\ status'[p] = "executing"
      /\ \A q \in Plans \ {p} : status'[q] = status[q] /\ attempts'[q] = attempts[q]
      /\ attempts'[p] = Append(attempts[p], fresh)
      /\ UNCHANGED content
  BY <1>1, LedgerTypes DEF L!StartAttempt, L!Preflight
<1>5. ASSUME NEW q \in Plans PROVE Moved(q)
  <2>1. RowHolds(q) /\ Len(attempts[q]) \in Nat /\ Len(attempts[p]) \in Nat
    BY LedgerTypes DEF ServiceInvariant
  <2> QED
    BY <1>3, <1>4, <2>1 DEF Moved, RowHolds
<1> QED
  BY <1>2, <1>3, <1>4, <1>5, ConfirmersTyped DEF LedgerMoves

\* #block and a refused start.
LEMMA BlockMoves ==
  ASSUME ServiceInvariant, NEW p \in Plans, UNCHANGED confirmedBy,
         \/ /\ status' = [status EXCEPT ![p] = IF @ = "authorized" THEN "blocked" ELSE @]
            /\ UNCHANGED <<projectVersion, itemVersion, content, approvalOf, approval,
                           attempts, expired, envelopeOpen>>
         \/ Ledger!StartRefused(p)
  PROVE  LedgerMoves
<1>1. CASE Ledger!StartRefused(p)
  <2>1. L!StartRefused(p)
    BY <1>1, SameEffectSteps
  <2>2. LedgerStep
    BY <2>1 DEF LedgerStep, L!Next, L!EffectStep
  <2>3. /\ UNCHANGED <<content, attempts>>
        /\ \A q \in Plans : \/ status'[q] = status[q]
                            \/ status[q] = "authorized" /\ status'[q] = "blocked"
    BY <2>1, LedgerTypes DEF L!StartRefused
  <2> QED
    BY <2>2, <2>3, StatusMoves, ConfirmersTyped DEF LedgerMoves
<1>2. CASE ~Ledger!StartRefused(p)
  <2>1. /\ status' = [status EXCEPT ![p] = IF @ = "authorized" THEN "blocked" ELSE @]
        /\ UNCHANGED <<projectVersion, itemVersion, content, approvalOf, approval,
                       attempts, expired, envelopeOpen>>
    BY <1>2
  <2>2. CASE status[p] = "authorized"
    <3>1. L!Block(p)
      BY <2>1, <2>2 DEF L!Block, L!authorityVars, L!contextVars
    <3>2. LedgerStep
      BY <3>1 DEF LedgerStep, L!Next, L!EffectStep
    <3>3. \A q \in Plans : \/ status'[q] = status[q]
                           \/ status[q] = "authorized" /\ status'[q] = "blocked"
      BY <2>1, <2>2, LedgerTypes
    <3> QED
      BY <2>1, <3>2, <3>3, StatusMoves, ConfirmersTyped DEF LedgerMoves
  <2>3. CASE status[p] # "authorized"
    <3>1. status' = status
      BY <2>1, <2>3, LedgerTypes
    <3> QED
      BY <2>1, <3>1, LedgerUntouched DEF ledgerVars
  <2> QED
    BY <2>2, <2>3
<1> QED
  BY <1>1, <1>2

\* #markUncertain.
LEMMA MarkMoves ==
  ASSUME ServiceInvariant, NEW p \in Plans, UNCHANGED confirmedBy,
         status' = [status EXCEPT ![p] = IF @ \in Unresolved THEN "uncertain" ELSE @],
         UNCHANGED <<projectVersion, itemVersion, content, approvalOf, approval,
                     attempts, expired, envelopeOpen>>
  PROVE  LedgerMoves
<1>1. CASE status[p] \in Unresolved
  <2>1. L!MarkUncertain(p)
    BY <1>1 DEF L!MarkUncertain, L!authorityVars, L!contextVars, Unresolved
  <2>2. LedgerStep
    BY <2>1 DEF LedgerStep, L!Next, L!EffectStep
  <2>3. \A q \in Plans : \/ status'[q] = status[q]
                         \/ status[q] \in Unresolved /\ status'[q] = "uncertain"
    BY <1>1, LedgerTypes
  <2> QED
    BY <2>2, <2>3, StatusMoves, ConfirmersTyped DEF LedgerMoves
<1>2. CASE status[p] \notin Unresolved
  <2>1. status' = status
    BY <1>2, LedgerTypes
  <2> QED
    BY <2>1, LedgerUntouched DEF ledgerVars
<1> QED
  BY <1>1, <1>2

\* Steps that change neither content nor anybody's number of attempts, and start none.
LEMMA AttemptMoves ==
  ASSUME ServiceInvariant, UNCHANGED content,
         \A q \in Plans : Len(attempts'[q]) = Len(attempts[q]),
         \A q \in Plans : \A n \in 1..Len(attempts[q]) :
           attempts'[q][n].status = "started" => attempts[q][n].status = "started",
         \A q \in Plans :
           \/ status'[q] = status[q] /\ confirmedBy'[q] = confirmedBy[q]
           \/ status[q] = "verified" /\ status'[q] = "complete" /\ confirmedBy'[q] = confirmedBy[q]
           \/ /\ status[q] # "absent" /\ status'[q] # "absent"
              /\ status'[q] \in {"verified", "complete"} /\ confirmedBy'[q] = "itself" /\ ~interfered =>
                   OnRemote(q)
  PROVE  \A q \in Plans : Moved(q)
<1> SUFFICES ASSUME NEW q \in Plans PROVE Moved(q)
  OBVIOUS
<1>1. RowHolds(q) /\ Len(attempts[q]) \in Nat
  BY LedgerTypes DEF ServiceInvariant
<1> QED
  BY <1>1 DEF Moved, RowHolds

LEMMA FinishMoves ==
  ASSUME ServiceInvariant, NEW p \in Plans, NEW n \in 1..Len(attempts[p]),
         NEW o \in {"succeeded", "failed", "uncertain"}, Ledger!FinishAttempt(p, n, o),
         UNCHANGED confirmedBy
  PROVE  LedgerMoves /\ status'[p] = Ledger!StatusAfter(o)
<1>1. L!FinishAttempt(p, n, o) /\ o \in L!Outcomes
  BY SameEffectSteps DEF L!Outcomes
<1>2. LedgerStep
  BY <1>1 DEF LedgerStep, L!Next, L!EffectStep
<1>3. \A q \in Plans : \A k \in 1..Len(attempts[q]) :
        attempts'[q][k].status = "started" => attempts[q][k].status = "started"
  BY LedgerTypes, ElementOfSeq DEF Ledger!FinishAttempt, L!Attempt
<1>4. \A q \in Plans : Len(attempts'[q]) = Len(attempts[q])
  BY <1>1, L!AttemptStepKeepsLengths, Assumptions DEF ServiceInvariant
<1>5. /\ status[p] = "executing" /\ status'[p] = Ledger!StatusAfter(o) /\ UNCHANGED content
      /\ Ledger!StatusAfter(o) \in {"reconciling", "failed", "uncertain"}
      /\ \A q \in Plans \ {p} : status'[q] = status[q]
  BY LedgerTypes DEF Ledger!FinishAttempt, Ledger!StatusAfter
<1> QED
  BY <1>2, <1>3, <1>4, <1>5, AttemptMoves, ConfirmersTyped DEF LedgerMoves

\* A decision of an attempt starts none.
LEMMA DecidingStartsNone ==
  ASSUME ServiceInvariant, NEW p \in Plans, NEW n \in 1..Len(attempts[p]), NEW s,
         attempts' \in {attempts, [attempts EXCEPT ![p][n].decided = s]}
  PROVE  \A q \in Plans : \A k \in 1..Len(attempts[q]) :
           attempts'[q][k].status = "started" => attempts[q][k].status = "started"
<1>1. CASE attempts' = attempts
  BY <1>1
<1>2. CASE attempts' = [attempts EXCEPT ![p][n].decided = s]
  <2> SUFFICES ASSUME NEW q \in Plans, NEW k \in 1..Len(attempts[q])
               PROVE  attempts'[q][k].status = attempts[q][k].status
    OBVIOUS
  <2> DEFINE A == [status: {"started", "succeeded", "failed", "uncertain"},
                   decided: {"none", "confirmed", "not_applied", "drifted"}]
  <2>1. /\ attempts \in [Plans -> Seq(A)]
        /\ attempts[p] \in Seq(A)
        /\ attempts[p][n] \in A
    BY LedgerTypes, ElementOfSeq DEF L!Attempt
  <2>2. CASE q = p
    <3>1. attempts'[p] = [attempts[p] EXCEPT ![n] = [attempts[p][n] EXCEPT !.decided = s]]
      BY <1>2, <2>1
    <3>2. DOMAIN attempts[p] = 1..Len(attempts[p])
      BY <2>1
    <3>3. CASE k = n
      BY <2>1, <2>2, <3>1, <3>2, <3>3
    <3>4. CASE k # n
      BY <2>2, <3>1, <3>2, <3>4
    <3> QED
      BY <3>3, <3>4
  <2>3. CASE q # p
    BY <1>2, <2>1, <2>3
  <2> QED
    BY <2>2, <2>3
<1> QED
  BY <1>1, <1>2

\* An observation; the service's own of this plan confirms only what is on the remote.
LEMMA ReconcileMoves ==
  ASSUME ServiceInvariant, NEW p \in Plans, NEW n \in 1..Len(attempts[p]),
         NEW s \in {"confirmed", "not_applied", "drifted", "uncertain"},
         confirmedBy' \in [Plans -> Confirmer],
         \A q \in Plans \ {p} : confirmedBy'[q] = confirmedBy[q],
         s = "confirmed" /\ confirmedBy'[p] = "itself" => (~interfered => OnRemote(p)),
         Ledger!Reconcile(p, n, s)
  PROVE  LedgerMoves /\ status'[p] = Ledger!StatusReconciled(s)
<1>1. L!Reconcile(p, n, s) /\ s \in L!Classifications
  BY SameEffectSteps DEF L!Classifications
<1>2. LedgerStep
  BY <1>1 DEF LedgerStep, L!Next, L!EffectStep
<1>3. \A q \in Plans : \A k \in 1..Len(attempts[q]) :
        attempts'[q][k].status = "started" => attempts[q][k].status = "started"
  BY DecidingStartsNone DEF Ledger!Reconcile
<1>4. \A q \in Plans : Len(attempts'[q]) = Len(attempts[q])
  BY <1>1, L!AttemptStepKeepsLengths, Assumptions DEF ServiceInvariant
<1>5. /\ status[p] \in {"reconciling", "uncertain"} /\ UNCHANGED content
      /\ status'[p] = Ledger!StatusReconciled(s)
      /\ Ledger!StatusReconciled(s) \in {"verified", "authorized", "blocked", "uncertain"}
      /\ Ledger!StatusReconciled(s) = "verified" => s = "confirmed"
      /\ \A q \in Plans \ {p} : status'[q] = status[q]
  BY LedgerTypes DEF Ledger!Reconcile, Ledger!StatusReconciled
<1> QED
  BY <1>2, <1>3, <1>4, <1>5, AttemptMoves DEF LedgerMoves

\* Plan p completed in the stretch that confirms an attempt of q.
LEMMA ConfirmMoves ==
  ASSUME ServiceInvariant, NEW p \in Plans, NEW q \in Plans, NEW n \in 1..Len(attempts[q]),
         confirmedBy' = [confirmedBy EXCEPT ![q] = IF p = q THEN "itself" ELSE "another"],
         p = q => (~interfered => OnRemote(p)),
         L!ConfirmAndComplete(p, q, n)
  PROVE  LedgerMoves /\ status'[p] = "complete"
<1>1. LedgerStep
  BY DEF LedgerStep
<1>2. confirmedBy' \in [Plans -> Confirmer]
  BY ConfirmersTyped DEF Confirmer
<1>3. /\ \A r \in Plans : Len(attempts'[r]) = Len(attempts[r])
      /\ \A r \in Plans : \A k \in 1..Len(attempts[r]) :
           attempts'[r][k].status = "started" => attempts[r][k].status = "started"
  <2>1. /\ L!Decides(q, n, "confirmed", IF p = q THEN "complete" ELSE "verified")
        /\ "confirmed" \in L!Classifications \ {"uncertain"}
    BY DEF L!ConfirmAndComplete, L!Classifications
  <2>2. attempts' = [attempts EXCEPT ![q][n].decided = "confirmed"]
    BY <2>1 DEF L!Decides
  <2> QED
    BY <2>1, <2>2, L!DecidesKeepsLengths, DecidingStartsNone, Assumptions DEF ServiceInvariant
<1>4. /\ status[q] \in {"reconciling", "uncertain"} /\ UNCHANGED content
      /\ p = q \/ status[p] = "verified"
      /\ status'[p] = "complete"
      /\ p # q => status'[q] = "verified"
      /\ \A r \in Plans \ {p, q} : status'[r] = status[r]
  BY LedgerTypes DEF L!ConfirmAndComplete, L!Decides
<1>5. /\ \A r \in Plans \ {q} : confirmedBy'[r] = confirmedBy[r]
      /\ confirmedBy'[q] = IF p = q THEN "itself" ELSE "another"
  BY ConfirmersTyped
<1>6. \A r \in Plans : Moved(r)
  BY <1>3, <1>4, <1>5, AttemptMoves
<1> QED
  BY <1>1, <1>2, <1>4, <1>6 DEF LedgerMoves

-----------------------------------------------------------------------------
(***************************************************************************)
(* What becomes of the mirror, the remote and the calls.                   *)
(***************************************************************************)

\* A mirror gives its branch up only once its plan is not executing.
DeliveryMoves ==
  /\ delivery' \in [Plans -> L!PlanStatus \cup {"absent"}]
  /\ \A p \in Plans :
       /\ delivery[p] # "absent" => delivery'[p] # "absent"
       /\ delivery'[p] # "absent" => status'[p] # "absent"
       /\ delivery'[p] \in Inactive => delivery[p] \in Inactive \/ status'[p] # "executing"
  /\ OneActive'

\* Nobody but a foreign actor takes back what is on the remote.
RemoteMoves ==
  /\ branch' \in {"absent", "base", "foreign"} \cup Intents
  /\ pull' \in {"none", "foreign"} \cup Intents
  /\ inFlight' \subseteq [kind: {"create", "update", "pull"}, intent: Intents]
  /\ interfered' \in BOOLEAN
  /\ commits' \in [Intents -> Nat]
  /\ ~interfered' =>
       /\ ~interfered
       /\ branch \in Intents => branch' = branch
       /\ pull \in Intents => pull' = pull

CallsMove ==
  /\ call' \in [Calls -> Call]
  /\ \A c \in Calls : CallHolds(c)'
  /\ Apart'

LEMMA DeliveryKept ==
  ASSUME ServiceInvariant, LedgerMoves, UNCHANGED delivery
  PROVE  DeliveryMoves
BY DEF ServiceInvariant, ServiceTypes, LedgerMoves, Moved, RowHolds, DeliveryMoves, OneActive

\* A mirror is written, as the index admits it.
LEMMA WrittenMoves ==
  ASSUME ServiceInvariant, LedgerMoves, NEW p \in Plans, status'[p] # "absent",
         NEW s \in L!PlanStatus, s \in Inactive => status'[p] # "executing", Syncable(p, s),
         delivery' = [delivery EXCEPT ![p] = s]
  PROVE  DeliveryMoves
<1>1. /\ OneActive
      /\ delivery \in [Plans -> L!PlanStatus \cup {"absent"}]
      /\ s # "absent"
  BY DEF ServiceInvariant, ServiceTypes, L!PlanStatus
<1>2. OneActive'
  BY <1>1 DEF OneActive, Syncable, BranchFreeFor
<1>3. ASSUME NEW q \in Plans
      PROVE  /\ delivery[q] # "absent" => delivery'[q] # "absent"
             /\ delivery'[q] # "absent" => status'[q] # "absent"
             /\ delivery'[q] \in Inactive => delivery[q] \in Inactive \/ status'[q] # "executing"
  <2>1. Moved(q) /\ RowHolds(q)
    BY DEF ServiceInvariant, LedgerMoves
  <2> QED
    BY <1>1, <2>1 DEF Moved, RowHolds
<1> QED
  BY <1>1, <1>2, <1>3 DEF DeliveryMoves

\* A mirror follows its plan, unless the index refuses.
LEMMA SyncedMoves ==
  ASSUME ServiceInvariant, LedgerMoves, NEW p \in Plans, status'[p] # "absent",
         NEW s \in L!PlanStatus, s \in Inactive => status'[p] # "executing", delivery' = Synced(p, s)
  PROVE  DeliveryMoves
<1>1. CASE ~Syncable(p, s)
  BY <1>1, DeliveryKept DEF Synced
<1>2. CASE Syncable(p, s)
  BY <1>2, WrittenMoves DEF Synced
<1> QED
  BY <1>1, <1>2

\* A plan with a mirror is there after any step.
LEMMA StillThere ==
  ASSUME ServiceInvariant, LedgerMoves, NEW p \in Plans, delivery[p] # "absent"
  PROVE  status'[p] # "absent" /\ status'[p] \in L!PlanStatus
<1>1. status'[p] # "absent"
  BY DEF ServiceInvariant, LedgerMoves, Moved, RowHolds
<1>2. status' \in [Plans -> L!PlanStatus \cup {"absent"}]
  BY LedgerStepKeeps DEF ServiceInvariant, LedgerMoves, L!LedgerInvariant, L!TypeOK
<1> QED
  BY <1>1, <1>2

LEMMA DeliveredLasts ==
  ASSUME ServiceInvariant, LedgerMoves, RemoteMoves, NEW p \in Plans, status[p] # "absent",
         ~interfered', ~interfered => OnRemote(p)
  PROVE  OnRemote(p)'
<1>1. IntentOf(p)' = IntentOf(p) /\ IntentOf(p) \in Intents
  BY LedgerTypes DEF LedgerMoves, Moved, IntentOf
<1> QED
  BY <1>1 DEF OnRemote, RemoteMoves

LEMMA RowsHold ==
  ASSUME ServiceInvariant, LedgerMoves, DeliveryMoves, RemoteMoves
  PROVE  \A p \in Plans : RowHolds(p)'
<1> SUFFICES ASSUME NEW p \in Plans PROVE RowHolds(p)'
  OBVIOUS
<1>1. ASSUME status'[p] \in {"verified", "complete"}, confirmedBy'[p] = "itself", ~interfered'
      PROVE  OnRemote(p)'
  <2>1. status[p] # "absent" /\ (~interfered => OnRemote(p))
    BY <1>1 DEF LedgerMoves, Moved, RemoteMoves
  <2> QED
    BY <1>1, <2>1, DeliveredLasts
<1> QED
  BY <1>1 DEF RowHolds, DeliveryMoves

LEMMA Compose ==
  ASSUME ServiceInvariant, LedgerMoves, DeliveryMoves, RemoteMoves, CallsMove, RemoteHolds',
         artifact' \in BOOLEAN
  PROVE  ServiceInvariant'
<1>1. L!LedgerInvariant'
  BY LedgerStepKeeps DEF ServiceInvariant, LedgerMoves
<1>2. ServiceTypes'
  BY DEF ServiceTypes, LedgerMoves, DeliveryMoves, RemoteMoves, CallsMove
<1> QED
  BY <1>1, <1>2, RowsHold DEF ServiceInvariant, DeliveryMoves, CallsMove

\* An open attempt is one of an executing plan, in the state a step leads to.
LEMMA OpenIsExecuting ==
  ASSUME L!LedgerInvariant', NEW p \in Plans, NEW n \in 1..Len(attempts'[p]),
         attempts'[p][n].status = "started"
  PROVE  status'[p] = "executing"
<1>1. Len(attempts'[p]) \in Nat /\ (attempts'[p] = << >> <=> Len(attempts'[p]) = 0)
  BY LenProperties, EmptySeq DEF L!LedgerInvariant, L!TypeOK
<1>2. n \notin 1..Len(attempts'[p]) - 1
  <2> SUFFICES ASSUME n \in 1..Len(attempts'[p]) - 1 PROVE FALSE
    OBVIOUS
  <2>1. attempts'[p][n].decided = "not_applied"
    BY DEF L!LedgerInvariant, L!PlanInvariant, L!EarlierNotApplied
  <2>2. attempts'[p][n].status \in {"succeeded", "uncertain"}
    BY <2>1 DEF L!LedgerInvariant, L!PlanInvariant, L!StatusAgrees
  <2> QED
    BY <2>2
<1>3. n = Len(attempts'[p])
  BY <1>1, <1>2
<1> QED
  BY <1>1, <1>3 DEF L!LedgerInvariant, L!PlanInvariant, L!StatusAgrees, L!LastAttempt

\* A call that waits on, or ends, or is killed.
LEMMA CallKept ==
  ASSUME ServiceInvariant, LedgerMoves, DeliveryMoves, RemoteMoves, NEW c \in Calls,
         call'[c] = call[c] \/ call'[c] = Idle
  PROVE  CallHolds(c)'
<1>1. CASE call'[c] = Idle
  BY <1>1 DEF CallHolds, Idle, Mutating
<1>2. CASE call'[c] = call[c] /\ call[c].pc # "idle"
  <2>1. CallHolds(c)
    BY DEF ServiceInvariant
  <2> PICK p \in Plans, q \in Plans : p = call[c].plan /\ delivery[p] # "absent" /\ q = call[c].of
    BY <1>2, <2>1 DEF CallHolds
  <2>2. Moved(p) /\ RowHolds(p) /\ Moved(q) /\ Len(attempts[q]) \in Nat
    BY LedgerTypes DEF ServiceInvariant, LedgerMoves
  <2>3. L!LedgerInvariant' /\ Len(attempts'[q]) \in Nat
    BY LenProperties, LedgerStepKeeps DEF ServiceInvariant, LedgerMoves, L!LedgerInvariant, L!TypeOK
  <2>4. call[c].pc \notin {"idle", "remote"} => call[c].attempt \in 1..Len(attempts'[q])
    BY <2>1, <2>2, <2>3 DEF CallHolds, Moved
  <2>5. call[c].pc = "decide" /\ call[c].seen = "delivered" /\ ~interfered' => OnRemote(p)'
    BY <2>1, <2>2, DeliveredLasts DEF CallHolds, RowHolds
  <2>6. call[c].pc = "observePull" /\ call[c].seen \in Intents /\ ~interfered' => branch' = call[c].seen
    BY <2>1 DEF CallHolds, RemoteMoves
  <2>7. ASSUME call[c].pc \in Mutating, attempts'[p][call[c].attempt].status = "started"
        PROVE  delivery'[p] \notin Inactive
    <3>1. p = q /\ call[c].attempt \in 1..Len(attempts[p]) /\ call[c].attempt \in 1..Len(attempts'[p])
      BY <2>1, <2>4, <2>7 DEF CallHolds, Mutating
    <3>2. delivery[p] \notin Inactive
      BY <2>1, <2>2, <2>7, <3>1 DEF CallHolds, Moved
    <3>3. status'[p] = "executing"
      BY <2>3, <2>7, <3>1, OpenIsExecuting
    <3> QED
      BY <3>2, <3>3 DEF DeliveryMoves
  <2>8. delivery'[p] # "absent"
    BY DEF DeliveryMoves
  <2> QED
    BY <1>2, <2>1, <2>4, <2>5, <2>6, <2>7, <2>8 DEF CallHolds, OnRemote, IntentOf
<1>3. CASE call'[c] = call[c] /\ call[c].pc = "idle"
  BY <1>3 DEF CallHolds, Mutating
<1> QED
  BY <1>1, <1>2, <1>3

\* The remote left alone, by calls of which none is newly past its first mutation.
LEMMA RemoteKept ==
  ASSUME ServiceInvariant, UNCHANGED remoteVars,
         \A c \in Calls : Delivering(c)' => Delivering(c)
  PROVE  RemoteMoves /\ RemoteHolds'
<1>1. RemoteMoves
  BY DEF ServiceInvariant, ServiceTypes, remoteVars, RemoteMoves
<1>2. RemoteHolds'
  <2> SUFFICES ASSUME ~interfered' PROVE RemoteHolds'
    BY DEF RemoteHolds
  <2>1. UNCHANGED <<branch, inFlight, commits>> /\ ~interfered
    BY DEF remoteVars
  <2>2. /\ branch # "foreign"
        /\ \A m \in inFlight : m.kind # "create" => branch # "absent"
        /\ \A i \in Intents : commits[i] = IF branch = i THEN 1 ELSE 0
    BY <2>1 DEF ServiceInvariant, RemoteHolds
  <2>3. ASSUME NEW c \in Calls, Delivering(c)'
        PROVE  /\ branch # "absent"
               /\ \A d \in Calls : Delivering(d)' => c = d
               /\ \A m \in inFlight : m.kind = "create"
    <3>1. Delivering(c) /\ \A d \in Calls : Delivering(d)' => Delivering(d)
      BY <2>3
    <3> QED
      BY <2>1, <3>1 DEF ServiceInvariant, RemoteHolds
  <2> QED
    BY <2>1, <2>2, <2>3 DEF RemoteHolds
<1> QED
  BY <1>1, <1>2

\* No call takes part in the step, or all of them are killed.
LEMMA CallsKept ==
  ASSUME ServiceInvariant, LedgerMoves, DeliveryMoves, RemoteMoves,
         call' = call \/ call' = [c \in Calls |-> Idle]
  PROVE  CallsMove /\ \A c \in Calls : Delivering(c)' => Delivering(c)
<1>1. Idle \in Call
  BY DEF Idle, Call, Await
<1>2. /\ call' \in [Calls -> Call]
      /\ \A c \in Calls : call'[c] = call[c] \/ call'[c] = Idle
  BY <1>1 DEF ServiceInvariant, ServiceTypes
<1>3. Apart'
  BY <1>2 DEF ServiceInvariant, Apart, Idle, Mutating
<1> QED
  BY <1>2, <1>3, CallKept DEF CallsMove, Delivering, Idle

\* The call c goes on as x, alone or while nobody is killed.
LEMMA CallGoesOn ==
  ASSUME ServiceInvariant, LedgerMoves, DeliveryMoves, RemoteMoves, NEW c \in Calls, NEW x \in Call,
         call' = [call EXCEPT ![c] = x], CallHolds(c)',
         x.pc \in Mutating =>
           \/ call[c].pc \in Mutating /\ x.plan = call[c].plan /\ x.attempt = call[c].attempt
           \/ x.plan \in Plans /\ x.attempt = Len(attempts[x.plan]) + 1
  PROVE  CallsMove
<1>1. /\ call' \in [Calls -> Call] /\ call'[c] = x
      /\ \A d \in Calls \ {c} : call'[d] = call[d]
  BY DEF ServiceInvariant, ServiceTypes
<1>2. \A d \in Calls : CallHolds(d)'
  BY <1>1, CallKept
<1>3. ASSUME NEW d \in Calls, d # c, call[d].pc \in Mutating, x.pc \in Mutating,
             call[d].plan = x.plan
      PROVE  call[d].attempt # x.attempt
  <2>1. CASE call[c].pc \in Mutating /\ x.plan = call[c].plan /\ x.attempt = call[c].attempt
    BY <1>3, <2>1 DEF ServiceInvariant, Apart
  <2>2. CASE x.plan \in Plans /\ x.attempt = Len(attempts[x.plan]) + 1
    <3>1. call[d].attempt \in 1..Len(attempts[x.plan])
      BY <1>3 DEF ServiceInvariant, CallHolds, Mutating
    <3>2. Len(attempts[x.plan]) \in Nat
      BY <2>2, LedgerTypes
    <3> QED
      BY <2>2, <3>1, <3>2
  <2> QED
    BY <1>3, <2>1, <2>2
<1>4. Apart'
  BY <1>1, <1>3 DEF ServiceInvariant, Apart
<1> QED
  BY <1>1, <1>2, <1>4 DEF CallsMove

\* The call c ends, or goes on to observe.
LEMMA CallRetires ==
  ASSUME ServiceInvariant, LedgerMoves, DeliveryMoves, RemoteMoves, NEW c \in Calls,
         \/ End(c)
         \/ call[c].pc \notin {"idle", "remote"} /\ Goto(c, "observe")
         \/ call' = [d \in Calls |-> Idle]
  PROVE  /\ CallsMove
         /\ \A d \in Calls : Delivering(d)' => Delivering(d) /\ d # c
<1>1. CASE End(c)
  <2>1. Idle \in Call /\ call' = [call EXCEPT ![c] = Idle]
    BY <1>1 DEF Idle, Call, Await, End
  <2>2. call'[c] = Idle /\ \A d \in Calls \ {c} : call'[d] = call[d]
    BY <2>1 DEF ServiceInvariant, ServiceTypes
  <2>3. CallHolds(c)'
    BY <2>2, CallKept
  <2>4. CallsMove
    BY <2>1, <2>3, CallGoesOn DEF Idle, Mutating
  <2> QED
    BY <2>2, <2>4 DEF Delivering, Idle
<1>2. CASE call[c].pc \notin {"idle", "remote"} /\ Goto(c, "observe")
  <2> DEFINE x == [call[c] EXCEPT !.pc = "observe"]
  <2>1. /\ call[c] \in Call /\ x \in Call /\ call' = [call EXCEPT ![c] = x]
        /\ x.pc = "observe" /\ x.plan = call[c].plan /\ x.of = call[c].of
        /\ x.attempt = call[c].attempt
    BY <1>2 DEF ServiceInvariant, ServiceTypes, Call, Await, Goto
  <2>2. call'[c] = x /\ \A d \in Calls \ {c} : call'[d] = call[d]
    BY <2>1 DEF ServiceInvariant, ServiceTypes
  <2> PICK p \in Plans, q \in Plans :
        p = call[c].plan /\ delivery[p] # "absent" /\ q = call[c].of /\ call[c].attempt \in 1..Len(attempts[q])
    BY <1>2 DEF ServiceInvariant, CallHolds
  <2>4. call[c].attempt \in 1..Len(attempts'[q])
    <3>1. Len(attempts[q]) \in Nat /\ Len(attempts[q]) <= Len(attempts'[q])
      BY LedgerTypes DEF LedgerMoves, Moved
    <3>2. Len(attempts'[q]) \in Nat
      BY LenProperties, LedgerStepKeeps DEF ServiceInvariant, LedgerMoves, L!LedgerInvariant, L!TypeOK
    <3> QED
      BY <3>1, <3>2
  <2>5. CallHolds(c)'
    BY <2>1, <2>2, <2>4 DEF CallHolds, DeliveryMoves, Mutating
  <2>6. CallsMove
    BY <2>1, <2>5, CallGoesOn DEF Mutating
  <2> QED
    BY <2>1, <2>2, <2>6 DEF Delivering
<1>3. CASE call' = [d \in Calls |-> Idle]
  BY <1>3, CallsKept DEF Delivering, Idle
<1> QED
  BY <1>1, <1>2, <1>3

-----------------------------------------------------------------------------
(***************************************************************************)
(* What the actions are made of.                                           *)
(***************************************************************************)

Keeps == ServiceInvariant' /\ LedgerStep

\* The remote is left alone, and no call gets past its first mutation.
LEMMA QuietKeeps ==
  ASSUME ServiceInvariant, LedgerMoves, DeliveryMoves, CallsMove, UNCHANGED remoteVars,
         artifact' \in BOOLEAN, \A c \in Calls : Delivering(c)' => Delivering(c)
  PROVE  Keeps
BY RemoteKept, Compose DEF Keeps, LedgerMoves

LEMMA RemoteStill ==
  ASSUME ServiceInvariant, UNCHANGED remoteVars
  PROVE  RemoteMoves
BY DEF ServiceInvariant, ServiceTypes, remoteVars, RemoteMoves

LEMMA ArtifactTyped == ServiceInvariant => artifact \in BOOLEAN
BY DEF ServiceInvariant, ServiceTypes

\* A call that is served knows its plan.
LEMMA CallPlan ==
  ASSUME ServiceInvariant, NEW c \in Calls, call[c].pc # "idle"
  PROVE  \E p \in Plans : p = call[c].plan /\ delivery[p] # "absent" /\ status[p] # "absent"
BY DEF ServiceInvariant, CallHolds, RowHolds

LEMMA SyncThen ==
  ASSUME ServiceInvariant, LedgerMoves, NEW c \in Calls, NEW p \in Plans, delivery[p] # "absent",
         NEW s \in L!PlanStatus, s \in Inactive => status'[p] # "executing",
         NEW pc \in {"idle", "observe"}, ThenSync(c, p, s, pc)
  PROVE  /\ DeliveryMoves
         /\ \/ End(c)
            \/ pc = "observe" /\ Goto(c, "observe")
            \/ call' = [d \in Calls |-> Idle]
<1>1. CASE Killed
  BY <1>1, DeliveryKept DEF Killed, Dies
<1>2. CASE ~Killed
  BY <1>2, SyncedMoves, StillThere DEF ThenSync
<1> QED
  BY <1>1, <1>2

LEMMA GetThen ==
  ASSUME ServiceInvariant, LedgerMoves, NEW c \in Calls, NEW p \in Plans, delivery[p] # "absent",
         NEW s \in L!PlanStatus \ Inactive, ThenGet(c, p, s)
  PROVE  DeliveryMoves /\ (End(c) \/ call' = [d \in Calls |-> Idle])
<1>1. status'[p] # "absent" /\ status'[p] \in L!PlanStatus
  BY StillThere
<1>2. CASE End(c) /\ delivery' = IF Syncable(p, s) THEN [delivery EXCEPT ![p] = status'[p]] ELSE delivery
  <2>1. CASE Syncable(p, s)
    <3>1. Syncable(p, status'[p]) /\ "executing" \notin Inactive
      BY <2>1 DEF Syncable, Inactive
    <3> QED
      BY <1>1, <1>2, <2>1, <3>1, WrittenMoves
  <2>2. CASE ~Syncable(p, s)
    BY <1>2, <2>2, DeliveryKept
  <2> QED
    BY <1>2, <2>1, <2>2
<1>3. CASE Dies /\ delivery' \in {delivery, Synced(p, s)}
  BY <1>1, <1>3, SyncedMoves, DeliveryKept DEF Dies
<1> QED
  BY <1>2, <1>3 DEF ThenGet

LEMMA FinishBundleMoves ==
  ASSUME ServiceInvariant, RemoteMoves, NEW c \in Calls, call[c].pc \in Mutating,
         NEW o \in {"succeeded", "failed", "uncertain"}, FinishBundle(c, o)
  PROVE  /\ LedgerMoves /\ DeliveryMoves /\ CallsMove /\ artifact' \in BOOLEAN
         /\ \A d \in Calls : Delivering(d)' => Delivering(d) /\ d # c
<1> PICK p \in Plans : p = call[c].plan /\ delivery[p] # "absent"
  BY CallPlan DEF Mutating
<1>1. CASE Ledger!FinishAttempt(p, call[c].attempt, o) /\
           ThenSync(c, p, Ledger!StatusAfter(o), IF o = "failed" THEN "idle" ELSE "observe")
  <2>1. call[c].attempt \in 1..Len(attempts[p])
    BY DEF ServiceInvariant, CallHolds, Mutating
  <2>2. LedgerMoves /\ status'[p] = Ledger!StatusAfter(o)
    BY <1>1, <2>1, FinishMoves DEF FinishBundle
  <2>3. Ledger!StatusAfter(o) \in L!PlanStatus
    BY DEF Ledger!StatusAfter, L!PlanStatus
  <2>4. /\ DeliveryMoves
        /\ End(c) \/ Goto(c, "observe") \/ call' = [d \in Calls |-> Idle]
    BY <1>1, <2>2, <2>3, SyncThen DEF Ledger!StatusAfter
  <2> QED
    BY <2>2, <2>4, CallRetires, ArtifactTyped DEF FinishBundle, Mutating
<1>2. CASE End(c) /\ UNCHANGED <<ledgerVars, delivery>>
  <2>1. LedgerMoves
    BY <1>2, LedgerUntouched DEF FinishBundle
  <2> QED
    BY <1>2, <2>1, DeliveryKept, CallRetires, ArtifactTyped DEF FinishBundle
<1> QED
  BY <1>1, <1>2 DEF FinishBundle

LEMMA QuietFinishKeeps ==
  ASSUME ServiceInvariant, NEW c \in Calls, call[c].pc \in Mutating,
         NEW o \in {"succeeded", "failed", "uncertain"}, FinishBundle(c, o), UNCHANGED remoteVars
  PROVE  Keeps
BY RemoteStill, FinishBundleMoves, QuietKeeps

\* A request is carried out only where it overwrites nothing.
LEMMA CarriedOut ==
  ASSUME ServiceInvariant, NEW kind, NEW i \in Intents, CarryOut(kind, i), inFlight' \subseteq inFlight
  PROVE  /\ RemoteMoves
         /\ kind = "create" <=> branch = "absent"
         /\ ~interfered =>
              /\ branch' \notin {"absent", "foreign"}
              /\ \A j \in Intents : commits'[j] = IF branch' = j THEN 1 ELSE 0
<1> USE DEF ServiceInvariant, ServiceTypes
<1>1. {"absent", "base", "foreign", "none"} \cap Intents = {}
  BY SentinelAssumption
<1>2. CASE kind = "create" /\ Creatable /\ branch' = "base" /\ UNCHANGED <<pull, commits, interfered>>
  BY <1>1, <1>2 DEF Creatable, RemoteMoves, RemoteHolds
<1>3. CASE kind = "update" /\ Movable /\ branch' = i /\ commits' = [commits EXCEPT ![i] = @ + 1]
           /\ UNCHANGED <<pull, interfered>>
  BY <1>1, <1>3 DEF Movable, RemoteMoves, RemoteHolds
<1>4. CASE kind = "pull" /\ Openable /\ pull' = i /\ UNCHANGED <<branch, commits, interfered>>
  BY <1>1, <1>4 DEF Openable, RemoteMoves, RemoteHolds
<1> QED
  BY <1>2, <1>3, <1>4 DEF CarryOut

\* Then whoever is still past its first mutation must be alone.
LEMMA CarriedOutHolds ==
  ASSUME ServiceInvariant, NEW kind, NEW i \in Intents, CarryOut(kind, i), inFlight' \subseteq inFlight,
         ~interfered => \A c \in Calls : Delivering(c)' =>
           /\ \A d \in Calls : Delivering(d)' => c = d
           /\ \A m \in inFlight' : m.kind = "create"
  PROVE  RemoteHolds'
<1> SUFFICES ASSUME ~interfered' PROVE RemoteHolds'
  BY DEF RemoteHolds
<1>1. ~interfered
  BY DEF CarryOut
<1> QED
  BY <1>1, CarriedOut DEF RemoteHolds

-----------------------------------------------------------------------------
(***************************************************************************)
(* The actions keep the invariant, one by one.                             *)
(***************************************************************************)

LEMMA CompilePlanKeeps ==
  ASSUME ServiceInvariant, NEW p \in Plans, NEW i \in Intents, NEW w \in WorkItems,
         CompilePlan(p, i, w)
  PROVE  Keeps
<1>1. LedgerMoves /\ status'[p] # "absent"
  <2>1. CASE Ledger!CreatePlan(p, DeliveryRequest(i, w, NoPlan))
    BY <2>1, CreateMoves DEF CompilePlan
  <2>2. CASE status[p] # "absent" /\ UNCHANGED ledgerVars
    BY <2>2, LedgerUntouched DEF ledgerVars, CompilePlan
  <2> QED
    BY <2>1, <2>2 DEF CompilePlan
<1>2. DeliveryMoves
  <2>1. CASE UNCHANGED delivery
    BY <1>1, <2>1, DeliveryKept
  <2>2. CASE BranchFreeFor(p) /\ delivery' = [delivery EXCEPT ![p] = status'[p]]
    <3>1. status'[p] \in L!PlanStatus
      <4>1. status' \in [Plans -> L!PlanStatus \cup {"absent"}]
        BY <1>1, LedgerStepKeeps DEF ServiceInvariant, LedgerMoves, L!LedgerInvariant, L!TypeOK
      <4> QED
        BY <1>1, <4>1
    <3>2. Syncable(p, status'[p]) /\ "executing" \notin Inactive
      BY <2>2 DEF Syncable, Inactive
    <3> QED
      BY <1>1, <2>2, <3>1, <3>2, WrittenMoves
  <2>3. CASE delivery' = Synced(p, "proposed")
    <3>1. "proposed" \in L!PlanStatus /\ "proposed" \notin Inactive
      BY DEF L!PlanStatus, Inactive
    <3> QED
      BY <1>1, <2>3, <3>1, SyncedMoves
  <2> QED
    BY <2>1, <2>2, <2>3 DEF CompilePlan
<1> QED
  BY <1>1, <1>2, RemoteStill, CallsKept, ArtifactTyped, QuietKeeps DEF CompilePlan

\* A plan of the ledger's own endpoint leaves the service as it is.
LEMMA LedgerPlanKeeps ==
  ASSUME ServiceInvariant, NEW p \in Plans, NEW i \in Intents, NEW w \in WorkItems,
         NEW q \in Plans \cup {NoPlan}, LedgerPlan(p, i, w, q)
  PROVE  Keeps
<1>1. LedgerMoves
  BY CreateMoves DEF LedgerPlan
<1> QED
  BY <1>1, DeliveryKept, RemoteStill, CallsKept, ArtifactTyped, QuietKeeps DEF LedgerPlan

LEMMA AuthorityKeeps ==
  ASSUME ServiceInvariant, NEW p \in Plans, Authority(p)
  PROVE  Keeps
<1>1. LedgerMoves /\ (status[p] # "absent" => status'[p] # "absent")
  BY AuthorityMoves DEF Authority
<1>2. DeliveryMoves
  <2>1. CASE UNCHANGED delivery
    BY <1>1, <2>1, DeliveryKept
  <2>2. CASE delivery[p] # "absent" /\ delivery' = Synced(p, status'[p])
    <3>1. status'[p] # "absent" /\ status'[p] \in L!PlanStatus /\ "executing" \notin Inactive
      BY <1>1, <2>2, StillThere DEF Inactive
    <3> QED
      BY <1>1, <2>2, <3>1, SyncedMoves
  <2> QED
    BY <2>1, <2>2 DEF Authority
<1> QED
  BY <1>1, <1>2, RemoteStill, CallsKept, ArtifactTyped, QuietKeeps DEF Authority

LEMMA GetKeeps ==
  ASSUME ServiceInvariant, NEW p \in Plans, Get(p)
  PROVE  Keeps
<1>1. LedgerMoves /\ status'[p] = status[p] /\ "executing" \notin Inactive
  BY LedgerUntouched DEF Get, ledgerVars, Inactive
<1>2. status'[p] # "absent" /\ status'[p] \in L!PlanStatus
  BY <1>1, StillThere DEF Get
<1>3. DeliveryMoves
  BY <1>1, <1>2, SyncedMoves DEF Get
<1> QED
  BY <1>1, <1>3, RemoteStill, CallsKept, ArtifactTyped, QuietKeeps DEF Get

\* A step of one call that goes on, with the ledger, the mirror and the remote as they were.
LEMMA WaitingKeeps ==
  ASSUME ServiceInvariant, NEW c \in Calls, NEW x \in Call,
         call' = [call EXCEPT ![c] = x], x.pc \notin {"update", "pull"},
         UNCHANGED <<ledgerVars, delivery, artifact, confirmedBy, remoteVars>>,
         CallHolds(c)',
         x.pc \in Mutating =>
           call[c].pc \in Mutating /\ x.plan = call[c].plan /\ x.attempt = call[c].attempt
  PROVE  Keeps
<1>1. LedgerMoves /\ DeliveryMoves /\ RemoteMoves /\ artifact' \in BOOLEAN
  BY LedgerUntouched, DeliveryKept, RemoteStill, ArtifactTyped
<1>2. CallsMove
  BY <1>1, CallGoesOn
<1>3. call'[c] = x /\ \A d \in Calls \ {c} : call'[d] = call[d]
  BY DEF ServiceInvariant, ServiceTypes
<1>4. \A d \in Calls : Delivering(d)' => Delivering(d)
  BY <1>3 DEF Delivering
<1> QED
  BY <1>1, <1>2, <1>4, QuietKeeps

LEMMA CallTyped ==
  ASSUME ServiceInvariant, NEW c \in Calls
  PROVE  call[c] \in Call
BY DEF ServiceInvariant, ServiceTypes

LEMMA BeginKeeps ==
  ASSUME ServiceInvariant, NEW c \in Calls, NEW p \in Plans,
         ExecuteBegin(c, p) \/ \E q \in Plans : \E n \in 1..Len(attempts[q]) : ReconcileBegin(c, p, q, n)
  PROVE  Keeps
<1>1. CASE ExecuteBegin(c, p)
  <2> DEFINE x == [Idle EXCEPT !.pc = "remote", !.plan = p, !.of = p]
  <2>1. x \in Call /\ x.pc = "remote" /\ x.plan = p /\ x.of = p
    BY DEF Idle, Call, Await
  <2>2. call' = [call EXCEPT ![c] = x] /\ UNCHANGED <<ledgerVars, delivery, artifact, confirmedBy, remoteVars>>
    BY <1>1 DEF ExecuteBegin
  <2>3. call'[c] = x
    BY <2>2 DEF ServiceInvariant, ServiceTypes
  <2>4. CallHolds(c)'
    BY <1>1, <2>1, <2>2, <2>3 DEF CallHolds, ExecuteBegin, Mutating
  <2> HIDE DEF x
  <2> QED
    BY <2>1, <2>2, <2>4, WaitingKeeps DEF Mutating
<1>2. ASSUME NEW q \in Plans, NEW n \in 1..Len(attempts[q]), ReconcileBegin(c, p, q, n) PROVE Keeps
  <2> DEFINE x == [Idle EXCEPT !.pc = "observe", !.plan = p, !.of = q, !.attempt = n]
  <2>0. n \in Nat
    BY LedgerTypes
  <2>1. x \in Call /\ x.pc = "observe" /\ x.plan = p /\ x.of = q /\ x.attempt = n
    BY <2>0 DEF Idle, Call, Await
  <2>2. call' = [call EXCEPT ![c] = x] /\ UNCHANGED <<ledgerVars, delivery, artifact, confirmedBy, remoteVars>>
    BY <1>2 DEF ReconcileBegin
  <2>3. call'[c] = x
    BY <2>2 DEF ServiceInvariant, ServiceTypes
  <2>4. CallHolds(c)'
    BY <1>2, <2>1, <2>2, <2>3 DEF CallHolds, ReconcileBegin, ledgerVars, Mutating
  <2> HIDE DEF x
  <2> QED
    BY <2>1, <2>2, <2>4, WaitingKeeps DEF Mutating
<1> QED
  BY <1>1, <1>2

LEMMA BlockDeliveryKeeps ==
  ASSUME ServiceInvariant, NEW c \in Calls, NEW p \in Plans, delivery[p] # "absent",
         BlockDelivery(c, p), UNCHANGED <<artifact, confirmedBy, remoteVars>>
  PROVE  Keeps
<1>1. LedgerMoves
  BY BlockMoves DEF BlockDelivery
<1>2. "blocked" \in L!PlanStatus /\ "blocked" \notin Inactive
  BY DEF L!PlanStatus, Inactive
<1>3. DeliveryMoves /\ (End(c) \/ call' = [d \in Calls |-> Idle])
  BY <1>1, <1>2, SyncThen DEF BlockDelivery
<1> QED
  BY <1>1, <1>3, RemoteStill, CallRetires, ArtifactTyped, QuietKeeps

LEMMA RemoteRefusedKeeps ==
  ASSUME ServiceInvariant, NEW c \in Calls, RemoteRefused(c)
  PROVE  Keeps
BY CallPlan, BlockDeliveryKeeps DEF RemoteRefused

LEMMA RemoteAcceptedKeeps ==
  ASSUME ServiceInvariant, NEW c \in Calls, RemoteAccepted(c)
  PROVE  Keeps
<1> PICK p \in Plans : p = call[c].plan /\ delivery[p] # "absent"
  BY CallPlan DEF RemoteAccepted
<1>1. /\ LedgerMoves /\ RemoteMoves /\ artifact' \in BOOLEAN /\ status'[p] = "executing"
      /\ Len(attempts'[p]) = Len(attempts[p]) + 1
  BY StartMoves, RemoteStill, ArtifactTyped DEF RemoteAccepted
<1>2. CASE Killed
  BY <1>1, <1>2, DeliveryKept, CallsKept, QuietKeeps DEF Killed, Dies, RemoteAccepted
<1>3. CASE ~Killed
  <2>1. delivery' = Synced(p, "executing")
    BY <1>3 DEF RemoteAccepted
  <2>2. "executing" \in L!PlanStatus /\ "executing" \notin Inactive
    BY DEF L!PlanStatus, Inactive
  <2>3. DeliveryMoves
    BY <1>1, <2>1, <2>2, SyncedMoves
  <2>4. CASE ~Syncable(p, "executing")
    <3>1. End(c)
      BY <1>3, <2>4 DEF RemoteAccepted, End
    <3> QED
      BY <1>1, <2>3, <3>1, CallRetires, QuietKeeps DEF RemoteAccepted
  <2>5. CASE Syncable(p, "executing")
    <3> DEFINE x == [call[c] EXCEPT !.pc = "check", !.attempt = Len(attempts'[p])]
    <3>1. /\ Len(attempts[p]) \in Nat /\ Len(attempts'[p]) = Len(attempts[p]) + 1
          /\ Len(attempts'[p]) \in Nat /\ call[c] \in Call
      BY <1>1, LedgerTypes, CallTyped
    <3>2. /\ x \in Call /\ x.pc = "check" /\ x.plan = p /\ x.of = call[c].of
          /\ x.attempt = Len(attempts[p]) + 1
      BY <3>1 DEF Call, Await
    <3>3. call' = [call EXCEPT ![c] = x]
      BY <1>3, <2>5 DEF RemoteAccepted
    <3>4. call'[c] = x /\ \A d \in Calls \ {c} : call'[d] = call[d]
      BY <3>3 DEF ServiceInvariant, ServiceTypes
    <3>5. CallHolds(c)'
      <4>1. call[c].of = p
        BY DEF ServiceInvariant, CallHolds, RemoteAccepted
      <4>2. delivery'[p] = "executing"
        BY <2>1, <2>5 DEF Synced, ServiceInvariant, ServiceTypes
      <4> QED
        BY <1>1, <2>2, <2>3, <3>1, <3>2, <3>4, <4>1, <4>2 DEF CallHolds, DeliveryMoves
    <3> HIDE DEF x
    <3>6. CallsMove
      BY <1>1, <2>3, <3>2, <3>3, <3>5, CallGoesOn
    <3>7. \A d \in Calls : Delivering(d)' => Delivering(d)
      BY <3>2, <3>4 DEF Delivering
    <3> QED
      BY <1>1, <2>3, <3>6, <3>7, QuietKeeps DEF RemoteAccepted
  <2> QED
    BY <2>4, <2>5
<1> QED
  BY <1>2, <1>3

LEMMA StartThrowsKeeps ==
  ASSUME ServiceInvariant, NEW c \in Calls, StartThrows(c)
  PROVE  Keeps
<1> PICK p \in Plans : p = call[c].plan
  BY CallPlan DEF StartThrows
<1>1. LedgerMoves
  BY BlockMoves, LedgerUntouched DEF StartThrows
<1> QED
  BY <1>1, DeliveryKept, RemoteStill, CallRetires, ArtifactTyped, QuietKeeps DEF StartThrows

LEMMA BundleClearKeeps ==
  ASSUME ServiceInvariant, NEW c \in Calls, BundleClear(c)
  PROVE  Keeps
<1> DEFINE x == [call[c] EXCEPT !.pc = "create"]
<1>1. CallHolds(c) /\ call[c] \in Call
  BY CallTyped DEF ServiceInvariant
<1>2. /\ x \in Call /\ x.pc = "create" /\ x.plan = call[c].plan /\ x.of = call[c].of
      /\ x.attempt = call[c].attempt
  BY <1>1 DEF Call, Await
<1>3. call' = [call EXCEPT ![c] = x]
  BY DEF BundleClear, Goto
<1>4. call'[c] = x
  BY <1>3 DEF ServiceInvariant, ServiceTypes
<1>5. CallHolds(c)'
  BY <1>1, <1>2, <1>4 DEF CallHolds, BundleClear, ledgerVars, Mutating
<1> HIDE DEF x
<1> QED
  BY <1>2, <1>3, <1>5, WaitingKeeps DEF Mutating, BundleClear

LEMMA QuietBundleKeeps ==
  ASSUME ServiceInvariant, NEW c \in Calls,
         BundleRefused(c) \/ BundleReused(c) \/ PullFound(c) \/ RequestRefused(c)
  PROVE  Keeps
<1>1. CASE BundleRefused(c)
  BY <1>1, QuietFinishKeeps DEF BundleRefused, Mutating
<1>2. CASE BundleReused(c)
  BY <1>2, QuietFinishKeeps DEF BundleReused, Mutating
<1>3. CASE PullFound(c)
  BY <1>3, QuietFinishKeeps DEF PullFound, Mutating
<1>4. CASE RequestRefused(c)
  <2>1. call[c].pc \in Mutating /\ UNCHANGED remoteVars
    BY <1>4 DEF RequestRefused, Mutating
  <2>2. FinishBundle(c, "failed") \/ FinishBundle(c, "uncertain")
    BY <1>4 DEF RequestRefused
  <2> QED
    BY <2>1, <2>2, QuietFinishKeeps
<1> QED
  BY <1>1, <1>2, <1>3, <1>4

\* The first request to be answered puts the call past its first mutation, and the
\* branch that was not there shows that no other call is.
LEMMA RequestAnsweredKeeps ==
  ASSUME ServiceInvariant, NEW c \in Calls, RequestAnswered(c)
  PROVE  Keeps
<1> DEFINE kind == call[c].pc
<1>1. kind \in {"create", "update", "pull"}
  BY DEF RequestAnswered
<1> PICK i : i = IntentOf(call[c].plan)
  OBVIOUS
<1>2. i \in Intents
  BY <1>1, CallPlan, LedgerTypes
<1>3. CarryOut(call[c].pc, i) /\ UNCHANGED inFlight
  BY DEF RequestAnswered
<1>4. RemoteMoves /\ (kind = "create" <=> branch = "absent")
  BY <1>2, <1>3, CarriedOut
<1>5. CASE kind = "pull"
  <2>1. FinishBundle(c, "succeeded")
    BY <1>5 DEF RequestAnswered
  <2>2. /\ LedgerMoves /\ DeliveryMoves /\ CallsMove /\ artifact' \in BOOLEAN
        /\ \A d \in Calls : Delivering(d)' => Delivering(d) /\ d # c
    BY <1>4, <1>5, <2>1, FinishBundleMoves DEF Mutating
  <2>3. ~interfered => \A d \in Calls : ~Delivering(d)'
    BY <1>5, <2>2 DEF ServiceInvariant, RemoteHolds, Delivering
  <2>4. RemoteHolds'
    BY <1>2, <1>3, <2>3, CarriedOutHolds
  <2> QED
    BY <1>4, <2>2, <2>4, Compose DEF Keeps, LedgerMoves
<1>6. CASE kind # "pull"
  <2> DEFINE x == [call[c] EXCEPT !.pc = AfterRequest[kind]]
  <2>1. CallHolds(c) /\ call[c] \in Call
    BY CallTyped DEF ServiceInvariant
  <2>2. AfterRequest[kind] \in {"update", "pull"}
    BY <1>1, <1>6 DEF AfterRequest
  <2>3. /\ x \in Call /\ x.pc \in {"update", "pull"} /\ x.plan = call[c].plan
        /\ x.of = call[c].of /\ x.attempt = call[c].attempt
    BY <2>1, <2>2 DEF Call, Await
  <2>4. call' = [call EXCEPT ![c] = x] /\ UNCHANGED <<ledgerVars, delivery, artifact, confirmedBy>>
    BY <1>6 DEF RequestAnswered, Goto
  <2>5. call'[c] = x /\ \A d \in Calls \ {c} : call'[d] = call[d]
    BY <2>4 DEF ServiceInvariant, ServiceTypes
  <2>6. CallHolds(c)'
    BY <1>1, <2>1, <2>3, <2>4, <2>5 DEF CallHolds, ledgerVars, Mutating
  <2>7. LedgerMoves /\ DeliveryMoves /\ artifact' \in BOOLEAN
    BY <2>4, LedgerUntouched, DeliveryKept, ArtifactTyped
  <2> HIDE DEF x
  <2>8. CallsMove
    BY <1>1, <1>4, <2>3, <2>4, <2>6, <2>7, CallGoesOn DEF Mutating
  <2>9. ASSUME ~interfered, NEW d \in Calls, Delivering(d)'
        PROVE  d = c /\ \A m \in inFlight' : m.kind = "create"
    <3>1. CASE kind = "create"
      BY <1>3, <1>4, <2>5, <2>9, <3>1 DEF ServiceInvariant, RemoteHolds, Delivering
    <3>2. CASE kind = "update"
      BY <1>3, <2>5, <2>9, <3>2 DEF ServiceInvariant, RemoteHolds, Delivering
    <3> QED
      BY <1>1, <1>6, <3>1, <3>2
  <2>10. RemoteHolds'
    BY <1>2, <1>3, <2>9, CarriedOutHolds
  <2> QED
    BY <1>4, <2>7, <2>8, <2>10, Compose DEF Keeps, LedgerMoves
<1> QED
  BY <1>5, <1>6

\* A lost request may arrive later; until then the call that sent it is no longer there.
LEMMA RequestLostKeeps ==
  ASSUME ServiceInvariant, NEW c \in Calls, RequestLost(c)
  PROVE  Keeps
<1>1. /\ call[c].pc \in {"create", "update", "pull"} /\ call[c].pc \in Mutating
      /\ FinishBundle(c, "uncertain")
      /\ inFlight' = inFlight \cup {Pending(c)}
      /\ UNCHANGED <<branch, pull, interfered, commits>>
  BY DEF RequestLost, Mutating
<1>2. Pending(c) \in [kind: {"create", "update", "pull"}, intent: Intents]
  BY <1>1, CallPlan, LedgerTypes DEF Pending
<1>3. RemoteMoves
  BY <1>1, <1>2 DEF RemoteMoves, ServiceInvariant, ServiceTypes
<1>4. /\ LedgerMoves /\ DeliveryMoves /\ CallsMove /\ artifact' \in BOOLEAN
      /\ \A d \in Calls : Delivering(d)' => Delivering(d) /\ d # c
  BY <1>1, <1>3, FinishBundleMoves
<1>5. RemoteHolds'
  <2> SUFFICES ASSUME ~interfered' PROVE RemoteHolds'
    BY DEF RemoteHolds
  <2>1. ~interfered /\ Pending(c).kind = call[c].pc
    BY <1>1 DEF Pending
  <2>2. call[c].pc # "create" => Delivering(c)
    BY <1>1 DEF Delivering
  <2>3. ASSUME NEW d \in Calls, Delivering(d)'
        PROVE  /\ branch' # "absent"
               /\ \A e \in Calls : Delivering(e)' => d = e
               /\ \A m \in inFlight' : m.kind = "create"
    <3>1. Delivering(d) /\ d # c /\ \A e \in Calls : Delivering(e)' => Delivering(e)
      BY <1>4, <2>3
    <3> QED
      BY <1>1, <2>1, <2>2, <3>1 DEF ServiceInvariant, RemoteHolds
  <2>4. \A m \in inFlight' : m.kind # "create" => branch' # "absent"
    BY <1>1, <2>1, <2>2 DEF ServiceInvariant, RemoteHolds
  <2>5. branch' # "foreign" /\ \A i \in Intents : commits'[i] = IF branch' = i THEN 1 ELSE 0
    BY <1>1, <2>1 DEF ServiceInvariant, RemoteHolds
  <2> QED
    BY <2>3, <2>4, <2>5 DEF RemoteHolds
<1> QED
  BY <1>3, <1>4, <1>5, Compose DEF Keeps, LedgerMoves

\* The commit seen stays until somebody else touches the branch, so an observation
\* made of two reads and applied later still holds when it is.
LEMMA ObserveBranchKeeps ==
  ASSUME ServiceInvariant, NEW c \in Calls, ObserveBranch(c)
  PROVE  Keeps
<1> DEFINE x == [call[c] EXCEPT !.pc = "observePull", !.seen = branch]
<1>1. /\ CallHolds(c) /\ call[c] \in Call
      /\ branch \in {"absent", "base", "foreign"} \cup Intents
  BY CallTyped DEF ServiceInvariant, ServiceTypes
<1>2. /\ x \in Call /\ x.pc = "observePull" /\ x.seen = branch
      /\ x.plan = call[c].plan /\ x.of = call[c].of /\ x.attempt = call[c].attempt
  BY <1>1 DEF Call, Await
<1>3. call' = [call EXCEPT ![c] = x]
  BY DEF ObserveBranch
<1>4. call'[c] = x
  BY <1>3 DEF ServiceInvariant, ServiceTypes
<1>5. CallHolds(c)'
  BY <1>1, <1>2, <1>4 DEF CallHolds, ObserveBranch, ledgerVars, remoteVars, Mutating
<1> HIDE DEF x
<1> QED
  BY <1>2, <1>3, <1>5, WaitingKeeps DEF Mutating, ObserveBranch

LEMMA ObservePullKeeps ==
  ASSUME ServiceInvariant, NEW c \in Calls, ObservePull(c)
  PROVE  Keeps
<1> DEFINE x == [call[c] EXCEPT !.pc = "decide", !.seen = Classified(call[c].plan, @, pull)]
<1>1. CallHolds(c) /\ call[c] \in Call
  BY CallTyped DEF ServiceInvariant
<1>2. IntentOf(call[c].plan) \in Intents
  BY CallPlan, LedgerTypes DEF ObservePull
<1>3. Classified(call[c].plan, call[c].seen, pull) \in Verdict
  BY DEF Classified, Verdict
<1>4. Classified(call[c].plan, call[c].seen, pull) = "delivered" =>
        call[c].seen = IntentOf(call[c].plan) /\ pull = IntentOf(call[c].plan)
  BY DEF Classified
<1>5. /\ x \in Call /\ x.pc = "decide" /\ x.seen = Classified(call[c].plan, call[c].seen, pull)
      /\ x.plan = call[c].plan /\ x.of = call[c].of /\ x.attempt = call[c].attempt
  BY <1>1, <1>3 DEF Call, Await
<1>6. call' = [call EXCEPT ![c] = x]
  BY DEF ObservePull
<1>7. call'[c] = x
  BY <1>6 DEF ServiceInvariant, ServiceTypes
<1> HIDE DEF x
<1>8. x.seen = "delivered" /\ ~interfered => OnRemote(call[c].plan)
  BY <1>1, <1>2, <1>4, <1>5 DEF CallHolds, OnRemote, ObservePull
<1>9. UNCHANGED <<content, attempts, delivery, branch, pull, interfered>>
  BY DEF ObservePull, ledgerVars, remoteVars
<1>10. CallHolds(c)'
  BY <1>1, <1>3, <1>5, <1>7, <1>8, <1>9 DEF CallHolds, ObservePull, OnRemote, IntentOf, Mutating
<1> QED
  BY <1>5, <1>6, <1>10, WaitingKeeps DEF Mutating, ObservePull

LEMMA ObserveFailsKeeps ==
  ASSUME ServiceInvariant, NEW c \in Calls, ObserveFails(c)
  PROVE  Keeps
<1> PICK p \in Plans : p = call[c].plan /\ delivery[p] # "absent"
  BY CallPlan DEF ObserveFails
<1>1. LedgerMoves
  BY MarkMoves DEF ObserveFails
<1>2. "uncertain" \in L!PlanStatus /\ "uncertain" \notin Inactive
  BY DEF L!PlanStatus, Inactive
<1>3. DeliveryMoves /\ (End(c) \/ call' = [d \in Calls |-> Idle])
  BY <1>1, <1>2, SyncThen DEF ObserveFails
<1> QED
  BY <1>1, <1>3, RemoteStill, CallRetires, ArtifactTyped, QuietKeeps DEF ObserveFails

\* The plan a decision is for, the plan whose attempt it decides, and what it was.
LEMMA Deciding ==
  ASSUME ServiceInvariant, NEW c \in Calls, call[c].pc = "decide"
  PROVE  /\ call[c].plan \in Plans /\ delivery[call[c].plan] # "absent"
         /\ call[c].of \in Plans /\ call[c].attempt \in 1..Len(attempts[call[c].of])
         /\ call[c].seen \in Verdict
         /\ "confirmed" \in Classifications(call[c].seen) =>
              (~interfered => OnRemote(call[c].plan))
<1>1. /\ call[c].plan \in Plans /\ delivery[call[c].plan] # "absent"
      /\ call[c].of \in Plans /\ call[c].attempt \in 1..Len(attempts[call[c].of])
      /\ call[c].seen \in Verdict
      /\ call[c].seen = "delivered" => (~interfered => OnRemote(call[c].plan))
  BY DEF ServiceInvariant, CallHolds
<1>2. "confirmed" \in Classifications(call[c].seen) => call[c].seen = "delivered"
  BY <1>1 DEF Classifications, Verdict
<1> QED
  BY <1>1, <1>2

LEMMA DecideUnconfirmedKeeps ==
  ASSUME ServiceInvariant, NEW c \in Calls, DecideUnconfirmed(c)
  PROVE  Keeps
<1> PICK p \in Plans, q \in Plans : p = call[c].plan /\ delivery[p] # "absent" /\ q = call[c].of
  BY Deciding DEF DecideUnconfirmed
<1>1. call[c].attempt \in 1..Len(attempts[q]) /\ call[c].seen \in Verdict
  BY Deciding DEF DecideUnconfirmed
<1> PICK seen \in Classifications(call[c].seen) \ {"confirmed"} :
      /\ Ledger!Reconcile(q, call[c].attempt, seen)
      /\ ThenGet(c, p, Ledger!StatusReconciled(seen))
  BY DEF DecideUnconfirmed
<1>2. seen \in {"not_applied", "drifted", "uncertain"}
  BY <1>1 DEF Classifications, Verdict
<1>3. LedgerMoves
  BY <1>1, <1>2, ReconcileMoves, ConfirmersTyped DEF DecideUnconfirmed
<1>4. Ledger!StatusReconciled(seen) \in L!PlanStatus \ Inactive
  BY <1>2 DEF Ledger!StatusReconciled, L!PlanStatus, Inactive
<1>5. DeliveryMoves /\ (End(c) \/ call' = [d \in Calls |-> Idle])
  BY <1>3, <1>4, GetThen
<1> QED
  BY <1>3, <1>5, RemoteStill, CallRetires, ArtifactTyped, QuietKeeps DEF DecideUnconfirmed

LEMMA DecideConfirmedKeeps ==
  ASSUME ServiceInvariant, NEW c \in Calls, DecideConfirmed(c)
  PROVE  Keeps
<1> PICK p \in Plans, q \in Plans : p = call[c].plan /\ delivery[p] # "absent" /\ q = call[c].of
  BY Deciding DEF DecideConfirmed
<1> DEFINE n == call[c].attempt
           verified == [status EXCEPT ![q] = "verified"]
           complete == [verified EXCEPT ![p] = "complete"]
<1>1. /\ n \in 1..Len(attempts[q]) /\ (~interfered => OnRemote(p))
      /\ call[c].pc = "decide"
  BY Deciding DEF DecideConfirmed
<1>2. /\ Undecided(q, n)
      /\ attempts' = [attempts EXCEPT ![q][n].decided = "confirmed"]
      /\ confirmedBy' = [confirmedBy EXCEPT ![q] = IF p = q THEN "itself" ELSE "another"]
      /\ UNCHANGED <<projectVersion, itemVersion, content, approvalOf, approval, expired,
                     envelopeOpen, remoteVars, artifact>>
  BY DEF DecideConfirmed
<1>3. status' = verified => LedgerMoves
  <2> SUFFICES ASSUME status' = verified PROVE LedgerMoves
    OBVIOUS
  <2>1. Ledger!Reconcile(q, n, "confirmed")
    BY <1>2 DEF Undecided, Reconcilable, Ledger!Reconcile, Ledger!StatusReconciled,
       Ledger!authorityVars, Ledger!contextVars
  <2>2. /\ confirmedBy' \in [Plans -> Confirmer]
        /\ \A r \in Plans \ {q} : confirmedBy'[r] = confirmedBy[r]
        /\ confirmedBy'[q] = "itself" => p = q
    BY <1>2, ConfirmersTyped DEF Confirmer
  <2> QED
    BY <1>1, <2>1, <2>2, ReconcileMoves
<1>4. status' = complete /\ Completes(p, q) => LedgerMoves /\ status'[p] = "complete"
  <2> SUFFICES ASSUME status' = complete, Completes(p, q) PROVE LedgerMoves /\ status'[p] = "complete"
    OBVIOUS
  <2>1. L!ConfirmAndComplete(p, q, n)
    BY <1>2, LedgerTypes DEF Undecided, Reconcilable, Completes, L!ConfirmAndComplete, L!Decides,
       L!authorityVars, L!contextVars
  <2> QED
    BY <1>1, <1>2, <2>1, ConfirmMoves
<1>5. /\ "verified" \in L!PlanStatus \ Inactive /\ "complete" \in L!PlanStatus \cap Inactive
      /\ "executing" \notin Inactive
  BY DEF L!PlanStatus, Inactive
<1>6. LedgerMoves => status'[p] # "absent"
  BY StillThere
<1>7. CASE status' = complete /\ Completes(p, q) /\ delivery' = [delivery EXCEPT ![p] = "complete"] /\ End(c)
  <2>1. DeliveryMoves
    BY <1>4, <1>5, <1>6, <1>7, WrittenMoves DEF Syncable
  <2> QED
    BY <1>2, <1>4, <1>7, <2>1, RemoteStill, CallRetires, ArtifactTyped, QuietKeeps
<1>8. CASE status' = verified /\ delivery' = Synced(p, "verified") /\ End(c)
  <2>1. DeliveryMoves
    BY <1>3, <1>5, <1>6, <1>8, SyncedMoves
  <2> QED
    BY <1>2, <1>3, <1>8, <2>1, RemoteStill, CallRetires, ArtifactTyped, QuietKeeps
<1>9. CASE /\ Dies
           /\ \/ status' = verified /\ delivery' \in {delivery, Synced(p, "verified")}
              \/ Completes(p, q) /\ status' = complete /\ delivery' = Synced(p, "verified")
  <2>1. LedgerMoves
    BY <1>3, <1>4, <1>9
  <2>2. DeliveryMoves
    BY <1>5, <1>6, <1>9, <2>1, SyncedMoves, DeliveryKept
  <2> QED
    BY <1>2, <1>9, <2>1, <2>2, RemoteStill, CallsKept, ArtifactTyped, QuietKeeps DEF Dies
<1> QED
  BY <1>7, <1>8, <1>9 DEF DecideConfirmed

LEMMA DecideAgainKeeps ==
  ASSUME ServiceInvariant, NEW c \in Calls, DecideAgain(c)
  PROVE  Keeps
<1> PICK p \in Plans, q \in Plans : p = call[c].plan /\ delivery[p] # "absent" /\ q = call[c].of
  BY Deciding DEF DecideAgain
<1>1. /\ status[q] \in L!PlanStatus \ Inactive
      /\ "complete" \in L!PlanStatus \cap Inactive /\ "executing" \notin Inactive
  BY DEF DecideAgain, Reconcilable, L!PlanStatus, Inactive
<1>2. UNCHANGED <<artifact, confirmedBy, remoteVars>>
  BY DEF DecideAgain
<1>3. LedgerMoves => status'[p] # "absent"
  BY StillThere
<1>4. CASE UNCHANGED ledgerVars /\ ThenGet(c, p, status[q])
  <2>1. LedgerMoves
    BY <1>2, <1>4, LedgerUntouched
  <2> QED
    BY <1>1, <1>2, <2>1, <1>4, GetThen, RemoteStill, CallRetires, ArtifactTyped, QuietKeeps
<1>5. CASE Ledger!Complete(p) /\ Syncable(p, status[q]) /\ delivery' = [delivery EXCEPT ![p] = "complete"] /\ End(c)
  <2>1. LedgerMoves /\ status'[p] = "complete"
    BY <1>2, <1>5, CompleteMoves
  <2>2. DeliveryMoves
    BY <1>1, <1>5, <2>1, WrittenMoves DEF Syncable
  <2> QED
    BY <1>2, <1>5, <2>1, <2>2, RemoteStill, CallRetires, ArtifactTyped, QuietKeeps
<1>6. CASE Ledger!Complete(p) /\ Dies /\ delivery' = Synced(p, status[q])
  <2>1. LedgerMoves /\ status'[p] = "complete"
    BY <1>2, <1>6, CompleteMoves
  <2>2. DeliveryMoves
    BY <1>1, <1>6, <2>1, SyncedMoves
  <2> QED
    BY <1>2, <1>6, <2>1, <2>2, RemoteStill, CallsKept, ArtifactTyped, QuietKeeps DEF Dies
<1>7. CASE UNCHANGED ledgerVars /\ delivery' = Synced(p, status[q]) /\ End(c)
  <2>1. LedgerMoves
    BY <1>2, <1>7, LedgerUntouched
  <2>2. DeliveryMoves
    BY <1>1, <1>3, <1>7, <2>1, SyncedMoves
  <2> QED
    BY <1>2, <1>7, <2>1, <2>2, RemoteStill, CallRetires, ArtifactTyped, QuietKeeps
<1> QED
  BY <1>4, <1>5, <1>6, <1>7 DEF DecideAgain

LEMMA DecideTooLateKeeps ==
  ASSUME ServiceInvariant, NEW c \in Calls, DecideTooLate(c)
  PROVE  Keeps
<1>1. LedgerMoves
  BY LedgerUntouched DEF DecideTooLate
<1> QED
  BY <1>1, DeliveryKept, RemoteStill, CallRetires, ArtifactTyped, QuietKeeps DEF DecideTooLate

LEMMA LedgerContextKeeps == ServiceInvariant /\ LedgerContext => Keeps
<1> SUFFICES ASSUME ServiceInvariant, LedgerContext PROVE Keeps
  OBVIOUS
<1>1. LedgerMoves /\ UNCHANGED <<delivery, artifact, call, remoteVars>>
  BY ContextMoves
<1> QED
  BY <1>1, DeliveryKept, RemoteStill, CallsKept, ArtifactTyped, QuietKeeps

\* What operators do by hand moves the ledger and leaves the service as it is.
LEMMA OperatorKeeps ==
  ASSUME ServiceInvariant, NEW p \in Plans,
         \/ OperatorAttempt(p)
         \/ \E n \in 1..Len(attempts[p]), class \in Ledger!Classifications : OperatorReconcile(p, n, class)
  PROVE  Keeps
<1>1. UNCHANGED <<delivery, artifact, call, remoteVars>>
  BY DEF OperatorAttempt, OperatorReconcile
<1>2. CASE OperatorAttempt(p)
  <2>1. UNCHANGED confirmedBy
    BY <1>2 DEF OperatorAttempt
  <2>2. CASE Ledger!StartAttempt(p)
    BY <2>1, <2>2, StartMoves, <1>1, DeliveryKept, RemoteStill, CallsKept, ArtifactTyped, QuietKeeps
  <2>3. CASE Ledger!StartRefused(p)
    BY <2>1, <2>3, BlockMoves, <1>1, DeliveryKept, RemoteStill, CallsKept, ArtifactTyped, QuietKeeps
  <2>4. ASSUME NEW n \in 1..Len(attempts[p]), NEW o \in Ledger!Outcomes, Ledger!FinishAttempt(p, n, o)
        PROVE  Keeps
    <3>1. LedgerMoves
      BY <2>1, <2>4, FinishMoves DEF Ledger!Outcomes
    <3> QED
      BY <3>1, <1>1, DeliveryKept, RemoteStill, CallsKept, ArtifactTyped, QuietKeeps
  <2>5. CASE Ledger!Complete(p)
    BY <2>1, <2>5, CompleteMoves, <1>1, DeliveryKept, RemoteStill, CallsKept, ArtifactTyped, QuietKeeps
  <2> QED
    BY <1>2, <2>2, <2>3, <2>4, <2>5 DEF OperatorAttempt
<1>3. ASSUME NEW n \in 1..Len(attempts[p]), NEW class \in Ledger!Classifications,
             OperatorReconcile(p, n, class)
      PROVE  Keeps
  <2>1. /\ confirmedBy' \in [Plans -> Confirmer]
        /\ \A q \in Plans \ {p} : confirmedBy'[q] = confirmedBy[q]
        /\ class = "confirmed" => confirmedBy'[p] = "operator"
    BY <1>3, ConfirmersTyped DEF OperatorReconcile, Confirmer
  <2>2. LedgerMoves
    BY <1>3, <2>1, ReconcileMoves DEF OperatorReconcile, Ledger!Classifications
  <2> QED
    BY <2>2, <1>1, DeliveryKept, RemoteStill, CallsKept, ArtifactTyped, QuietKeeps
<1> QED
  BY <1>2, <1>3

\* After a foreign actor nothing is claimed of the remote any more.
LEMMA InterfereKeeps ==
  ASSUME ServiceInvariant, Interfere
  PROVE  Keeps
<1>1. LedgerMoves /\ DeliveryMoves /\ artifact' \in BOOLEAN
  BY LedgerUntouched, DeliveryKept, ArtifactTyped DEF Interfere
<1>2. RemoteMoves
  BY DEF Interfere, RemoteMoves, ServiceInvariant, ServiceTypes
<1>3. CallsMove
  BY <1>1, <1>2, CallsKept DEF Interfere
<1>4. RemoteHolds'
  BY DEF Interfere, RemoteHolds
<1> QED
  BY <1>1, <1>2, <1>3, <1>4, Compose DEF Keeps, LedgerMoves

\* A late request other than the first finds nobody past the first mutation.
LEMMA LateRequestKeeps ==
  ASSUME ServiceInvariant, NEW m \in inFlight, LateRequest(m)
  PROVE  Keeps
<1>1. /\ m.kind \in {"create", "update", "pull"} /\ m.intent \in Intents
      /\ inFlight' \subseteq inFlight /\ CarryOut(m.kind, m.intent)
  BY DEF LateRequest, ServiceInvariant, ServiceTypes
<1>2. RemoteMoves /\ (m.kind = "create" <=> branch = "absent")
  BY <1>1, CarriedOut
<1>3. LedgerMoves /\ DeliveryMoves /\ artifact' \in BOOLEAN
  BY LedgerUntouched, DeliveryKept, ArtifactTyped DEF LateRequest
<1>4. CallsMove /\ \A c \in Calls : Delivering(c)' => Delivering(c)
  BY <1>2, <1>3, CallsKept DEF LateRequest
<1>5. ~interfered => \A c \in Calls : ~Delivering(c)
  BY <1>2 DEF ServiceInvariant, RemoteHolds
<1>6. RemoteHolds'
  BY <1>1, <1>4, <1>5, CarriedOutHolds
<1> QED
  BY <1>2, <1>3, <1>4, <1>6, Compose DEF Keeps, LedgerMoves

LEMMA CrashKeeps ==
  ASSUME ServiceInvariant, Crash
  PROVE  Keeps
<1>1. LedgerMoves /\ DeliveryMoves /\ artifact' \in BOOLEAN
  BY LedgerUntouched, DeliveryKept, ArtifactTyped DEF Crash
<1> PICK sent \in SUBSET {c \in Calls : call[c].pc \in {"create", "update", "pull"}} :
      inFlight' = inFlight \cup {Pending(c) : c \in sent}
  BY DEF Crash
<1>2. ASSUME NEW c \in sent
      PROVE  /\ c \in Calls /\ call[c].pc \in {"create", "update", "pull"}
             /\ Pending(c) \in [kind: {"create", "update", "pull"}, intent: Intents]
             /\ Pending(c).kind # "create" => Delivering(c)
  <2>1. c \in Calls /\ call[c].pc \in {"create", "update", "pull"}
    OBVIOUS
  <2>2. IntentOf(call[c].plan) \in Intents
    BY <2>1, CallPlan, LedgerTypes
  <2> QED
    BY <2>1, <2>2 DEF Pending, Delivering
<1>3. RemoteMoves
  BY <1>2 DEF Crash, RemoteMoves, ServiceInvariant, ServiceTypes
<1>4. CallsMove /\ \A c \in Calls : ~Delivering(c)'
  <2>1. CallsMove
    BY <1>1, <1>3, CallsKept DEF Crash
  <2> QED
    BY <2>1 DEF Crash, Delivering, Idle
<1>5. RemoteHolds'
  <2> SUFFICES ASSUME ~interfered' PROVE RemoteHolds'
    BY DEF RemoteHolds
  <2>1. ~interfered /\ UNCHANGED <<branch, commits>>
    BY DEF Crash
  <2>2. \A m \in inFlight' : m.kind # "create" => branch # "absent"
    BY <1>2, <2>1 DEF ServiceInvariant, RemoteHolds
  <2> QED
    BY <1>4, <2>1, <2>2 DEF ServiceInvariant, RemoteHolds
<1> QED
  BY <1>1, <1>3, <1>4, <1>5, Compose DEF Keeps, LedgerMoves

LEMMA CallStepKeeps ==
  ASSUME ServiceInvariant, NEW c \in Calls, CallStep(c)
  PROVE  Keeps
BY RemoteRefusedKeeps, RemoteAcceptedKeeps, StartThrowsKeeps, QuietBundleKeeps, BundleClearKeeps,
   RequestAnsweredKeeps, RequestLostKeeps, ObserveBranchKeeps, ObserveFailsKeeps, ObservePullKeeps,
   DecideUnconfirmedKeeps, DecideConfirmedKeeps, DecideAgainKeeps, DecideTooLateKeeps DEF CallStep

LEMMA RequestKeeps ==
  ASSUME ServiceInvariant, NEW c \in Calls, Request(c)
  PROVE  Keeps
<1>1. CASE \E p \in Plans :
             ExecuteBegin(c, p) \/ \E q \in Plans : \E n \in 1..Len(attempts[q]) : ReconcileBegin(c, p, q, n)
  BY <1>1, BeginKeeps
<1>2. CASE \E p \in Plans : ExecuteBlocked(c, p)
  BY <1>2, BlockDeliveryKeeps DEF ExecuteBlocked
<1> QED
  BY <1>1, <1>2 DEF Request

LEMMA NothingMovesKeeps ==
  ASSUME ServiceInvariant, UNCHANGED <<ledgerVars, delivery, call, confirmedBy, remoteVars>>, artifact' \in BOOLEAN
  PROVE  Keeps
BY LedgerUntouched, DeliveryKept, RemoteStill, CallsKept, QuietKeeps

LEMMA EnvironmentKeeps == ServiceInvariant /\ Environment => Keeps
<1> SUFFICES ASSUME ServiceInvariant, Environment PROVE Keeps
  OBVIOUS
<1>1. ArtifactDrifts => Keeps
  BY NothingMovesKeeps DEF ArtifactDrifts
<1> QED
  BY <1>1, LedgerContextKeeps, OperatorKeeps, InterfereKeeps, LateRequestKeeps, CrashKeeps
     DEF Environment

LEMMA NextKeeps == ServiceInvariant /\ [Next]_vars => Keeps
<1> SUFFICES ASSUME ServiceInvariant, [Next]_vars PROVE Keeps
  OBVIOUS
<1>1. UNCHANGED vars => Keeps
  BY NothingMovesKeeps, ArtifactTyped DEF vars
<1> QED
  BY <1>1, CompilePlanKeeps, LedgerPlanKeeps, AuthorityKeeps, GetKeeps, RequestKeeps, CallStepKeeps, EnvironmentKeeps
     DEF Next

LEMMA InitHolds == Init => ServiceInvariant
<1> SUFFICES ASSUME Init PROVE ServiceInvariant
  OBVIOUS
<1>1. L!Init
  BY DEF Init, Ledger!Init, L!Init, Ledger!NoRow, L!NoRow
<1>2. L!LedgerInvariant
  BY <1>1, L!InitInvariant, Assumptions
<1>3. ServiceTypes
  BY DEF Init, ServiceTypes, Idle, Call, Await, Confirmer
<1>4. \A p \in Plans : RowHolds(p)
  BY <1>1 DEF Init, L!Init, RowHolds
<1>5. OneActive /\ Apart /\ \A c \in Calls : CallHolds(c)
  BY DEF Init, OneActive, Inactive, Apart, CallHolds, Idle, Mutating
<1>6. RemoteHolds
  <2>1. "absent" \notin Intents
    BY SentinelAssumption
  <2> QED
    BY <2>1 DEF Init, RemoteHolds, Delivering, Idle
<1> QED
  BY <1>2, <1>3, <1>4, <1>5, <1>6 DEF ServiceInvariant

-----------------------------------------------------------------------------
(* Theorems *)

\* The ledger, its mirror, the calls being served and the remote agree, whatever
\* interleaves, arrives late, is lost or is killed.
THEOREM ServiceCorrect == Spec => []ServiceInvariant
<1>1. ServiceInvariant /\ [Next]_vars => ServiceInvariant'
  BY NextKeeps DEF Keeps
<1> QED
  BY <1>1, InitHolds, PTL DEF Spec

\* Type correctness of the service, the ledger's included.
THEOREM TypeCorrect == Spec => []TypeOK
<1>1. ServiceInvariant => TypeOK
  <2>1. ServiceInvariant => Ledger!TypeOK
    BY SameTypes DEF ServiceInvariant, L!LedgerInvariant
  <2>2. Ledger!PlanStatus = L!PlanStatus
    BY DEF Ledger!PlanStatus, L!PlanStatus
  <2> QED
    BY <2>1, <2>2 DEF ServiceInvariant, ServiceTypes, TypeOK, Confirmer
<1> QED
  BY <1>1, ServiceCorrect, PTL

\* Driven from asynchronous calls that may be killed anywhere, the ledger keeps its
\* own invariant.
THEOREM LedgerHoldsThroughout == Spec => []LedgerHolds
<1>1. ServiceInvariant => LedgerHolds
  BY SameInvariant DEF ServiceInvariant, LedgerHolds
<1> QED
  BY <1>1, ServiceCorrect, PTL

\* A call at work on an open attempt has a live mirror, the only one the index admits.
LEMMA WorkHasTheBranch ==
  ASSUME ServiceInvariant, NEW c \in Calls, Working(c)
  PROVE  /\ call[c].plan \in Plans
         /\ call[c].attempt = Len(attempts[call[c].plan])
         /\ \A q \in Plans \ {call[c].plan} : delivery[q] \in Inactive
<1> PICK p \in Plans : p = call[c].plan
  BY CallPlan DEF Working
<1>1. /\ call[c].attempt \in 1..Len(attempts[p]) /\ attempts[p][call[c].attempt].status = "started"
      /\ delivery[p] \notin Inactive
  BY DEF ServiceInvariant, CallHolds, Working, Finishable, Mutating
<1>2. call[c].attempt = Len(attempts[p])
  BY <1>1, L!OpenAttemptIsLast, Assumptions DEF ServiceInvariant
<1> QED
  BY <1>1, <1>2 DEF ServiceInvariant, OneActive

\* While a call mutates the remote on an open attempt no other delivery is live for
\* the branch, though mirrors are also written on behalf of other calls and plans.
THEOREM BranchIsHeld == Spec => []BranchHeld
<1>1. ServiceInvariant => BranchHeld
  BY WorkHasTheBranch DEF BranchHeld, Inactive
<1> QED
  BY <1>1, ServiceCorrect, PTL

\* Of all calls past their preflight only one works on the remote: of two plans the
\* index lets one have the branch, and of one plan only the last attempt is open.
THEOREM OneMutatorOnly == Spec => []OneMutator
<1>1. ASSUME ServiceInvariant, NEW c \in Calls, NEW d \in Calls, Working(c), Working(d)
      PROVE  c = d
  <2>1. call[c].plan = call[d].plan
    <3>1. delivery[call[c].plan] \notin Inactive
      BY <1>1 DEF ServiceInvariant, CallHolds, Working, Finishable, Mutating
    <3> QED
      BY <1>1, <3>1, WorkHasTheBranch
  <2>2. call[c].attempt = call[d].attempt
    BY <1>1, <2>1, WorkHasTheBranch
  <2> QED
    BY <1>1, <2>1, <2>2 DEF ServiceInvariant, Apart, Working, Mutating
<1>2. ServiceInvariant => OneMutator
  BY <1>1 DEF OneMutator
<1> QED
  BY <1>2, ServiceCorrect, PTL

\* A delivery completed on what the service observed of that very delivery is the
\* commit on the branch and the open pull request, unless somebody else touched
\* them: nothing of the service takes either back.
THEOREM CompletionsAreDelivered == Spec => []CompleteIsDelivered
<1>1. ServiceInvariant => CompleteIsDelivered
  BY DEF ServiceInvariant, RowHolds, CompleteIsDelivered
<1> QED
  BY <1>1, ServiceCorrect, PTL

\* Retries, late requests and stale observations together move the branch once, and
\* one bundle at most gets past its first mutation.
THEOREM DeliveredOnlyOnce == Spec => []DeliveredOnce
<1>1. ServiceInvariant => DeliveredOnce
  BY DEF ServiceInvariant, RemoteHolds, DeliveredOnce
<1> QED
  BY <1>1, ServiceCorrect, PTL

\* No request of the service moves a branch that holds more than the base commit.
THEOREM NothingIsOverwritten == Spec => NothingOverwritten
<1> DEFINE Kept == branch \notin {"absent", "base"} /\ interfered' = interfered => branch' = branch
<1>1. ASSUME NEW kind, NEW i, CarryOut(kind, i) PROVE Kept
  BY <1>1 DEF CarryOut, Creatable, Movable
<1>2. ASSUME NEW c \in Calls, CallStep(c) PROVE Kept
  BY <1>1, <1>2 DEF CallStep, RemoteRefused, RemoteAccepted, StartThrows, BundleRefused, BundleReused,
     BundleClear, RequestAnswered, PullFound, RequestRefused, RequestLost, ObserveBranch, ObserveFails,
     ObservePull, DecideUnconfirmed, DecideConfirmed, DecideAgain, DecideTooLate, remoteVars
<1>3. ASSUME NEW c \in Calls, Request(c) PROVE Kept
  BY <1>3 DEF Request, ExecuteBegin, ExecuteBlocked, ReconcileBegin, remoteVars
<1>4. Environment => Kept
  BY <1>1 DEF Environment, LedgerContext, OperatorAttempt, OperatorReconcile, ArtifactDrifts, Interfere,
     LateRequest, Crash, remoteVars
<1>5. [Next]_vars => [Kept]_vars
  BY <1>2, <1>3, <1>4 DEF Next, CompilePlan, LedgerPlan, Authority, Get, remoteVars
<1> QED
  BY <1>5, PTL DEF Spec, NothingOverwritten

-----------------------------------------------------------------------------
(***************************************************************************)
(* What the service inherits from the ledger.  Completing a delivery in    *)
(* the stretch that confirms it is two steps of the ledger at once, so     *)
(* these are not instances of the ledger's theorems but proved of          *)
(* LedgerStep anew.                                                        *)
(***************************************************************************)

\* Authority is rechecked at the moment of use: between the preflight and the start
\* lies an await, and still no attempt is started under an approval, a version or a
\* project that does not hold when it starts.
THEOREM AuthorityHoldsAtUse == Spec => L!UseTimeAuthority
<1> DEFINE Authorized == \A p \in Plans : Len(attempts'[p]) > Len(attempts[p]) => L!AuthorizedNow(p)
<1>1. ASSUME L!LedgerInvariant, [L!Next]_(L!vars) PROVE Authorized
  BY <1>1, L!StartsAreAuthorized, Assumptions
<1>2. ASSUME L!LedgerInvariant, NEW p \in Plans, NEW r \in Plans, NEW n \in 1..Len(attempts[r]),
             L!ConfirmAndComplete(p, r, n)
      PROVE  Authorized
  <2>1. /\ L!Decides(r, n, "confirmed", IF p = r THEN "complete" ELSE "verified")
        /\ "confirmed" \in L!Classifications \ {"uncertain"}
    BY <1>2 DEF L!ConfirmAndComplete, L!Classifications
  <2>2. \A q \in Plans : Len(attempts'[q]) = Len(attempts[q])
    BY <1>2, <2>1, L!DecidesKeepsLengths, Assumptions
  <2>3. \A q \in Plans : Len(attempts[q]) \in Nat
    BY <1>2, LenProperties DEF L!LedgerInvariant, L!TypeOK
  <2> QED
    BY <2>2, <2>3
<1>3. ServiceInvariant /\ [Next]_vars => [Authorized]_(L!vars)
  BY <1>1, <1>2, NextKeeps DEF Keeps, LedgerStep, ServiceInvariant
<1> QED
  BY <1>3, ServiceCorrect, PTL DEF Spec, L!UseTimeAuthority

\* A delivery is a governed effect: whatever requests, kills and late answers do, it is
\* tried only while authorized, again only once known not applied, and boundedly often.
THEOREM ServiceImplementsGovernedEffect == Spec => L!RefinesGovernedEffect
<1>1. Init => L!Effect!Init
  <2> SUFFICES ASSUME Init PROVE L!Effect!Init
    OBVIOUS
  <2>1. \A p \in Plans : L!Phase(p) = "unauthorized" /\ Len(attempts[p]) = 0
    BY EmptySeq DEF Init, Ledger!Init, L!Phase
  <2> QED
    BY <2>1 DEF L!Effect!Init
<1>2. ServiceInvariant /\ [Next]_vars => [L!Effect!Next]_(L!Effect!vars)
  <2> SUFFICES ASSUME ServiceInvariant, [Next]_vars PROVE [L!Effect!Next]_(L!Effect!vars)
    OBVIOUS
  <2>1. L!LedgerInvariant /\ LedgerStep
    BY NextKeeps DEF Keeps, ServiceInvariant
  <2>2. CASE [L!Next]_(L!vars)
    BY <2>1, <2>2, L!NextImplements, Assumptions
  <2>3. CASE \E p, q \in Plans : \E n \in 1..Len(attempts[q]) : L!ConfirmAndComplete(p, q, n)
    BY <2>1, <2>3, L!ConfirmAndCompleteImplements, Assumptions
  <2> QED
    BY <2>1, <2>2, <2>3 DEF LedgerStep
<1> QED
  BY <1>1, <1>2, ServiceCorrect, PTL DEF Spec, L!RefinesGovernedEffect, L!Effect!Spec
-----------------------------------------------------------------------------
(***************************************************************************)
(* What makes the service settle.  That it does takes fairness, which is   *)
(* left to TLC; what fairness is applied to is proved here: a call has a   *)
(* number of awaits left that every step of its own lowers and no other    *)
(* step raises, and on its way it does not let go of an open attempt.      *)
(***************************************************************************)

\* How many awaits, at most, a call suspended at this one has left.
Left ==
  [remote |-> 8, check |-> 7, create |-> 6, update |-> 5, pull |-> 4,
   observe |-> 3, observePull |-> 2, decide |-> 1, idle |-> 0]

Nearer(c) == Left[call'[c].pc] < Left[call[c].pc]

\* Others are left alone, or killed with it.
OthersWait(c) == \A d \in Calls \ {c} : call'[d] = call[d] \/ (MayCrash /\ call'[d] = Idle)

LEMMA IdleIsNearest ==
  ASSUME ServiceInvariant, NEW c \in Calls, call[c].pc # "idle", call'[c] = Idle
  PROVE  Nearer(c)
<1>1. call[c].pc \in Await \ {"idle"}
  BY CallTyped DEF Call
<1> QED
  BY <1>1 DEF Nearer, Left, Idle, Await

LEMMA MovesOn ==
  ASSUME ServiceInvariant, NEW c \in Calls, call[c].pc # "idle", NEW x \in Call,
         call' = [call EXCEPT ![c] = x], Left[x.pc] < Left[call[c].pc]
  PROVE  Nearer(c) /\ OthersWait(c)
BY DEF ServiceInvariant, ServiceTypes, Nearer, OthersWait

LEMMA EndsOrKilled ==
  ASSUME ServiceInvariant, NEW c \in Calls, call[c].pc # "idle",
         End(c) \/ Dies
  PROVE  Nearer(c) /\ OthersWait(c)
<1>1. call'[c] = Idle /\ OthersWait(c)
  BY DEF ServiceInvariant, ServiceTypes, End, Dies, OthersWait
<1> QED
  BY <1>1, IdleIsNearest

LEMMA GoesTo ==
  ASSUME ServiceInvariant, NEW c \in Calls, call[c].pc # "idle", NEW pc \in Await, Goto(c, pc),
         Left[pc] < Left[call[c].pc]
  PROVE  Nearer(c) /\ OthersWait(c)
<1> DEFINE x == [call[c] EXCEPT !.pc = pc]
<1>1. x \in Call /\ x.pc = pc /\ call' = [call EXCEPT ![c] = x]
  BY CallTyped DEF Call, Goto
<1> HIDE DEF x
<1> QED
  BY <1>1, MovesOn

LEMMA SyncEnds ==
  ASSUME ServiceInvariant, NEW c \in Calls, call[c].pc # "idle", NEW p, NEW s, ThenSync(c, p, s, "idle")
  PROVE  Nearer(c) /\ OthersWait(c)
BY EndsOrKilled DEF ThenSync, Killed

LEMMA FinishNearer ==
  ASSUME ServiceInvariant, NEW c \in Calls, call[c].pc \in Mutating, NEW o, FinishBundle(c, o)
  PROVE  Nearer(c) /\ OthersWait(c)
<1>1. End(c) \/ Goto(c, "observe") \/ Dies
  BY DEF FinishBundle, ThenSync, Killed
<1>2. Left["observe"] < Left[call[c].pc] /\ "observe" \in Await /\ call[c].pc # "idle"
  BY DEF Left, Mutating, Await
<1> QED
  BY <1>1, <1>2, EndsOrKilled, GoesTo

LEMMA CallStepNearer ==
  ASSUME ServiceInvariant, NEW c \in Calls, CallStep(c)
  PROVE  call[c].pc # "idle" /\ Nearer(c) /\ OthersWait(c)
<1>1. CASE RemoteRefused(c)
  BY <1>1, SyncEnds DEF RemoteRefused, BlockDelivery
<1>2. CASE RemoteAccepted(c)
  <2>1. call[c].pc = "remote"
    BY <1>2 DEF RemoteAccepted
  <2> DEFINE x == [call[c] EXCEPT !.pc = "check", !.attempt = Len(attempts'[call[c].plan])]
  <2>2. call' = [call EXCEPT ![c] = x] \/ End(c) \/ Dies
    BY <1>2 DEF RemoteAccepted, End, Killed
  <2>3. call' = [call EXCEPT ![c] = x] => x \in Call /\ x.pc = "check"
    <3>1. PICK p \in Plans : p = call[c].plan /\ delivery[p] # "absent"
      BY <2>1, CallPlan
    <3>2. Len(attempts'[p]) \in Nat
      BY <1>2, <3>1, StartMoves, LedgerTypes DEF RemoteAccepted
    <3> QED
      BY <3>1, <3>2, CallTyped DEF Call, Await
  <2>4. Left["check"] < Left["remote"]
    BY DEF Left
  <2> HIDE DEF x
  <2> QED
    BY <2>1, <2>2, <2>3, <2>4, MovesOn, EndsOrKilled
<1>3. CASE StartThrows(c)
  BY <1>3, EndsOrKilled DEF StartThrows
<1>4. CASE BundleRefused(c) \/ BundleReused(c) \/ PullFound(c) \/ RequestRefused(c) \/ RequestLost(c)
  <2>1. call[c].pc \in Mutating /\ call[c].pc # "idle" /\ \E o : FinishBundle(c, o)
    BY <1>4 DEF BundleRefused, BundleReused, PullFound, RequestRefused, RequestLost, Mutating
  <2> QED
    BY <2>1, FinishNearer
<1>5. CASE BundleClear(c)
  BY <1>5, GoesTo DEF BundleClear, Left, Await
<1>6. CASE RequestAnswered(c)
  <2>1. CASE call[c].pc = "pull"
    BY <1>6, <2>1, FinishNearer DEF RequestAnswered, Mutating
  <2>2. CASE call[c].pc # "pull"
    <3>1. call[c].pc \in {"create", "update"} /\ Goto(c, AfterRequest[call[c].pc])
      BY <1>6, <2>2 DEF RequestAnswered
    <3>2. /\ AfterRequest[call[c].pc] \in Await
          /\ Left[AfterRequest[call[c].pc]] < Left[call[c].pc]
      BY <3>1 DEF AfterRequest, Left, Await
    <3> QED
      BY <3>1, <3>2, GoesTo
  <2> QED
    BY <2>1, <2>2
<1>7. CASE ObserveBranch(c)
  <2> DEFINE x == [call[c] EXCEPT !.pc = "observePull", !.seen = branch]
  <2>1. x \in Call /\ x.pc = "observePull"
    BY CallTyped DEF ServiceInvariant, ServiceTypes, Call, Await
  <2>2. call' = [call EXCEPT ![c] = x] /\ call[c].pc = "observe"
    BY <1>7 DEF ObserveBranch
  <2>3. Left["observePull"] < Left["observe"]
    BY DEF Left
  <2> HIDE DEF x
  <2> QED
    BY <2>1, <2>2, <2>3, MovesOn
<1>8. CASE ObservePull(c)
  <2> DEFINE x == [call[c] EXCEPT !.pc = "decide", !.seen = Classified(call[c].plan, @, pull)]
  <2>1. x \in Call /\ x.pc = "decide"
    BY CallTyped DEF Call, Await, Classified, Verdict
  <2>2. call' = [call EXCEPT ![c] = x] /\ call[c].pc = "observePull"
    BY <1>8 DEF ObservePull
  <2>3. Left["decide"] < Left["observePull"]
    BY DEF Left
  <2> HIDE DEF x
  <2> QED
    BY <2>1, <2>2, <2>3, MovesOn
<1>9. CASE ObserveFails(c)
  BY <1>9, SyncEnds DEF ObserveFails
<1>10. CASE DecideUnconfirmed(c) \/ DecideConfirmed(c) \/ DecideAgain(c) \/ DecideTooLate(c)
  BY <1>10, EndsOrKilled DEF DecideUnconfirmed, DecideConfirmed, DecideAgain, DecideTooLate, ThenGet
<1> QED
  BY <1>1, <1>2, <1>3, <1>4, <1>5, <1>6, <1>7, <1>8, <1>9, <1>10 DEF CallStep

\* Nothing that is not a step of a call moves one that is being served.
LEMMA OnlyCallStepsMove ==
  ASSUME ServiceInvariant, [Next]_vars, NEW c \in Calls, call[c].pc # "idle",
         \A d \in Calls : ~CallStep(d)
  PROVE  call'[c] = call[c] \/ (MayCrash /\ call'[c] = Idle)
<1>1. CASE \E d \in Calls : Request(d)
  <2> PICK d \in Calls : Request(d)
    BY <1>1
  <2>1. ASSUME call[d].pc = "idle", NEW x, call' = [call EXCEPT ![d] = x] PROVE call'[c] = call[c]
    BY <2>1 DEF ServiceInvariant, ServiceTypes
  <2>2. ASSUME NEW p \in Plans, ExecuteBegin(d, p) PROVE call'[c] = call[c]
    <3> DEFINE x == [Idle EXCEPT !.pc = "remote", !.plan = p, !.of = p]
    <3>1. call[d].pc = "idle" /\ call' = [call EXCEPT ![d] = x]
      BY <2>2 DEF ExecuteBegin
    <3> HIDE DEF x
    <3> QED
      BY <2>1, <3>1
  <2>3. ASSUME NEW p \in Plans, NEW q \in Plans, NEW n \in 1..Len(attempts[q]), ReconcileBegin(d, p, q, n)
        PROVE  call'[c] = call[c]
    <3> DEFINE x == [Idle EXCEPT !.pc = "observe", !.plan = p, !.of = q, !.attempt = n]
    <3>1. call[d].pc = "idle" /\ call' = [call EXCEPT ![d] = x]
      BY <2>3 DEF ReconcileBegin
    <3> HIDE DEF x
    <3> QED
      BY <2>1, <3>1
  <2>4. ASSUME NEW p \in Plans, ExecuteBlocked(d, p) PROVE call'[c] = call[c] \/ (MayCrash /\ call'[c] = Idle)
    <3>1. call[d].pc = "idle" /\ (End(d) \/ Dies)
      BY <2>4 DEF ExecuteBlocked, BlockDelivery, ThenSync, Killed
    <3> QED
      BY <2>1, <3>1 DEF End, Dies
  <2> QED
    BY <2>2, <2>3, <2>4 DEF Request
<1>2. CASE Environment
  BY <1>2 DEF Environment, LedgerContext, OperatorAttempt, OperatorReconcile, ArtifactDrifts, Interfere, LateRequest, Crash
<1>3. CASE \/ \E p \in Plans, i \in Intents, w \in WorkItems : CompilePlan(p, i, w)
           \/ \E p \in Plans, i \in Intents, w \in WorkItems, q \in Plans \cup {NoPlan} : LedgerPlan(p, i, w, q)
           \/ \E p \in Plans : Authority(p)
           \/ \E p \in Plans : Get(p)
           \/ UNCHANGED vars
  BY <1>3 DEF CompilePlan, LedgerPlan, Authority, Get, vars
<1> QED
  BY <1>1, <1>2, <1>3 DEF Next

\* Every step of a call brings it nearer to its end, and nobody else's step keeps it
\* from there: a call takes eight steps at most, however many others are served.
CallsComeToAnEnd ==
  [][\A c \in Calls :
       /\ CallStep(c) => Nearer(c)
       /\ call[c].pc # "idle" /\ call'[c] # call[c] => Nearer(c)]_vars

\* Calls come to an end: execute and reconcile await a bounded number of answers.
THEOREM CallsAreBounded == Spec => CallsComeToAnEnd
<1> DEFINE Forward ==
      \A c \in Calls :
        /\ CallStep(c) => Nearer(c)
        /\ call[c].pc # "idle" /\ call'[c] # call[c] => Nearer(c)
<1>1. ASSUME ServiceInvariant, [Next]_vars, NEW c \in Calls
      PROVE  /\ CallStep(c) => Nearer(c)
             /\ call[c].pc # "idle" /\ call'[c] # call[c] => Nearer(c)
  <2>1. CallStep(c) => Nearer(c)
    BY <1>1, CallStepNearer
  <2>2. ASSUME call[c].pc # "idle", call'[c] # call[c], ~CallStep(c) PROVE Nearer(c)
    <3>1. call'[c] = Idle
      BY <1>1, <2>2, CallStepNearer, OnlyCallStepsMove DEF OthersWait
    <3> QED
      BY <1>1, <2>2, <3>1, IdleIsNearest
  <2> QED
    BY <2>1, <2>2
<1>2. ServiceInvariant /\ [Next]_vars => [Forward]_vars
  BY <1>1
<1> QED
  BY <1>2, ServiceCorrect, PTL DEF Spec, CallsComeToAnEnd

-----------------------------------------------------------------------------
(* No way out of executeBundle forgets its attempt *)

\* A call that goes on inside executeBundle, with its attempt still open.
LEMMA StillWorking ==
  ASSUME ServiceInvariant, ServiceInvariant', NEW c \in Calls, Working(c),
         call'[c].plan = call[c].plan, call'[c].attempt = call[c].attempt, call'[c].pc \in Mutating,
         attempts'[call[c].plan][call[c].attempt].status = "started"
  PROVE  Working(c)'
<1> PICK p \in Plans : p = call[c].plan
  BY WorkHasTheBranch
<1>1. call[c].attempt \in 1..Len(attempts'[p])
  BY DEF ServiceInvariant, CallHolds, Mutating
<1>2. status'[p] = "executing"
  BY <1>1, OpenIsExecuting DEF ServiceInvariant
<1> QED
  BY <1>2 DEF Working, Finishable, Mutating

\* An attempt that is open is finished with the outcome, never left as it is.
LEMMA BundleFinishes ==
  ASSUME ServiceInvariant, NEW c \in Calls, Working(c),
         NEW o \in {"succeeded", "failed", "uncertain"}, FinishBundle(c, o)
  PROVE  attempts'[call[c].plan][call[c].attempt].status # "started"
<1> PICK p \in Plans : p = call[c].plan
  BY WorkHasTheBranch
<1>1. attempts' = [attempts EXCEPT ![p][call[c].attempt].status = o]
  BY DEF FinishBundle, Working, Ledger!FinishAttempt
<1>2. call[c].attempt \in 1..Len(attempts[p])
  BY DEF ServiceInvariant, CallHolds, Working, Mutating
<1>3. attempts[p] \in Seq(L!Attempt) /\ attempts[p][call[c].attempt] \in L!Attempt
  BY <1>2, LedgerTypes, ElementOfSeq
<1> QED
  BY <1>1, <1>2, <1>3, LedgerTypes DEF L!Attempt

LEMMA OwnStep ==
  ASSUME ServiceInvariant, ServiceInvariant', NEW c \in Calls, Working(c), CallStep(c)
  PROVE  \/ Working(c)' /\ call'[c].plan = call[c].plan /\ call'[c].attempt = call[c].attempt
         \/ attempts'[call[c].plan][call[c].attempt].status # "started"
<1>1. call[c].pc \in Mutating
  BY DEF Working, Mutating
<1>2. CASE BundleRefused(c) \/ BundleReused(c) \/ PullFound(c) \/ RequestRefused(c) \/ RequestLost(c)
           \/ (RequestAnswered(c) /\ call[c].pc = "pull")
  <2>1. \E o \in {"succeeded", "failed", "uncertain"} : FinishBundle(c, o)
    BY <1>2 DEF BundleRefused, BundleReused, PullFound, RequestRefused, RequestLost, RequestAnswered
  <2> QED
    BY <2>1, BundleFinishes
<1>3. CASE BundleClear(c) \/ (RequestAnswered(c) /\ call[c].pc # "pull")
  <2> PICK pc \in Mutating : Goto(c, pc)
    BY <1>3 DEF BundleClear, RequestAnswered, AfterRequest, Mutating
  <2>1. UNCHANGED attempts
    BY <1>3 DEF BundleClear, RequestAnswered, ledgerVars
  <2> DEFINE x == [call[c] EXCEPT !.pc = pc]
  <2>2. x.pc = pc /\ x.plan = call[c].plan /\ x.attempt = call[c].attempt
    BY CallTyped DEF Call
  <2>3. call'[c] = x
    BY DEF Goto, ServiceInvariant, ServiceTypes
  <2> HIDE DEF x
  <2>4. attempts'[call[c].plan][call[c].attempt].status = "started"
    BY <2>1 DEF Working, Finishable
  <2> QED
    BY <2>2, <2>3, <2>4, StillWorking
<1> QED
  BY <1>1, <1>2, <1>3 DEF CallStep, Mutating, RemoteRefused, RemoteAccepted, StartThrows, ObserveBranch,
     ObserveFails, ObservePull, DecideUnconfirmed, DecideConfirmed, DecideAgain, DecideTooLate

\* What a call has begun on the remote is reported, however its requests end; only a
\* kill leaves an attempt open with nobody at work on it.
THEOREM BundlesReport == Spec => BundlesFinish
<1> DEFINE Finishes ==
      \A c \in Calls : Working(c) =>
        \/ Working(c)' /\ call'[c].plan = call[c].plan /\ call'[c].attempt = call[c].attempt
        \/ attempts'[call[c].plan][call[c].attempt].status # "started"
        \/ MayCrash /\ call'[c] = Idle
<1>1. ASSUME ServiceInvariant, ServiceInvariant', [Next]_vars, NEW c \in Calls, Working(c), ~CallStep(c)
      PROVE  \/ call'[c] = call[c]
             \/ MayCrash /\ call'[c] = Idle
  <2>1. call[c].pc # "idle"
    BY <1>1 DEF Working
  <2>2. CASE \E d \in Calls \ {c} : CallStep(d)
    BY <1>1, <2>2, CallStepNearer DEF OthersWait
  <2>3. CASE \A d \in Calls : ~CallStep(d)
    BY <1>1, <2>1, <2>3, OnlyCallStepsMove
  <2> QED
    BY <1>1, <2>2, <2>3
<1>2. ASSUME ServiceInvariant, ServiceInvariant', NEW c \in Calls, Working(c), call'[c] = call[c]
      PROVE  \/ Working(c)' /\ call'[c].plan = call[c].plan /\ call'[c].attempt = call[c].attempt
             \/ attempts'[call[c].plan][call[c].attempt].status # "started"
  BY <1>2, StillWorking DEF Working, Mutating
<1>3. ServiceInvariant /\ ServiceInvariant' /\ [Next]_vars => [Finishes]_vars
  BY <1>1, <1>2, OwnStep
<1> QED
  BY <1>3, ServiceCorrect, PTL DEF Spec, BundlesFinish
=============================================================================
