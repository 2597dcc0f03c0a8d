------------------------ MODULE ExternalActionsProofs ------------------------
(***************************************************************************)
(* Proofs about ExternalActions, for every set of plans, approvals and     *)
(* work items: the ledger's inductive invariant, what follows from it, and *)
(* that the ledger implements GovernedEffect.                              *)
(***************************************************************************)
EXTENDS ExternalActions, SequenceTheorems, TLAPS

\* A plan none of whose own fields a step writes keeps the invariant when the
\* step leaves its approval's binding alone and does not reopen it.
LEMMA Frame ==
  ASSUME TypeOK, NEW p \in Plans, PlanInvariant(p),
         status'[p] = status[p], attempts'[p] = attempts[p],
         content'[p] = content[p], approvalOf'[p] = approvalOf[p],
         approvalOf[p] # NoApproval =>
           /\ approval'[approvalOf[p]].status # "absent"
           /\ approval'[approvalOf[p]].plan = approval[approvalOf[p]].plan
           /\ approval'[approvalOf[p]].item = approval[approvalOf[p]].item
           /\ approval'[approvalOf[p]].itemVersion = approval[approvalOf[p]].itemVersion
           /\ approval'[approvalOf[p]].status = "requested" =>
                approval[approvalOf[p]].status = "requested"
  PROVE  PlanInvariant(p)'
BY DEF PlanInvariant, HasContent, BoundToPlan, UntouchedWhileRequested, StatusAgrees,
       EarlierNotApplied, WithinBudget, ConfirmedIfComplete, LastAttempt, Requested

\* The ledger starts empty.
LEMMA InitInvariant == Init => LedgerInvariant
<1> SUFFICES ASSUME Init PROVE LedgerInvariant
  OBVIOUS
<1> USE DEF Init
<1>1. << >> \in Seq(Attempt) /\ Len(<< >>) = 0
  BY EmptySeq
<1>2. NoRow \in ApprovalRow
  BY DEF NoRow, ApprovalRow
<1>3. TypeOK
  BY <1>1, <1>2 DEF TypeOK, PlanStatus, Version
<1>4. ASSUME NEW p \in Plans PROVE PlanInvariant(p)
  BY <1>1 DEF PlanInvariant, HasContent, BoundToPlan, UntouchedWhileRequested,
              StatusAgrees, EarlierNotApplied, WithinBudget, ConfirmedIfComplete
<1> QED
  BY <1>3, <1>4 DEF LedgerInvariant

\* A created plan is fresh, and the plan it supersedes was not acting.
LEMMA CreatePlanPreserves ==
  ASSUME LedgerInvariant, NEW p \in Plans, NEW r \in PlanRequest, CreatePlan(p, r)
  PROVE  LedgerInvariant'
<1>1. ContentOf(r) \in PlanContent /\ (ContentOf(r).authority # "none" => ContentOf(r).item # NoItem)
  <2>1. NormalizeRecovery(r.recovery) \in 1..10
    <3>1. r.recovery \in Nat
      BY RecoveryAssumption DEF PlanRequest
    <3> QED
      BY <3>1 DEF NormalizeRecovery
  <2>2. r.supersedes # NoPlan => content[r.supersedes].version + 1 \in Version
    BY DEF CreatePlan, LedgerInvariant, PlanInvariant, HasContent, PlanRequest, Supersedable, PlanContent, Version
  <2>3. r.item # NoItem => itemVersion[r.item] \in Nat
    BY DEF LedgerInvariant, TypeOK, PlanRequest, Version
  <2> QED
    BY <2>1, <2>2, <2>3 DEF ContentOf, PlanContent, PlanRequest, LedgerInvariant, TypeOK, Version,
       CreatePlan, ValidRequest
<1>2. TypeOK'
  BY <1>1 DEF CreatePlan, authorityVars, contextVars, LedgerInvariant, TypeOK, PlanStatus
<1>3. PlanInvariant(p)'
  BY <1>1 DEF LedgerInvariant, TypeOK, PlanInvariant, HasContent, BoundToPlan,
     UntouchedWhileRequested, StatusAgrees, EarlierNotApplied, WithinBudget,
     ConfirmedIfComplete, LastAttempt, Requested, PlanRequest, Supersedable,
     CreatePlan, authorityVars, contextVars
<1>4. ASSUME NEW q \in Plans, q # p, q = r.supersedes PROVE PlanInvariant(q)'
  BY <1>4, SentinelAssumption DEF LedgerInvariant, TypeOK, PlanInvariant, HasContent, BoundToPlan,
     UntouchedWhileRequested, StatusAgrees, EarlierNotApplied, WithinBudget,
     ConfirmedIfComplete, LastAttempt, Requested, PlanRequest, Supersedable,
     CreatePlan, authorityVars, contextVars
<1>5. ASSUME NEW q \in Plans, q # p, q # r.supersedes PROVE PlanInvariant(q)'
  BY <1>5, Frame DEF LedgerInvariant, TypeOK, PlanInvariant, BoundToPlan,
     CreatePlan, authorityVars, contextVars
<1> QED
  BY <1>2, <1>3, <1>4, <1>5 DEF LedgerInvariant

-----------------------------------------------------------------------------
(***************************************************************************)
(* Steps that write one plan's status and attempts and nothing else.       *)
(***************************************************************************)
LEMMA StepOfOnePlan ==
  ASSUME LedgerInvariant, TypeOK', NEW p \in Plans, PlanInvariant(p)',
         UNCHANGED <<content, approvalOf, approval>>,
         \A q \in Plans \ {p} : status'[q] = status[q] /\ attempts'[q] = attempts[q]
  PROVE  LedgerInvariant'
<1>1. ASSUME NEW q \in Plans, q # p PROVE PlanInvariant(q)'
  BY <1>1, Frame DEF LedgerInvariant, PlanInvariant, BoundToPlan
<1> QED
  BY <1>1 DEF LedgerInvariant

\* SelfAuthorize, StartRefused, Block, MarkUncertain and Complete write only
\* the status.
LEMMA StatusStepPreserves ==
  ASSUME LedgerInvariant, NEW p \in Plans,
         \/ SelfAuthorize(p) \/ StartRefused(p) \/ Block(p)
         \/ MarkUncertain(p) \/ Complete(p)
  PROVE  LedgerInvariant'
<1> DEFINE s == status'[p]
<1>1. /\ UNCHANGED <<content, approvalOf, approval, attempts, contextVars>>
      /\ status' = [status EXCEPT ![p] = s]
      /\ s \in PlanStatus
  BY DEF SelfAuthorize, StartRefused, Block, MarkUncertain, Complete, authorityVars,
         PlanStatus, LedgerInvariant, TypeOK
<1>2. TypeOK'
  BY <1>1 DEF LedgerInvariant, TypeOK, contextVars
<1>3. PlanInvariant(p)'
  <2>1. \/ status[p] = "proposed" /\ s = "authorized" /\ content[p].authority = "none"
        \/ status[p] = "authorized" /\ s = "blocked"
        \/ status[p] \in {"reconciling", "uncertain"} /\ s = "uncertain"
        \/ status[p] = "verified" /\ s = "complete"
    BY DEF SelfAuthorize, StartRefused, Block, MarkUncertain, Complete, LedgerInvariant, TypeOK
  <2>2. approvalOf[p] # NoApproval /\ Requested(approvalOf[p]) => content[p].authority # "none"
    BY DEF LedgerInvariant, PlanInvariant, BoundToPlan
  <2> QED
    BY <1>1, <2>1, <2>2 DEF LedgerInvariant, TypeOK, PlanInvariant, HasContent, BoundToPlan,
       UntouchedWhileRequested, StatusAgrees, EarlierNotApplied, WithinBudget,
       ConfirmedIfComplete, LastAttempt, Requested
<1> QED
  BY <1>1, <1>2, <1>3, StepOfOnePlan DEF LedgerInvariant, TypeOK

LEMMA StartAttemptPreserves ==
  ASSUME LedgerInvariant, NEW p \in Plans, StartAttempt(p)
  PROVE  LedgerInvariant'
<1> DEFINE fresh == [status |-> "started", decided |-> "none"]
           old   == attempts[p]
<1>1. /\ status[p] = "authorized"
      /\ status' = [status EXCEPT ![p] = "executing"]
      /\ attempts' = [attempts EXCEPT ![p] = Append(old, fresh)]
      /\ UNCHANGED <<content, approvalOf, approval, contextVars>>
      /\ Len(old) < content[p].maxAttempts
  BY DEF StartAttempt, Preflight, authorityVars
<1>2. fresh \in Attempt /\ old \in Seq(Attempt)
  BY DEF Attempt, LedgerInvariant, TypeOK
<1>3. /\ Append(old, fresh) \in Seq(Attempt)
      /\ Append(old, fresh) # << >>
      /\ Len(old) \in Nat
      /\ Len(Append(old, fresh)) = Len(old) + 1
      /\ \A n \in 1..Len(old) : Append(old, fresh)[n] = old[n]
      /\ Append(old, fresh)[Len(old) + 1] = fresh
  BY <1>2, AppendProperties, LenProperties
<1>4. attempts'[p] = Append(old, fresh)
  BY <1>1 DEF LedgerInvariant, TypeOK
<1>5. TypeOK'
  BY <1>1, <1>3 DEF LedgerInvariant, TypeOK, PlanStatus, contextVars
<1>6. PlanInvariant(p)'
  <2>1. status'[p] = "executing" /\ LastAttempt(p)' = fresh
    BY <1>1, <1>3, <1>4 DEF LastAttempt, LedgerInvariant, TypeOK
  <2>2. HasContent(p)' /\ BoundToPlan(p)'
    BY <1>1, <2>1 DEF LedgerInvariant, PlanInvariant, HasContent, BoundToPlan
  <2>3. UntouchedWhileRequested(p)'
    BY <1>1 DEF LedgerInvariant, PlanInvariant, UntouchedWhileRequested, Requested
  <2>4. StatusAgrees(p)'
    BY <1>3, <1>4, <2>1 DEF LedgerInvariant, PlanInvariant, StatusAgrees
  <2>5. EarlierNotApplied(p)'
    <3>1. old # << >> => old[Len(old)].decided = "not_applied"
      BY <1>1 DEF LedgerInvariant, PlanInvariant, StatusAgrees, LastAttempt
    <3>2. ASSUME NEW n \in 1..Len(old) PROVE old[n].decided = "not_applied"
      BY <1>2, <1>3, <3>1, EmptySeq DEF LedgerInvariant, PlanInvariant, EarlierNotApplied
    <3> QED
      BY <1>3, <1>4, <3>2 DEF EarlierNotApplied
  <2>6. WithinBudget(p)' /\ ConfirmedIfComplete(p)'
    <3>1. content[p].maxAttempts \in 1..10
      BY <1>1 DEF LedgerInvariant, PlanInvariant, HasContent, PlanContent
    <3> QED
      BY <1>1, <1>3, <1>4, <2>1, <3>1 DEF WithinBudget, ConfirmedIfComplete
  <2> QED
    BY <2>2, <2>3, <2>4, <2>5, <2>6 DEF PlanInvariant
<1> QED
  BY <1>1, <1>5, <1>6, StepOfOnePlan DEF LedgerInvariant, TypeOK

\* Only the last attempt can be the one still started, or still undecided:
\* every earlier one was decided.
LEMMA OpenAttemptIsLast ==
  ASSUME LedgerInvariant, NEW p \in Plans, NEW n \in 1..Len(attempts[p]),
         attempts[p][n].decided = "none" \/ attempts[p][n].status = "started"
  PROVE  n = Len(attempts[p])
<1>1. attempts[p] \in Seq(Attempt)
  BY DEF LedgerInvariant, TypeOK
<1>2. Len(attempts[p]) \in Nat
  BY <1>1, LenProperties
<1>3. ASSUME n \in 1..Len(attempts[p]) - 1 PROVE FALSE
  <2>1. attempts[p][n].decided = "not_applied"
    BY <1>3 DEF LedgerInvariant, PlanInvariant, EarlierNotApplied
  <2>2. attempts[p][n].status \in {"succeeded", "uncertain"}
    BY <2>1 DEF LedgerInvariant, PlanInvariant, StatusAgrees
  <2> QED
    BY <2>1, <2>2
<1> QED
  BY <1>2, <1>3

\* What replacing the last attempt does to the plan's attempts.
LEMMA LastReplaced ==
  ASSUME TypeOK, NEW p \in Plans, attempts[p] # << >>, NEW x \in Attempt,
         attempts' = [attempts EXCEPT ![p] = [@ EXCEPT ![Len(attempts[p])] = x]]
  PROVE  /\ attempts' \in [Plans -> Seq(Attempt)]
         /\ attempts'[p] # << >>
         /\ Len(attempts'[p]) = Len(attempts[p])
         /\ Len(attempts[p]) \in Nat \ {0}
         /\ LastAttempt(p)' = x
         /\ \A k \in 1..Len(attempts[p]) - 1 : attempts'[p][k] = attempts[p][k]
         /\ \A q \in Plans \ {p} : attempts'[q] = attempts[q]
<1> DEFINE old == attempts[p]
           new == [old EXCEPT ![Len(old)] = x]
<1>1. old \in Seq(Attempt) /\ Len(old) \in Nat \ {0}
  BY EmptySeq DEF TypeOK
<1>2. /\ new \in Seq(Attempt)
      /\ Len(new) = Len(old)
      /\ \A k \in 1..Len(old) : new[k] = IF k = Len(old) THEN x ELSE old[k]
  BY <1>1, ExceptSeq
<1>3. new # << >>
  BY <1>1, <1>2, EmptySeq
<1>4. attempts' = [attempts EXCEPT ![p] = new] /\ attempts'[p] = new
  BY DEF TypeOK
<1> QED
  BY <1>1, <1>2, <1>3, <1>4 DEF TypeOK, LastAttempt

LEMMA FinishAttemptPreserves ==
  ASSUME LedgerInvariant, NEW p \in Plans, NEW n \in 1..Len(attempts[p]),
         NEW o \in Outcomes, FinishAttempt(p, n, o)
  PROVE  LedgerInvariant'
<1> DEFINE x == [status |-> o, decided |-> LastAttempt(p).decided]
<1>1. /\ status[p] = "executing"
      /\ status' = [status EXCEPT ![p] = StatusAfter(o)]
      /\ UNCHANGED <<content, approvalOf, approval, contextVars>>
  BY DEF FinishAttempt, authorityVars
<1>2. n = Len(attempts[p])
  BY OpenAttemptIsLast DEF FinishAttempt
<1>3. attempts[p] # << >> /\ LastAttempt(p) \in Attempt /\ LastAttempt(p).status = "started"
  BY <1>2, ElementOfSeq DEF FinishAttempt, LedgerInvariant, PlanInvariant, StatusAgrees,
     TypeOK, LastAttempt
<1>4. LastAttempt(p).decided = "none"
  BY <1>2, <1>3 DEF LedgerInvariant, PlanInvariant, StatusAgrees, LastAttempt
<1>5. x \in Attempt /\ x = [LastAttempt(p) EXCEPT !.status = o]
  BY <1>3 DEF Attempt, Outcomes
<1>6. attempts' = [attempts EXCEPT ![p] = [@ EXCEPT ![Len(attempts[p])] = x]]
  BY <1>2, <1>5 DEF FinishAttempt, LastAttempt
<1>7. StatusAfter(o) = IF o = "succeeded" THEN "reconciling"
                       ELSE IF o = "uncertain" THEN "uncertain" ELSE "failed"
  BY DEF StatusAfter, Outcomes
<1>8. TypeOK'
  BY <1>1, <1>3, <1>5, <1>6, <1>7, LastReplaced DEF LedgerInvariant, TypeOK, PlanStatus, contextVars
<1>9. PlanInvariant(p)'
  <2>1. /\ status'[p] = StatusAfter(o)
        /\ attempts'[p] # << >>
        /\ Len(attempts'[p]) = Len(attempts[p])
        /\ Len(attempts[p]) \in Nat \ {0}
        /\ LastAttempt(p)' = x
        /\ \A k \in 1..Len(attempts[p]) - 1 : attempts'[p][k] = attempts[p][k]
    BY <1>1, <1>3, <1>5, <1>6, LastReplaced DEF LedgerInvariant, TypeOK
  <2>2. HasContent(p)' /\ BoundToPlan(p)' /\ WithinBudget(p)' /\ ConfirmedIfComplete(p)'
    BY <1>1, <1>3, <1>7, <2>1 DEF LedgerInvariant, PlanInvariant, HasContent, BoundToPlan,
       WithinBudget, ConfirmedIfComplete
  <2>3. UntouchedWhileRequested(p)'
    BY <1>1 DEF LedgerInvariant, PlanInvariant, UntouchedWhileRequested, Requested
  <2>4. EarlierNotApplied(p)'
    BY <2>1 DEF LedgerInvariant, PlanInvariant, EarlierNotApplied
  <2>5. StatusAgrees(p)'
    <3>1. \A k \in 1..Len(attempts'[p]) :
            attempts'[p][k].decided # "none" => attempts'[p][k].status \in {"succeeded", "uncertain"}
      BY <1>4, <2>1 DEF LedgerInvariant, PlanInvariant, StatusAgrees, LastAttempt
    <3> QED
      BY <1>4, <1>7, <2>1, <3>1 DEF StatusAgrees, Outcomes
  <2> QED
    BY <2>2, <2>3, <2>4, <2>5 DEF PlanInvariant
<1> QED
  BY <1>1, <1>3, <1>5, <1>6, <1>8, <1>9, LastReplaced, StepOfOnePlan DEF LedgerInvariant, TypeOK

\* An inconclusive observation leaves the attempt undecided.
LEMMA ReconcileUncertainPreserves ==
  ASSUME LedgerInvariant, NEW p \in Plans, NEW n \in 1..Len(attempts[p]),
         Reconcile(p, n, "uncertain")
  PROVE  LedgerInvariant'
<1>1. /\ status[p] \in {"reconciling", "uncertain"}
      /\ status' = [status EXCEPT ![p] = "uncertain"]
      /\ UNCHANGED <<content, approvalOf, approval, attempts, contextVars>>
  BY DEF Reconcile, authorityVars, StatusReconciled
<1>2. TypeOK'
  BY <1>1 DEF LedgerInvariant, TypeOK, PlanStatus, contextVars
<1>3. status'[p] = "uncertain"
  BY <1>1 DEF LedgerInvariant, TypeOK
<1>4. HasContent(p)' /\ BoundToPlan(p)' /\ UntouchedWhileRequested(p)'
  BY <1>1, <1>3 DEF LedgerInvariant, PlanInvariant, HasContent, BoundToPlan,
     UntouchedWhileRequested, Requested
<1>5. EarlierNotApplied(p)' /\ WithinBudget(p)' /\ ConfirmedIfComplete(p)'
  BY <1>1, <1>3 DEF LedgerInvariant, PlanInvariant, EarlierNotApplied, WithinBudget,
     ConfirmedIfComplete
<1>6. StatusAgrees(p)'
  BY <1>1, <1>3 DEF LedgerInvariant, PlanInvariant, StatusAgrees, LastAttempt
<1>7. PlanInvariant(p)'
  BY <1>4, <1>5, <1>6 DEF PlanInvariant
<1> QED
  BY <1>1, <1>2, <1>7, StepOfOnePlan DEF LedgerInvariant, TypeOK

\* The last attempt of plan p decided as c, and the plan's status set to s.
Decides(p, n, c, s) ==
  /\ attempts[p][n].status \in {"succeeded", "uncertain"}
  /\ status[p] \in {"reconciling", "uncertain"}
  /\ attempts[p][n].decided = "none"
  /\ attempts' = [attempts EXCEPT ![p][n].decided = c]
  /\ status'[p] = s
  /\ UNCHANGED <<content, authorityVars, contextVars>>

OthersStay(p) == status' = [status EXCEPT ![p] = status'[p]]

\* An attempt of plan q confirmed and plan p completed in the same stretch, as the
\* source control service does: p is the plan just verified, or another that was.
ConfirmAndComplete(p, q, n) ==
  /\ Decides(q, n, "confirmed", IF p = q THEN "complete" ELSE "verified")
  /\ p = q \/ status[p] = "verified"
  /\ status' = [status EXCEPT ![q] = "verified", ![p] = "complete"]

\* A conclusive observation decides the last attempt, and agrees with the status.
LEMMA DecidesHolds ==
  ASSUME LedgerInvariant, NEW p \in Plans, NEW n \in 1..Len(attempts[p]),
         NEW c \in Classifications \ {"uncertain"}, NEW s, Decides(p, n, c, s),
         s = StatusReconciled(c) \/ (c = "confirmed" /\ s = "complete"),
         status' \in [Plans -> PlanStatus \cup {"absent"}]
  PROVE  /\ TypeOK' /\ PlanInvariant(p)'
         /\ \A q \in Plans \ {p} : attempts'[q] = attempts[q]
<1> DEFINE x == [status |-> LastAttempt(p).status, decided |-> c]
<1>1. /\ status[p] \in {"reconciling", "uncertain"}
      /\ status'[p] = s
      /\ UNCHANGED <<content, approvalOf, approval, contextVars>>
  BY DEF Decides, authorityVars
<1>2. n = Len(attempts[p])
  BY OpenAttemptIsLast DEF Decides
<1>3. /\ attempts[p] # << >>
      /\ LastAttempt(p) \in Attempt
      /\ LastAttempt(p).status \in {"succeeded", "uncertain"}
  BY <1>1, <1>2, ElementOfSeq DEF Decides, LedgerInvariant, PlanInvariant, StatusAgrees,
     TypeOK, LastAttempt
<1>4. x \in Attempt /\ x = [LastAttempt(p) EXCEPT !.decided = c]
  BY <1>3 DEF Attempt, Classifications
<1>5. attempts' = [attempts EXCEPT ![p] = [@ EXCEPT ![Len(attempts[p])] = x]]
  BY <1>2, <1>4 DEF Decides, LastAttempt
<1>6. \/ c = "confirmed" /\ s \in {"verified", "complete"}
      \/ c = "not_applied" /\ s = "authorized"
      \/ c = "drifted" /\ s = "blocked"
  BY DEF StatusReconciled, Classifications
<1>7. TypeOK'
  BY <1>1, <1>3, <1>4, <1>5, LastReplaced DEF LedgerInvariant, TypeOK, contextVars
<1>8. PlanInvariant(p)'
  <2>1. /\ status'[p] = s
        /\ attempts'[p] # << >>
        /\ Len(attempts'[p]) = Len(attempts[p])
        /\ Len(attempts[p]) \in Nat \ {0}
        /\ LastAttempt(p)' = x
        /\ \A k \in 1..Len(attempts[p]) - 1 : attempts'[p][k] = attempts[p][k]
    BY <1>1, <1>3, <1>4, <1>5, LastReplaced DEF LedgerInvariant, TypeOK
  <2>2. HasContent(p)' /\ BoundToPlan(p)' /\ WithinBudget(p)' /\ ConfirmedIfComplete(p)'
    BY <1>1, <1>3, <1>6, <2>1 DEF LedgerInvariant, PlanInvariant, HasContent, BoundToPlan,
       WithinBudget, ConfirmedIfComplete
  <2>3. UntouchedWhileRequested(p)'
    BY <1>1 DEF LedgerInvariant, PlanInvariant, UntouchedWhileRequested, Requested
  <2>4. EarlierNotApplied(p)'
    BY <2>1 DEF LedgerInvariant, PlanInvariant, EarlierNotApplied
  <2>5. StatusAgrees(p)'
    <3>1. \A k \in 1..Len(attempts'[p]) :
            attempts'[p][k].decided # "none" => attempts'[p][k].status \in {"succeeded", "uncertain"}
      BY <1>3, <2>1 DEF LedgerInvariant, PlanInvariant, StatusAgrees, LastAttempt
    <3> QED
      BY <1>3, <1>6, <2>1, <3>1 DEF StatusAgrees, Classifications
  <2> QED
    BY <2>2, <2>3, <2>4, <2>5 DEF PlanInvariant
<1> QED
  BY <1>3, <1>4, <1>5, <1>7, <1>8, LastReplaced DEF LedgerInvariant

LEMMA DecidesPreserves ==
  ASSUME LedgerInvariant, NEW p \in Plans, NEW n \in 1..Len(attempts[p]),
         NEW c \in Classifications \ {"uncertain"}, NEW s, Decides(p, n, c, s), OthersStay(p),
         s = StatusReconciled(c) \/ (c = "confirmed" /\ s = "complete")
  PROVE  LedgerInvariant'
<1>1. status' \in [Plans -> PlanStatus \cup {"absent"}]
  <2>1. s \in PlanStatus
    BY DEF StatusReconciled, Classifications, PlanStatus
  <2> QED
    BY <2>1 DEF Decides, OthersStay, LedgerInvariant, TypeOK
<1>2. /\ TypeOK' /\ PlanInvariant(p)'
      /\ \A q \in Plans \ {p} : attempts'[q] = attempts[q]
  BY <1>1, DecidesHolds
<1>3. \A q \in Plans \ {p} : status'[q] = status[q]
  BY DEF OthersStay, LedgerInvariant, TypeOK
<1>4. UNCHANGED <<content, approvalOf, approval>>
  BY DEF Decides, authorityVars
<1> QED
  BY <1>2, <1>3, <1>4, StepOfOnePlan

LEMMA ReconcileDecidedPreserves ==
  ASSUME LedgerInvariant, NEW p \in Plans, NEW n \in 1..Len(attempts[p]),
         NEW c \in Classifications \ {"uncertain"}, Reconcile(p, n, c)
  PROVE  LedgerInvariant'
<1>1. Decides(p, n, c, StatusReconciled(c)) /\ OthersStay(p)
  BY DEF Reconcile, Decides, OthersStay, LedgerInvariant, TypeOK
<1> QED
  BY <1>1, DecidesPreserves

\* Plan p, verified before, is completed while an attempt of q is confirmed.
LEMMA ConfirmAndCompletePreserves ==
  ASSUME LedgerInvariant, NEW p \in Plans, NEW q \in Plans, NEW n \in 1..Len(attempts[q]),
         ConfirmAndComplete(p, q, n)
  PROVE  LedgerInvariant'
<1>1. "confirmed" \in Classifications \ {"uncertain"} /\ StatusReconciled("confirmed") = "verified"
  BY DEF Classifications, StatusReconciled
<1>2. CASE p = q
  <2>1. Decides(q, n, "confirmed", "complete") /\ OthersStay(q)
    BY <1>2 DEF ConfirmAndComplete, OthersStay, LedgerInvariant, TypeOK
  <2> QED
    BY <1>1, <2>1, DecidesPreserves
<1>3. CASE p # q
  <2>1. Decides(q, n, "confirmed", "verified")
    BY <1>3 DEF ConfirmAndComplete
  <2>2. /\ status' \in [Plans -> PlanStatus \cup {"absent"}]
        /\ status[p] = "verified" /\ status'[p] = "complete"
        /\ \A r \in Plans \ {p, q} : status'[r] = status[r]
    BY <1>3 DEF ConfirmAndComplete, LedgerInvariant, TypeOK, PlanStatus
  <2>3. /\ TypeOK' /\ PlanInvariant(q)'
        /\ \A r \in Plans \ {q} : attempts'[r] = attempts[r]
    BY <1>1, <2>1, <2>2, DecidesHolds
  <2>4. UNCHANGED <<content, approvalOf, approval>>
    BY <2>1 DEF Decides, authorityVars
  <2>5. PlanInvariant(p)'
    BY <1>3, <2>2, <2>3, <2>4 DEF LedgerInvariant, PlanInvariant, HasContent, BoundToPlan,
       UntouchedWhileRequested, StatusAgrees, EarlierNotApplied, WithinBudget,
       ConfirmedIfComplete, LastAttempt, Requested
  <2>6. ASSUME NEW r \in Plans, r \notin {p, q} PROVE PlanInvariant(r)'
    BY <2>2, <2>3, <2>4, <2>6, Frame DEF LedgerInvariant, PlanInvariant, BoundToPlan
  <2> QED
    BY <2>3, <2>5, <2>6 DEF LedgerInvariant
<1> QED
  BY <1>2, <1>3

-----------------------------------------------------------------------------
(***************************************************************************)
(* Steps that write approvals.                                             *)
(***************************************************************************)

\* An approval named by two plans is named by one.
LEMMA ApprovalHasOnePlan ==
  ASSUME LedgerInvariant, NEW p \in Plans, NEW q \in Plans,
         approvalOf[p] # NoApproval, approvalOf[p] = approvalOf[q]
  PROVE  p = q
BY DEF LedgerInvariant, PlanInvariant, BoundToPlan

LEMMA RequestAuthorityPreserves ==
  ASSUME LedgerInvariant, NEW p \in Plans, NEW a \in Approvals,
         InsertApproval(p, a),
         approvalOf' = approvalOf \/ approvalOf' = [approvalOf EXCEPT ![p] = a]
  PROVE  LedgerInvariant'
<1> DEFINE row == [status |-> "requested", plan |-> p, item |-> content[p].item,
                   itemVersion |-> content[p].itemVersion]
<1>1. /\ status[p] = "proposed"
      /\ content[p].authority # "none"
      /\ approvalOf[p] = NoApproval
      /\ approval[a].status = "absent"
      /\ approval' = [approval EXCEPT ![a] = row]
      /\ UNCHANGED <<content, status, attempts, contextVars>>
  BY DEF InsertApproval
<1>2. row \in ApprovalRow
  BY <1>1 DEF LedgerInvariant, PlanInvariant, HasContent, PlanContent, ApprovalRow
<1>3. TypeOK'
  BY <1>1, <1>2 DEF LedgerInvariant, TypeOK, contextVars
<1>4. ASSUME NEW q \in Plans, q # p PROVE PlanInvariant(q)'
  <2>1. approvalOf'[q] = approvalOf[q] /\ approvalOf[q] # a
    BY <1>1, <1>4, SentinelAssumption DEF LedgerInvariant, TypeOK, PlanInvariant, BoundToPlan
  <2>2. approvalOf[q] # NoApproval => approval'[approvalOf[q]] = approval[approvalOf[q]]
    BY <1>1, <2>1 DEF LedgerInvariant, TypeOK
  <2> QED
    BY <1>1, <2>1, <2>2, Frame DEF LedgerInvariant, PlanInvariant, BoundToPlan
<1>5. PlanInvariant(p)'
  <2>1. HasContent(p)' /\ StatusAgrees(p)' /\ EarlierNotApplied(p)' /\ WithinBudget(p)'
        /\ ConfirmedIfComplete(p)'
    BY <1>1 DEF LedgerInvariant, PlanInvariant, HasContent, StatusAgrees, EarlierNotApplied,
       WithinBudget, ConfirmedIfComplete, LastAttempt
  <2>2. attempts[p] = << >>
    BY <1>1 DEF LedgerInvariant, PlanInvariant, StatusAgrees
  <2>3. approvalOf'[p] # NoApproval => approvalOf'[p] = a /\ approval'[a] = row
    BY <1>1 DEF LedgerInvariant, TypeOK
  <2>4. BoundToPlan(p)' /\ UntouchedWhileRequested(p)'
    BY <1>1, <2>2, <2>3 DEF BoundToPlan, UntouchedWhileRequested
  <2> QED
    BY <2>1, <2>4 DEF PlanInvariant
<1> QED
  BY <1>3, <1>4, <1>5 DEF LedgerInvariant

\* resolveAuthority writes the status of a plan that has never acted.
LEMMA ResolveAuthorityPreserves ==
  ASSUME LedgerInvariant, NEW p \in Plans, ApproveAuthority(p) \/ RejectAuthority(p)
  PROVE  LedgerInvariant'
<1> DEFINE a == approvalOf[p]
           d == approval'[a].status
<1>1. /\ a # NoApproval /\ a \in Approvals /\ Requested(a)
      /\ d \in {"approved", "rejected"}
      /\ approval' = [approval EXCEPT ![a] = [@ EXCEPT !.status = d]]
      /\ UNCHANGED <<content, approvalOf, attempts, contextVars>>
  BY DEF ApproveAuthority, RejectAuthority, LedgerInvariant, TypeOK, ApprovalRow
<1>2. status' = status \/ \E s \in {"authorized", "rejected"} : status' = [status EXCEPT ![p] = s]
  BY DEF ApproveAuthority, RejectAuthority
<1>3. TypeOK'
  <2>1. approval' \in [Approvals -> ApprovalRow]
    <3>1. approval[a] \in ApprovalRow
      BY <1>1 DEF LedgerInvariant, TypeOK
    <3>2. [approval[a] EXCEPT !.status = d] \in ApprovalRow
      BY <1>1, <3>1 DEF ApprovalRow
    <3> QED
      BY <1>1, <3>2 DEF LedgerInvariant, TypeOK
  <2>2. status' \in [Plans -> PlanStatus \cup {"absent"}]
    BY <1>2 DEF LedgerInvariant, TypeOK, PlanStatus
  <2> QED
    BY <1>1, <2>1, <2>2 DEF LedgerInvariant, TypeOK, contextVars
<1>4. status[p] \in {"proposed", "superseded"} /\ attempts[p] = << >>
  BY <1>1 DEF LedgerInvariant, PlanInvariant, UntouchedWhileRequested
<1>5. PlanInvariant(p)'
  <2>1. status'[p] \in {status[p], "authorized", "rejected"}
    BY <1>2 DEF LedgerInvariant, TypeOK
  <2>2. /\ approval'[a].status = d
        /\ approval'[a].plan = approval[a].plan
        /\ approval'[a].item = approval[a].item
        /\ approval'[a].itemVersion = approval[a].itemVersion
    BY <1>1 DEF LedgerInvariant, TypeOK, ApprovalRow
  <2>3. HasContent(p)' /\ BoundToPlan(p)' /\ UntouchedWhileRequested(p)'
    BY <1>1, <1>4, <2>1, <2>2 DEF LedgerInvariant, PlanInvariant, HasContent, BoundToPlan,
       UntouchedWhileRequested, Requested
  <2>4. 1..Len(attempts[p]) = {} /\ 1..Len(attempts[p]) - 1 = {}
    BY <1>4, EmptySeq
  <2>5. StatusAgrees(p)' /\ EarlierNotApplied(p)' /\ WithinBudget(p)' /\ ConfirmedIfComplete(p)'
    BY <1>1, <1>4, <2>1, <2>4 DEF StatusAgrees, EarlierNotApplied, WithinBudget, ConfirmedIfComplete
  <2> QED
    BY <2>3, <2>5 DEF PlanInvariant
<1>6. ASSUME NEW q \in Plans, q # p PROVE PlanInvariant(q)'
  <2>1. status'[q] = status[q]
    BY <1>2, <1>6 DEF LedgerInvariant, TypeOK
  <2>2. approvalOf[q] # NoApproval => approval'[approvalOf[q]] = approval[approvalOf[q]]
    BY <1>1, <1>6, ApprovalHasOnePlan DEF LedgerInvariant, TypeOK
  <2> QED
    BY <1>1, <1>6, <2>1, <2>2, Frame DEF LedgerInvariant, PlanInvariant, BoundToPlan
<1> QED
  BY <1>3, <1>5, <1>6 DEF LedgerInvariant

\* The general approval endpoint, and a revision, close approvals whose plans
\* they do not look at.
LEMMA CloseApprovalsPreserves ==
  ASSUME LedgerInvariant, TypeOK', UNCHANGED <<content, status, approvalOf, attempts>>,
         \A a \in Approvals :
           approval'[a] = approval[a] \/
             /\ approval'[a].status \in {"approved", "rejected", "superseded"}
             /\ approval'[a].plan = approval[a].plan
             /\ approval'[a].item = approval[a].item
             /\ approval'[a].itemVersion = approval[a].itemVersion
  PROVE  LedgerInvariant'
<1>1. ASSUME NEW q \in Plans PROVE PlanInvariant(q)'
  <2>1. approvalOf[q] # NoApproval => approvalOf[q] \in Approvals
    BY DEF LedgerInvariant, TypeOK
  <2> QED
    BY <2>1, Frame DEF LedgerInvariant, PlanInvariant, BoundToPlan
<1> QED
  BY <1>1 DEF LedgerInvariant

LEMMA ResolveApprovalPreserves ==
  ASSUME LedgerInvariant, NEW a \in Approvals, NEW d \in Decisions, ResolveApproval(a, d)
  PROVE  LedgerInvariant'
<1>1. approval' = [approval EXCEPT ![a] = [@ EXCEPT !.status = d]]
  BY DEF ResolveApproval
<1>2. approval' \in [Approvals -> ApprovalRow]
  <2>1. approval[a] \in ApprovalRow
    BY DEF LedgerInvariant, TypeOK
  <2>2. [approval[a] EXCEPT !.status = d] \in ApprovalRow
    BY <2>1 DEF ApprovalRow, Decisions
  <2> QED
    BY <1>1, <2>2 DEF LedgerInvariant, TypeOK
<1>3. TypeOK'
  BY <1>2 DEF ResolveApproval, LedgerInvariant, TypeOK, contextVars
<1>4. ASSUME NEW b \in Approvals
      PROVE  \/ approval'[b] = approval[b]
             \/ /\ approval'[b].status \in {"approved", "rejected", "superseded"}
                /\ approval'[b].plan = approval[b].plan
                /\ approval'[b].item = approval[b].item
                /\ approval'[b].itemVersion = approval[b].itemVersion
  BY <1>1 DEF LedgerInvariant, TypeOK, ApprovalRow, Decisions
<1> QED
  BY <1>3, <1>4, CloseApprovalsPreserves DEF ResolveApproval

LEMMA ReviseProjectGoalPreserves ==
  ASSUME LedgerInvariant, NEW affected \in SUBSET WorkItems, NEW closed \in SUBSET WorkItems,
         ReviseProjectGoal(affected, closed)
  PROVE  LedgerInvariant'
<1>1. ASSUME NEW b \in Approvals
      PROVE  \/ approval'[b] = approval[b]
             \/ /\ approval'[b].status = "superseded"
                /\ approval'[b].plan = approval[b].plan
                /\ approval'[b].item = approval[b].item
                /\ approval'[b].itemVersion = approval[b].itemVersion
  BY DEF ReviseProjectGoal, LedgerInvariant, TypeOK, ApprovalRow
<1>2. approval' \in [Approvals -> ApprovalRow]
  <2>1. ASSUME NEW b \in Approvals
        PROVE  [approval[b] EXCEPT !.status = "superseded"] \in ApprovalRow
    BY DEF LedgerInvariant, TypeOK, ApprovalRow
  <2> QED
    BY <2>1 DEF ReviseProjectGoal, LedgerInvariant, TypeOK
<1>3. projectVersion' \in Version /\ itemVersion' \in [WorkItems -> Version]
  <2>1. /\ projectVersion \in Version /\ itemVersion \in [WorkItems -> Version]
        /\ \A v \in Version : v + 1 \in Version
    BY DEF LedgerInvariant, TypeOK, Version
  <2> QED
    BY <2>1 DEF ReviseProjectGoal
<1>4. TypeOK'
  BY <1>2, <1>3 DEF ReviseProjectGoal, LedgerInvariant, TypeOK
<1> QED
  BY <1>1, <1>4, CloseApprovalsPreserves DEF ReviseProjectGoal

\* The other changes of context touch nothing the invariant speaks of.
LEMMA ContextPreserves ==
  ASSUME LedgerInvariant,
         \/ AcceptBrief
         \/ \E w \in WorkItems : TransitionWorkItem(w)
         \/ ExhaustEnvelope
         \/ \E p \in Plans : Expire(p)
  PROVE  LedgerInvariant'
<1>1. UNCHANGED <<content, status, approvalOf, approval, attempts>>
  BY DEF AcceptBrief, TransitionWorkItem, ExhaustEnvelope, Expire, authorityVars
<1>2. projectVersion' \in Version /\ itemVersion' \in [WorkItems -> Version]
  <2>1. /\ projectVersion \in Version /\ itemVersion \in [WorkItems -> Version]
        /\ \A v \in Version : v + 1 \in Version
    BY DEF LedgerInvariant, TypeOK, Version
  <2>2. projectVersion' \in {projectVersion, projectVersion + 1}
    BY DEF AcceptBrief, TransitionWorkItem, ExhaustEnvelope, Expire
  <2>3. \/ itemVersion' = itemVersion
        \/ \E w \in WorkItems : itemVersion' = [itemVersion EXCEPT ![w] = itemVersion[w] + 1]
    BY DEF AcceptBrief, TransitionWorkItem, ExhaustEnvelope, Expire
  <2> QED
    BY <2>1, <2>2, <2>3
<1>3. expired' \in SUBSET Plans /\ envelopeOpen' \in BOOLEAN
  BY DEF AcceptBrief, TransitionWorkItem, ExhaustEnvelope, Expire, LedgerInvariant, TypeOK
<1>4. TypeOK'
  BY <1>1, <1>2, <1>3 DEF LedgerInvariant, TypeOK
<1> QED
  BY <1>1, <1>4, CloseApprovalsPreserves

LEMMA NextInvariant == LedgerInvariant /\ [Next]_vars => LedgerInvariant'
<1> SUFFICES ASSUME LedgerInvariant, [Next]_vars PROVE LedgerInvariant'
  OBVIOUS
<1>1. CASE \E p \in Plans, r \in PlanRequest : CreatePlan(p, r)
  BY <1>1, CreatePlanPreserves
<1>2. CASE \E p \in Plans : AuthorityStep(p)
  <2> PICK p \in Plans : AuthorityStep(p)
    BY <1>2
  <2>1. CASE SelfAuthorize(p)
    BY <2>1, StatusStepPreserves
  <2>2. CASE \E a \in Approvals : RequestAuthority(p, a) \/ RequestAuthorityInterrupted(p, a)
    BY <2>2, RequestAuthorityPreserves DEF RequestAuthority, RequestAuthorityInterrupted
  <2>3. CASE ApproveAuthority(p) \/ RejectAuthority(p)
    BY <2>3, ResolveAuthorityPreserves
  <2> QED
    BY <2>1, <2>2, <2>3 DEF AuthorityStep
<1>3. CASE \E a \in Approvals, d \in Decisions : ResolveApproval(a, d)
  BY <1>3, ResolveApprovalPreserves
<1>4. CASE \E p \in Plans : EffectStep(p)
  <2> PICK p \in Plans : EffectStep(p)
    BY <1>4
  <2>1. CASE StartAttempt(p)
    BY <2>1, StartAttemptPreserves
  <2>2. CASE \E n \in 1..Len(attempts[p]), o \in Outcomes : FinishAttempt(p, n, o)
    BY <2>2, FinishAttemptPreserves
  <2>3. CASE \E n \in 1..Len(attempts[p]), c \in Classifications : Reconcile(p, n, c)
    <3> PICK n \in 1..Len(attempts[p]), c \in Classifications : Reconcile(p, n, c)
      BY <2>3
    <3>1. CASE c = "uncertain"
      BY <3>1, ReconcileUncertainPreserves
    <3>2. CASE c # "uncertain"
      BY <3>2, ReconcileDecidedPreserves
    <3> QED
      BY <3>1, <3>2
  <2>4. CASE StartRefused(p) \/ Complete(p) \/ Block(p) \/ MarkUncertain(p)
    BY <2>4, StatusStepPreserves
  <2> QED
    BY <2>1, <2>2, <2>3, <2>4 DEF EffectStep
<1>5. CASE ContextStep
  BY <1>5, ReviseProjectGoalPreserves, ContextPreserves DEF ContextStep
<1>6. CASE UNCHANGED vars
  <2>1. UNCHANGED <<content, status, approvalOf, approval, attempts>> /\ TypeOK'
    BY <1>6 DEF vars, LedgerInvariant, TypeOK
  <2> QED
    BY <2>1, CloseApprovalsPreserves
<1> QED
  BY <1>1, <1>2, <1>3, <1>4, <1>5, <1>6 DEF Next

-----------------------------------------------------------------------------
(***************************************************************************)
(* The theorems.                                                           *)
(***************************************************************************)

\* The plans, approvals and attempts of the ledger always agree, whatever the
\* plans, the callers and the order of their calls (phase40-external-actions.js).
THEOREM LedgerCorrect == Spec => []LedgerInvariant
<1>1. Init => LedgerInvariant
  BY InitInvariant
<1>2. LedgerInvariant /\ [Next]_vars => LedgerInvariant'
  BY NextInvariant
<1> QED
  BY <1>1, <1>2, PTL DEF Spec

\* Every variable keeps its type.
THEOREM TypeCorrect == Spec => []TypeOK
<1>1. LedgerInvariant => TypeOK
  BY DEF LedgerInvariant
<1> QED
  BY <1>1, LedgerCorrect, PTL

\* No attempt is repeated before the one before it was observed not to have
\* been applied (startAttempt, finishAttempt and reconcile together).
THEOREM RetriesAreReconciled == Spec => []ReconciledBeforeRetry
<1>1. LedgerInvariant => ReconciledBeforeRetry
  BY DEF LedgerInvariant, PlanInvariant, ReconciledBeforeRetry
<1> QED
  BY <1>1, LedgerCorrect, PTL

\* A plan never makes more attempts than its recovery policy allows.
THEOREM AttemptsAreBounded == Spec => []AttemptBudget
<1>1. LedgerInvariant => AttemptBudget
  BY DEF LedgerInvariant, PlanInvariant, AttemptBudget
<1> QED
  BY <1>1, LedgerCorrect, PTL

\* A plan is complete only on a confirmed observation of its last attempt.
THEOREM CompletionsAreConfirmed == Spec => []CompletionIsConfirmed
<1>1. LedgerInvariant => CompletionIsConfirmed
  BY DEF LedgerInvariant, PlanInvariant, CompletionIsConfirmed
<1> QED
  BY <1>1, LedgerCorrect, PTL

-----------------------------------------------------------------------------
(***************************************************************************)
(* Authority at the moment of use.                                         *)
(***************************************************************************)

\* Only a start makes a plan's attempts longer.
LEMMA OnlyStartsGrow ==
  ASSUME LedgerInvariant, [Next]_vars, NEW p \in Plans,
         Len(attempts'[p]) > Len(attempts[p])
  PROVE  StartAttempt(p)
<1>1. Len(attempts[p]) \in Nat /\ attempts[p] \in Seq(Attempt)
  BY LenProperties DEF LedgerInvariant, TypeOK
<1>2. attempts' # attempts
  BY <1>1
<1>3. PICK q \in Plans :
        \/ StartAttempt(q)
        \/ \E n \in 1..Len(attempts[q]), o \in Outcomes : FinishAttempt(q, n, o)
        \/ \E n \in 1..Len(attempts[q]), c \in Classifications : Reconcile(q, n, c)
  <2>1. CASE \E q \in Plans, r \in PlanRequest : CreatePlan(q, r)
    BY <1>2, <2>1 DEF CreatePlan
  <2>2. CASE \E q \in Plans : AuthorityStep(q)
    BY <1>2, <2>2 DEF AuthorityStep, SelfAuthorize, RequestAuthority, RequestAuthorityInterrupted,
       InsertApproval, ApproveAuthority, RejectAuthority
  <2>3. CASE \E a \in Approvals, d \in Decisions : ResolveApproval(a, d)
    BY <1>2, <2>3 DEF ResolveApproval
  <2>4. CASE \E q \in Plans : EffectStep(q)
    BY <1>2, <2>4 DEF EffectStep, StartRefused, Complete, Block, MarkUncertain
  <2>5. CASE ContextStep
    BY <1>2, <2>5 DEF ContextStep, AcceptBrief, ReviseProjectGoal, TransitionWorkItem,
       ExhaustEnvelope, Expire
  <2>6. CASE UNCHANGED vars
    BY <1>2, <2>6 DEF vars
  <2> QED
    BY <2>1, <2>2, <2>3, <2>4, <2>5, <2>6 DEF Next
<1>4. ASSUME NEW n \in 1..Len(attempts[q]), NEW x, x \in Attempt,
             attempts' = [attempts EXCEPT ![q] = [@ EXCEPT ![n] = x]]
      PROVE  FALSE
  <2>1. Len([attempts[q] EXCEPT ![n] = x]) = Len(attempts[q])
    BY <1>4, ExceptSeq DEF LedgerInvariant, TypeOK
  <2>2. Len(attempts'[p]) = Len(attempts[p])
    BY <1>4, <2>1 DEF LedgerInvariant, TypeOK
  <2> QED
    BY <1>1, <2>2
<1>5. ASSUME NEW n \in 1..Len(attempts[q]) PROVE attempts[q][n] \in Attempt
  BY <1>5, ElementOfSeq DEF LedgerInvariant, TypeOK
<1>6. ASSUME NEW n \in 1..Len(attempts[q]), NEW o \in Outcomes, FinishAttempt(q, n, o)
      PROVE  FALSE
  <2>1. [attempts[q][n] EXCEPT !.status = o] \in Attempt
    BY <1>5, <1>6 DEF Attempt, Outcomes
  <2> QED
    BY <1>4, <1>6, <2>1 DEF FinishAttempt
<1>7. ASSUME NEW n \in 1..Len(attempts[q]), NEW c \in Classifications, Reconcile(q, n, c)
      PROVE  FALSE
  <2>1. c # "uncertain" => [attempts[q][n] EXCEPT !.decided = c] \in Attempt
    BY <1>5, <1>7 DEF Attempt, Classifications
  <2> QED
    BY <1>2, <1>4, <1>7, <2>1 DEF Reconcile
<1>8. StartAttempt(q)
  BY <1>3, <1>6, <1>7
<1>9. q = p
  BY <1>1, <1>8 DEF StartAttempt, LedgerInvariant, TypeOK
<1> QED
  BY <1>8, <1>9

\* A step that makes a plan's attempts longer is authorized at that moment.
LEMMA StartsAreAuthorized ==
  ASSUME LedgerInvariant, [Next]_vars, NEW p \in Plans, Len(attempts'[p]) > Len(attempts[p])
  PROVE  AuthorizedNow(p)
<1>1. status[p] = "authorized" /\ Fresh(p) /\ content[p] \in PlanContent
  BY OnlyStartsGrow DEF StartAttempt, Preflight, LedgerInvariant, PlanInvariant, HasContent
<1>2. CASE content[p].authority = "none"
  BY <1>1, <1>2 DEF AuthorizedNow, Fresh, ContextCurrent
<1>3. CASE content[p].authority # "none"
  <2>1. approvalOf[p] # NoApproval /\ approval[approvalOf[p]].status = "approved"
    BY <1>1, <1>3 DEF Fresh, ApprovedFor
  <2>2. /\ approvalOf[p] \in Approvals
        /\ approval[approvalOf[p]] \in ApprovalRow
        /\ approval[approvalOf[p]].plan = p
        /\ approval[approvalOf[p]].item = content[p].item
        /\ approval[approvalOf[p]].itemVersion = content[p].itemVersion
    BY <2>1 DEF LedgerInvariant, TypeOK, PlanInvariant, BoundToPlan
  <2>3. content[p].itemVersion = itemVersion[content[p].item]
    BY <1>1, <1>3, <2>2 DEF LedgerInvariant, PlanInvariant, HasContent, Fresh, ContextCurrent
  <2>4. approval[approvalOf[p]] =
          [status |-> "approved", plan |-> p, item |-> content[p].item,
           itemVersion |-> itemVersion[content[p].item]]
    BY <2>1, <2>2, <2>3 DEF ApprovalRow
  <2> QED
    BY <1>1, <2>2, <2>4 DEF AuthorizedNow, Fresh, ContextCurrent, SpendAvailable
<1> QED
  BY <1>2, <1>3

\* An attempt starts only under an approval granted for exactly this plan and
\* for the version its work item has at that moment, under the plan's project
\* version, before it expires and with its spend open.
THEOREM AuthorityHoldsAtUse == Spec => UseTimeAuthority
<1>1. LedgerInvariant /\ [Next]_vars =>
        [\A p \in Plans : Len(attempts'[p]) > Len(attempts[p]) => AuthorizedNow(p)]_vars
  BY StartsAreAuthorized
<1> QED
  BY <1>1, LedgerCorrect, PTL DEF Spec, UseTimeAuthority

-----------------------------------------------------------------------------
(***************************************************************************)
(* The ledger implements GovernedEffect.                                   *)
(***************************************************************************)

GivesUp(p) == Phase(p)' = "settled" /\ Phase(p) # "acting"

\* Steps that leave the attempts alone and give some effects up, or none.
LEMMA GivenUp ==
  ASSUME UNCHANGED attempts,
         \A p \in Plans : Phase(p)' = Phase(p) \/ GivesUp(p)
  PROVE  Effect!Next
<1> DEFINE given == {p \in Plans : Phase(p)' # Phase(p)}
<1>1. \A p \in given : [q \in Plans |-> Phase(q)][p] # "acting"
  BY DEF GivesUp
<1>2. [p \in Plans |-> Phase(p)'] =
        [p \in Plans |-> IF p \in given THEN "settled" ELSE [q \in Plans |-> Phase(q)][p]]
  BY DEF GivesUp
<1>3. Effect!Abandon(given)
  BY <1>1, <1>2 DEF Effect!Abandon
<1> QED
  BY <1>3 DEF Effect!Next

\* Steps of one plan that change neither approvals nor another plan's status.
LEMMA PhaseOfOthers ==
  ASSUME NEW p \in Plans, NEW q \in Plans, q # p, status'[q] = status[q],
         UNCHANGED <<approvalOf, approval>>
  PROVE  Phase(q)' = Phase(q)
BY DEF Phase, Requested

LEMMA CreatePlanImplements ==
  ASSUME LedgerInvariant, NEW p \in Plans, NEW r \in PlanRequest, CreatePlan(p, r)
  PROVE  Effect!Next
<1>1. /\ UNCHANGED <<attempts, approvalOf, approval>>
      /\ \A q \in Plans : status'[q] = IF q = p THEN "proposed"
                                       ELSE IF q = r.supersedes THEN "superseded"
                                       ELSE status[q]
      /\ status[p] = "absent"
      /\ r.supersedes # NoPlan => status[r.supersedes] \notin {"absent", "executing", "reconciling"}
  BY DEF CreatePlan, authorityVars, Supersedable
<1>2. ASSUME NEW q \in Plans
      PROVE  Phase(q)' = Phase(q) \/ GivesUp(q)
  <2>1. CASE q = p
    BY <1>1, <2>1 DEF Phase, GivesUp
  <2>2. CASE q # p /\ q = r.supersedes
    <3>1. status[q] \notin {"absent", "executing", "reconciling"} /\ status'[q] = "superseded"
      BY <1>1, <2>2, SentinelAssumption
    <3>2. approvalOf[q] # NoApproval /\ Requested(approvalOf[q]) => status[q] \in {"proposed", "superseded"}
      BY DEF LedgerInvariant, PlanInvariant, UntouchedWhileRequested
    <3> QED
      BY <1>1, <3>1, <3>2 DEF Phase, GivesUp, Requested, LedgerInvariant, TypeOK, PlanStatus
  <2>3. CASE q # p /\ q # r.supersedes
    BY <1>1, <2>3, PhaseOfOthers
  <2> QED
    BY <2>1, <2>2, <2>3
<1> QED
  BY <1>1, <1>2, GivenUp

LEMMA AuthorityImplements ==
  ASSUME LedgerInvariant, NEW p \in Plans, AuthorityStep(p)
  PROVE  Effect!Next
<1>1. UNCHANGED attempts
  BY DEF AuthorityStep, SelfAuthorize, RequestAuthority, RequestAuthorityInterrupted,
     InsertApproval, ApproveAuthority, RejectAuthority
<1>2. CASE SelfAuthorize(p)
  <2>1. status'[p] = "authorized" /\ status[p] = "proposed"
    BY <1>2 DEF SelfAuthorize, LedgerInvariant, TypeOK
  <2>2. Phase(p) = "unauthorized" /\ Phase(p)' = "authorized"
    BY <2>1 DEF Phase
  <2>3. \A q \in Plans \ {p} : Phase(q)' = Phase(q)
    BY <1>2, PhaseOfOthers DEF SelfAuthorize, authorityVars, LedgerInvariant, TypeOK
  <2>4. Effect!Authorize(p)
    BY <1>1, <2>2, <2>3 DEF Effect!Authorize
  <2> QED
    BY <2>4 DEF Effect!Next
<1>3. CASE \E a \in Approvals : RequestAuthority(p, a) \/ RequestAuthorityInterrupted(p, a)
  <2> PICK a \in Approvals : RequestAuthority(p, a) \/ RequestAuthorityInterrupted(p, a)
    BY <1>3
  <2>1. /\ status[p] = "proposed" /\ status' = status
        /\ approval[a].status = "absent"
        /\ \A b \in Approvals \ {a} : approval'[b] = approval[b]
        /\ \A q \in Plans \ {p} : approvalOf'[q] = approvalOf[q]
    BY DEF RequestAuthority, RequestAuthorityInterrupted, InsertApproval, LedgerInvariant, TypeOK
  <2>2. Phase(p)' = Phase(p)
    BY <2>1 DEF Phase
  <2>3. ASSUME NEW q \in Plans \ {p} PROVE Phase(q)' = Phase(q)
    <3>1. approvalOf[q] # NoApproval => approvalOf[q] \in Approvals \ {a}
      BY <2>1 DEF LedgerInvariant, TypeOK, PlanInvariant, BoundToPlan
    <3> QED
      BY <2>1, <3>1 DEF Phase, Requested
  <2>4. \A q \in Plans : Phase(q)' = Phase(q) \/ GivesUp(q)
    BY <2>2, <2>3
  <2> QED
    BY <1>1, <2>4, GivenUp
<1>4. CASE ApproveAuthority(p) \/ RejectAuthority(p)
  <2>1. /\ approvalOf[p] \in Approvals /\ approvalOf[p] # NoApproval /\ Requested(approvalOf[p])
        /\ approvalOf' = approvalOf
        /\ \A b \in Approvals \ {approvalOf[p]} : approval'[b] = approval[b]
        /\ approval'[approvalOf[p]].status # "requested"
    BY <1>4 DEF ApproveAuthority, RejectAuthority, LedgerInvariant, TypeOK, ApprovalRow
  <2>2. status[p] \in {"proposed", "superseded"}
    BY <2>1 DEF LedgerInvariant, PlanInvariant, UntouchedWhileRequested
  <2>3. /\ status'[p] \in {status[p], "authorized", "rejected"}
        /\ \A q \in Plans \ {p} : status'[q] = status[q]
    BY <1>4 DEF ApproveAuthority, RejectAuthority, LedgerInvariant, TypeOK
  <2>4. Phase(p) = "unauthorized"
    BY <2>1, <2>2 DEF Phase
  <2>5. Phase(p)' \in {"unauthorized", "authorized", "settled"}
    BY <2>1, <2>2, <2>3 DEF Phase, Requested
  <2>6. ASSUME NEW q \in Plans \ {p} PROVE Phase(q)' = Phase(q)
    <3>1. approvalOf[q] # NoApproval => approvalOf[q] \in Approvals \ {approvalOf[p]}
      BY <2>1, ApprovalHasOnePlan DEF LedgerInvariant, TypeOK
    <3> QED
      BY <2>1, <2>3, <3>1 DEF Phase, Requested
  <2>7. CASE Phase(p)' = "authorized"
    <3>1. Effect!Authorize(p)
      BY <1>1, <2>4, <2>6, <2>7 DEF Effect!Authorize
    <3> QED
      BY <3>1 DEF Effect!Next
  <2>8. CASE Phase(p)' # "authorized"
    <3>1. \A q \in Plans : Phase(q)' = Phase(q) \/ GivesUp(q)
      BY <2>4, <2>5, <2>6, <2>8 DEF GivesUp
    <3> QED
      BY <1>1, <3>1, GivenUp
  <2> QED
    BY <2>7, <2>8
<1> QED
  BY <1>2, <1>3, <1>4 DEF AuthorityStep

\* Steps of one plan that leave the attempts alone and every approval too.
LEMMA StatusStepImplements ==
  ASSUME LedgerInvariant, NEW p \in Plans,
         StartRefused(p) \/ Complete(p) \/ Block(p) \/ MarkUncertain(p)
  PROVE  Effect!Next
<1>1. /\ UNCHANGED <<attempts, approvalOf, approval>>
      /\ \A q \in Plans \ {p} : status'[q] = status[q]
      /\ \/ status[p] = "authorized" /\ status'[p] = "blocked"
         \/ status[p] \in {"reconciling", "uncertain"} /\ status'[p] = "uncertain"
         \/ status[p] = "verified" /\ status'[p] = "complete"
  BY DEF StartRefused, Complete, Block, MarkUncertain, authorityVars, LedgerInvariant, TypeOK
<1>2. Phase(p)' = Phase(p) \/ GivesUp(p)
  BY <1>1 DEF Phase, GivesUp
<1>3. \A q \in Plans : Phase(q)' = Phase(q) \/ GivesUp(q)
  BY <1>1, <1>2, PhaseOfOthers
<1> QED
  BY <1>1, <1>3, GivenUp

LEMMA StartAttemptImplements ==
  ASSUME LedgerInvariant, NEW p \in Plans, StartAttempt(p)
  PROVE  Effect!Next
<1>1. /\ status[p] = "authorized" /\ status'[p] = "executing"
      /\ UNCHANGED <<approvalOf, approval>>
      /\ \A q \in Plans \ {p} : status'[q] = status[q]
      /\ Len(attempts[p]) < content[p].maxAttempts
  BY DEF StartAttempt, Preflight, authorityVars, LedgerInvariant, TypeOK
<1>2. Phase(p) = "authorized" /\ Phase(p)' = "acting"
  BY <1>1 DEF Phase
<1>3. \A q \in Plans \ {p} : Phase(q)' = Phase(q)
  BY <1>1, PhaseOfOthers
<1>4. Len(attempts[p]) \in Nat /\ Len(attempts[p]) < 10
  <2>1. content[p].maxAttempts \in 1..10
    BY <1>1 DEF LedgerInvariant, PlanInvariant, HasContent, PlanContent
  <2>2. Len(attempts[p]) \in Nat
    BY LenProperties DEF LedgerInvariant, TypeOK
  <2> QED
    BY <1>1, <2>1, <2>2
<1>5. /\ Len(attempts'[p]) = Len(attempts[p]) + 1
      /\ \A q \in Plans \ {p} : attempts'[q] = attempts[q]
  <2>1. [status |-> "started", decided |-> "none"] \in Attempt /\ attempts[p] \in Seq(Attempt)
    BY DEF Attempt, LedgerInvariant, TypeOK
  <2>2. Len(Append(attempts[p], [status |-> "started", decided |-> "none"])) = Len(attempts[p]) + 1
    BY <2>1, AppendProperties
  <2> QED
    BY <2>2 DEF StartAttempt, LedgerInvariant, TypeOK
<1>6. Effect!Begin(p)
  BY <1>2, <1>3, <1>4, <1>5 DEF Effect!Begin
<1> QED
  BY <1>6 DEF Effect!Next

\* Finishing and reconciling change an attempt but not how many there are.
LEMMA AttemptStepKeepsLengths ==
  ASSUME LedgerInvariant, NEW p \in Plans, NEW n \in 1..Len(attempts[p]),
         \/ \E o \in Outcomes : FinishAttempt(p, n, o)
         \/ \E c \in Classifications : Reconcile(p, n, c)
  PROVE  \A q \in Plans : Len(attempts'[q]) = Len(attempts[q])
<1>1. ASSUME NEW q \in Plans PROVE Len(attempts'[q]) = Len(attempts[q])
  <2>1. attempts[p] \in Seq(Attempt) /\ attempts[p][n] \in Attempt
    BY ElementOfSeq DEF LedgerInvariant, TypeOK
  <2>2. ASSUME NEW x \in Attempt PROVE Len([attempts[p] EXCEPT ![n] = x]) = Len(attempts[p])
    BY <2>1, ExceptSeq
  <2>3. ASSUME NEW o \in Outcomes, FinishAttempt(p, n, o) PROVE Len(attempts'[q]) = Len(attempts[q])
    <3>1. [attempts[p][n] EXCEPT !.status = o] \in Attempt
      BY <2>1 DEF Attempt, Outcomes
    <3> QED
      BY <2>2, <2>3, <3>1 DEF FinishAttempt, LedgerInvariant, TypeOK
  <2>4. ASSUME NEW c \in Classifications, Reconcile(p, n, c) PROVE Len(attempts'[q]) = Len(attempts[q])
    <3>1. c # "uncertain" => [attempts[p][n] EXCEPT !.decided = c] \in Attempt
      BY <2>1 DEF Attempt, Classifications
    <3> QED
      BY <2>2, <2>4, <3>1 DEF Reconcile, LedgerInvariant, TypeOK
  <2> QED
    BY <2>3, <2>4
<1> QED
  BY <1>1

LEMMA AttemptStepImplements ==
  ASSUME LedgerInvariant, NEW p \in Plans, NEW n \in 1..Len(attempts[p]),
         \/ \E o \in Outcomes : FinishAttempt(p, n, o)
         \/ \E c \in Classifications : Reconcile(p, n, c)
  PROVE  Effect!Next
<1>1. [q \in Plans |-> Len(attempts[q])]' = [q \in Plans |-> Len(attempts[q])]
  BY AttemptStepKeepsLengths
<1>2. /\ UNCHANGED <<approvalOf, approval>>
      /\ \A q \in Plans \ {p} : status'[q] = status[q]
  BY DEF FinishAttempt, Reconcile, authorityVars, LedgerInvariant, TypeOK
<1>3. \A q \in Plans \ {p} : Phase(q)' = Phase(q)
  BY <1>2, PhaseOfOthers
<1>4. CASE \E o \in Outcomes : FinishAttempt(p, n, o)
  <2>1. status[p] = "executing" /\ status'[p] \in {"reconciling", "uncertain", "failed"}
    BY <1>4 DEF FinishAttempt, StatusAfter, Outcomes, LedgerInvariant, TypeOK
  <2>2. Phase(p) = "acting" /\ Phase(p)' \in {"unresolved", "settled"}
    BY <2>1 DEF Phase
  <2>3. Effect!Report(p)
    BY <1>1, <1>3, <2>2 DEF Effect!Report
  <2> QED
    BY <2>3 DEF Effect!Next
<1>5. CASE \E c \in Classifications : Reconcile(p, n, c)
  <2>1. /\ status[p] \in {"reconciling", "uncertain"}
        /\ status'[p] \in {"verified", "authorized", "blocked", "uncertain"}
    BY <1>5 DEF Reconcile, StatusReconciled, Classifications, LedgerInvariant, TypeOK
  <2>2. Phase(p) = "unresolved" /\ Phase(p)' \in {"authorized", "settled", "unresolved"}
    BY <2>1 DEF Phase
  <2>3. CASE Phase(p)' = "unresolved"
    <3>1. [q \in Plans |-> Phase(q)]' = [q \in Plans |-> Phase(q)]
      BY <1>3, <2>2, <2>3
    <3>2. Effect!Abandon({})
      BY <1>1, <3>1 DEF Effect!Abandon
    <3> QED
      BY <3>2 DEF Effect!Next
  <2>4. CASE Phase(p)' # "unresolved"
    <3>1. Effect!Learn(p)
      BY <1>1, <1>3, <2>2, <2>4 DEF Effect!Learn
    <3> QED
      BY <3>1 DEF Effect!Next
  <2> QED
    BY <2>3, <2>4
<1> QED
  BY <1>4, <1>5

\* A decision writes into an attempt, and changes nobody's number of attempts.
LEMMA DecidesKeepsLengths ==
  ASSUME LedgerInvariant, NEW p \in Plans, NEW n \in 1..Len(attempts[p]),
         NEW c \in Classifications \ {"uncertain"}, NEW s, Decides(p, n, c, s)
  PROVE  \A q \in Plans : Len(attempts'[q]) = Len(attempts[q])
<1>1. attempts[p] \in Seq(Attempt) /\ attempts[p][n] \in Attempt
  BY ElementOfSeq DEF LedgerInvariant, TypeOK
<1>2. [attempts[p][n] EXCEPT !.decided = c] \in Attempt
  BY <1>1 DEF Attempt, Classifications
<1>3. Len([attempts[p] EXCEPT ![n] = [attempts[p][n] EXCEPT !.decided = c]]) = Len(attempts[p])
  BY <1>1, <1>2, ExceptSeq
<1> QED
  BY <1>3 DEF Decides, LedgerInvariant, TypeOK

LEMMA ConfirmAndCompleteImplements ==
  ASSUME LedgerInvariant, NEW p \in Plans, NEW q \in Plans, NEW n \in 1..Len(attempts[q]),
         ConfirmAndComplete(p, q, n)
  PROVE  Effect!Next
<1>1. /\ status[q] \in {"reconciling", "uncertain"} /\ status'[q] \in {"verified", "complete"}
      /\ p # q => status[p] = "verified" /\ status'[p] = "complete"
      /\ UNCHANGED <<approvalOf, approval>>
      /\ \A r \in Plans \ {p, q} : status'[r] = status[r]
  BY DEF ConfirmAndComplete, Decides, authorityVars, LedgerInvariant, TypeOK
<1>2. Phase(q) = "unresolved" /\ Phase(q)' = "settled"
  BY <1>1 DEF Phase
<1>3. p # q => Phase(p)' = Phase(p)
  BY <1>1 DEF Phase
<1>4. \A r \in Plans \ {q} : Phase(r)' = Phase(r)
  BY <1>1, <1>3, PhaseOfOthers
<1>5. [r \in Plans |-> Len(attempts[r])]' = [r \in Plans |-> Len(attempts[r])]
  BY DecidesKeepsLengths DEF ConfirmAndComplete, Classifications
<1>6. Effect!Learn(q)
  BY <1>2, <1>4, <1>5 DEF Effect!Learn
<1> QED
  BY <1>6 DEF Effect!Next

\* Closing approvals can only give effects up.
LEMMA CloseApprovalsImplements ==
  ASSUME LedgerInvariant, UNCHANGED <<status, approvalOf, attempts>>,
         \A a \in Approvals : approval'[a] = approval[a] \/ approval'[a].status # "requested"
  PROVE  Effect!Next
<1>1. ASSUME NEW q \in Plans PROVE Phase(q)' = Phase(q) \/ GivesUp(q)
  <2>1. CASE status[q] # "superseded"
    BY <2>1 DEF Phase
  <2>2. CASE status[q] = "superseded"
    <3>1. approvalOf[q] # NoApproval => approvalOf[q] \in Approvals
      BY DEF LedgerInvariant, TypeOK
    <3> QED
      BY <2>2, <3>1 DEF Phase, GivesUp, Requested
  <2> QED
    BY <2>1, <2>2
<1> QED
  BY <1>1, GivenUp

LEMMA NextImplements == LedgerInvariant /\ [Next]_vars => [Effect!Next]_(Effect!vars)
<1> SUFFICES ASSUME LedgerInvariant, [Next]_vars PROVE Effect!Next
  OBVIOUS
<1>1. CASE \E p \in Plans, r \in PlanRequest : CreatePlan(p, r)
  BY <1>1, CreatePlanImplements
<1>2. CASE \E p \in Plans : AuthorityStep(p)
  BY <1>2, AuthorityImplements
<1>3. CASE \E a \in Approvals, d \in Decisions : ResolveApproval(a, d)
  <2> PICK a \in Approvals, d \in Decisions : ResolveApproval(a, d)
    BY <1>3
  <2>1. \A b \in Approvals : approval'[b] = approval[b] \/ approval'[b].status # "requested"
    BY DEF ResolveApproval, Decisions, LedgerInvariant, TypeOK, ApprovalRow
  <2> QED
    BY <2>1, CloseApprovalsImplements DEF ResolveApproval
<1>4. CASE \E p \in Plans : EffectStep(p)
  <2> PICK p \in Plans : EffectStep(p)
    BY <1>4
  <2>1. CASE StartAttempt(p)
    BY <2>1, StartAttemptImplements
  <2>2. CASE \E n \in 1..Len(attempts[p]), o \in Outcomes : FinishAttempt(p, n, o)
    BY <2>2, AttemptStepImplements
  <2>3. CASE \E n \in 1..Len(attempts[p]), c \in Classifications : Reconcile(p, n, c)
    BY <2>3, AttemptStepImplements
  <2>4. CASE StartRefused(p) \/ Complete(p) \/ Block(p) \/ MarkUncertain(p)
    BY <2>4, StatusStepImplements
  <2> QED
    BY <2>1, <2>2, <2>3, <2>4 DEF EffectStep
<1>5. CASE \E affected, closed \in SUBSET WorkItems : ReviseProjectGoal(affected, closed)
  <2>1. \A b \in Approvals : approval'[b] = approval[b] \/ approval'[b].status # "requested"
    BY <1>5 DEF ReviseProjectGoal, LedgerInvariant, TypeOK, ApprovalRow
  <2> QED
    BY <1>5, <2>1, CloseApprovalsImplements DEF ReviseProjectGoal
<1>6. CASE \/ AcceptBrief
           \/ \E w \in WorkItems : TransitionWorkItem(w)
           \/ ExhaustEnvelope
           \/ \E p \in Plans : Expire(p)
           \/ UNCHANGED vars
  <2>1. UNCHANGED <<status, approvalOf, approval, attempts>>
    BY <1>6 DEF AcceptBrief, TransitionWorkItem, ExhaustEnvelope, Expire, authorityVars, vars
  <2> QED
    BY <2>1, CloseApprovalsImplements
<1> QED
  BY <1>1, <1>2, <1>3, <1>4, <1>5, <1>6 DEF Next, ContextStep

\* Whatever becomes of plans, approvals, revisions and observations, each plan's
\* effect is governed as GovernedEffect says.
THEOREM LedgerImplementsGovernedEffect == Spec => RefinesGovernedEffect
<1>1. Init => Effect!Init
  <2> SUFFICES ASSUME Init PROVE Effect!Init
    OBVIOUS
  <2>1. \A p \in Plans : Phase(p) = "unauthorized" /\ Len(attempts[p]) = 0
    BY EmptySeq DEF Init, Phase
  <2> QED
    BY <2>1 DEF Effect!Init
<1>2. LedgerInvariant /\ [Next]_vars => [Effect!Next]_(Effect!vars)
  BY NextImplements
<1> QED
  BY <1>1, <1>2, LedgerCorrect, PTL DEF Spec, RefinesGovernedEffect, Effect!Spec
=============================================================================
