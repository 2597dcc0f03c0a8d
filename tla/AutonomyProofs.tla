---------------------------- MODULE AutonomyProofs ----------------------------
(***************************************************************************)
(* Proofs about the kernel's loops and the broker over them, for every set *)
(* of routes, buckets and assignments, and any number of iterations and    *)
(* kills.                                                                  *)
(*                                                                         *)
(* What a loop does between two awaits is a LifecycleStep of its work, and *)
(* a LoopStep: it leaves the other loops alone, or dead, and its own such  *)
(* that LoopHolds.                                                         *)
(***************************************************************************)
EXTENDS FreeFirst, WorkLifecycleProofs, FiniteSetTheorems

LoopRecord ==
  [status: {"none", "running", "passed", "exhausted", "blocked", "failed", "drill"},
   awaits: {"nothing", "lost"} \cup Awaited,
   turn: 0..MaxIterations,
   worker: Routes \cup {None}, verifier: Routes \cup {None},
   failedWorkers: SUBSET Routes, failedVerifiers: SUBSET Routes,
   terms: [independent: BOOLEAN, funded: BOOLEAN, budget: Nat, free: BOOLEAN]]

AttemptRecord ==
  [by: Assignments, turn: 1..MaxIterations, purpose: {"worker", "verifier"}, route: Routes,
   status: {"running", "succeeded"}, charged: BOOLEAN]

\* The attempt that assignment a's loop awaits is there.
HasRunning(a) == \E t \in attempts : t.by = a /\ t.status = "running"

\* A verifier of another group than the worker's, as long as the worker was not replaced.
Independent(L) ==
  L.terms.independent => Group[L.worker] # Group[L.verifier] \/ L.failedWorkers # {}

\* A loop that still goes on has its routes and its attempt.
GoesOn(a) ==
  loop[a].awaits \in Awaited =>
    /\ loop[a].turn \in 1..MaxIterations
    /\ loop[a].worker \in Routes
    /\ loop[a].awaits = "worker" => loop[a].status = "running"
    /\ loop[a].awaits = "verifier" => loop[a].status = "running" /\ loop[a].verifier \in Routes
    /\ loop[a].awaits \in {"primary", "secondary"} =>
         loop[a].status = "drill" /\ loop[a].verifier \in Routes
    /\ HasRunning(a)

\* LoopTellsTheOutcome of one assignment, which is started before its loop is.
Tells(a) ==
  /\ loop[a].status = "passed" => assignment[a].verified = "passed"
  /\ loop[a].status = "exhausted" => assignment[a].verified = "failed"
  /\ loop[a].status \in {"blocked", "failed"} => assignment[a].status \notin {"created", "running"}
  /\ loop[a].status = "running" /\ loop[a].awaits = "nothing" =>
       assignment[a].status # "running" \/ ~Current(a)
  /\ loop[a].status \notin {"none", "drill"} => assignment[a].status # "created"

LoopHolds(a) ==
  /\ loop[a].status = "none" => loop[a] = NoLoop
  /\ loop[a].status # "none" => assignment[a].item \in Items
  /\ GoesOn(a)
  /\ loop[a].status = "passed" \/ loop[a].awaits \in {"worker", "verifier"} => Independent(loop[a])
  /\ Tells(a)

LoopsInvariant ==
  /\ LifecycleInvariant
  /\ KernelTypeOK
  /\ IsFiniteSet(attempts)
  /\ \A a \in Assignments : LoopHolds(a)

-----------------------------------------------------------------------------
(* What a step may do to loops *)

\* A loop is left alone, or lost with its process; its assignment is not started.
LoopKept(a) ==
  /\ \/ loop'[a] = loop[a]
     \/ loop[a].awaits \in Awaited /\ loop'[a] = Over(loop[a], loop[a].status, "lost")
  /\ loop[a].status # "none" /\ assignment'[a].status \in {"created", "running"} =>
       assignment'[a].status = assignment[a].status
  /\ loop'[a].awaits \in Awaited => \A t \in attempts : t.by = a => t \in attempts'

\* Attempts that have succeeded stay, and were charged unless the process was killed.
AttemptsStep ==
  /\ attempts' \subseteq AttemptRecord
  /\ IsFiniteSet(attempts')
  /\ \A t \in attempts : t.status = "succeeded" => t \in attempts'
  /\ \A t \in attempts' : \/ t \in attempts
                          \/ t.status = "running"
                          \/ t.route \in Metered => t.charged
                          \/ crashes < crashes'

\* The step of a loop, or one that begins the loops of the assignments new.
LoopStep(new) ==
  /\ WorkTypeOK'
  /\ LifecycleStep
  /\ loop' \in [Assignments -> LoopRecord]
  /\ AttemptsStep
  /\ \A a \in Assignments : \/ LoopKept(a)
                            \/ LoopHolds(a)' /\ (loop[a].status # "none" \/ a \in new)
  /\ crashes <= crashes'

LEMMA KernelTypes ==
  KernelTypeOK <=>
    /\ WorkTypeOK
    /\ loop \in [Assignments -> LoopRecord]
    /\ attempts \subseteq AttemptRecord
    /\ spend \in [request: {"none", "requested", "approved", "rejected"},
                  approval: {"none", "requested", "approved", "rejected"},
                  item: Items \cup {None}, version: Nat, brief: Nat,
                  envelope: {"none", "approved", "exhausted"}, spent: Nat, direct: Nat]
    /\ enabled \subseteq Routes
  BY DEF KernelTypeOK, LoopRecord, AttemptRecord

\* A loop that is left alone, or lost, keeps its word.
LEMMA LoopStays ==
  ASSUME LoopsInvariant, WorkTypeOK', LifecycleStep, NEW a \in Assignments, LoopKept(a)
  PROVE  LoopHolds(a)'
<1>1. LoopHolds(a) /\ LifecycleInvariant /\ loop[a] \in LoopRecord
  BY KernelTypes DEF LoopsInvariant
<1>2. CASE loop[a].status = "none"
  <2>1. loop[a] = NoLoop
    BY <1>1, <1>2 DEF LoopHolds
  <2>2. loop'[a] = NoLoop
    BY <2>1 DEF LoopKept, NoLoop, Awaited
  <2> QED
    BY <2>2 DEF LoopHolds, GoesOn, Tells, NoLoop, Awaited
<1>3. CASE loop[a].status # "none"
  <2>1. assignment[a].item \in Items
    BY <1>1, <1>3 DEF LoopHolds
  <2>2. Kept(a)
    BY <2>1, WorkAssumption DEF Made, LifecycleStep
  <2>3. assignment'[a].item \in Items
    BY <2>1, <2>2 DEF Kept
  <2>4. /\ assignment[a].verified = "passed" => assignment'[a].verified = "passed"
        /\ assignment[a].verified = "failed" => assignment'[a].verified = "failed"
    BY <1>1, <2>1, VerifiedStays
  <2>5. ~Current(a) => ~Current(a)'
    BY <1>1, <2>1, StaleStays
  <2>6. assignment'[a].status \in {"created", "running"} => assignment'[a].status = assignment[a].status
    BY <1>3 DEF LoopKept
  <2>7. CASE loop'[a] = loop[a]
    <3>1. GoesOn(a)'
      <4>1. loop[a].awaits \in Awaited => HasRunning(a)'
        BY <1>1, <2>7 DEF LoopHolds, GoesOn, LoopKept, HasRunning
      <4> QED
        BY <1>1, <2>7, <4>1 DEF LoopHolds, GoesOn
    <3>2. Tells(a)'
      BY <1>1, <2>4, <2>5, <2>6, <2>7 DEF LoopHolds, Tells
    <3> QED
      BY <1>1, <1>3, <2>3, <2>7, <3>1, <3>2 DEF LoopHolds, Independent
  <2>8. CASE loop[a].awaits \in Awaited /\ loop'[a] = Over(loop[a], loop[a].status, "lost")
    <3>1. loop[a].status \in {"running", "drill"}
      BY <1>1, <2>8 DEF LoopHolds, GoesOn, Awaited
    <3>2. loop'[a].status = loop[a].status /\ loop'[a].awaits = "lost"
      BY <2>8, <3>1 DEF Over, NoLoop
    <3>3. Tells(a)'
      BY <1>1, <2>6, <3>1, <3>2 DEF LoopHolds, Tells
    <3> QED
      BY <2>3, <3>1, <3>2, <3>3 DEF LoopHolds, GoesOn, Awaited
  <2> QED
    BY <2>7, <2>8 DEF LoopKept
<1> QED
  BY <1>2, <1>3

LEMMA LoopsStay ==
  ASSUME LoopsInvariant, NEW new, LoopStep(new), KernelTypeOK'
  PROVE  LoopsInvariant'
<1>1. LifecycleInvariant'
  BY LifecyclePreserved DEF LoopsInvariant, LoopStep
<1>2. \A a \in Assignments : LoopHolds(a)'
  BY LoopStays DEF LoopStep
<1> QED
  BY <1>1, <1>2 DEF LoopsInvariant, LoopStep, AttemptsStep

-----------------------------------------------------------------------------
(* What a loop does next *)

\* A loop that may act, for an assignment that was started.
Acting(a, L) ==
  /\ L \in LoopRecord
  /\ L.status = "running"
  /\ L.turn \in 1..MaxIterations
  /\ L.worker \in Routes
  /\ Independent(L)
  /\ loop[a].status # "none"
  /\ assignment[a].item \in Items
  /\ assignment[a].status # "created"

\* The attempts with one of assignment a ended.
Ended(a, atts) ==
  /\ atts \subseteq AttemptRecord
  /\ IsFiniteSet(atts)
  /\ \A t \in attempts : t.by # a \/ t.status = "succeeded" => t \in atts
  /\ \A t \in atts : t \in attempts \/ (t.route \in Metered => t.charged)

LEMMA NoLoopIsOne == NoLoop \in LoopRecord
  BY AutonomyAssumption DEF NoLoop, NoTerms, LoopRecord

LEMMA OverIsOne ==
  ASSUME NEW L \in LoopRecord,
         NEW status \in {"none", "running", "passed", "exhausted", "blocked", "failed", "drill"},
         NEW awaits \in {"nothing", "lost"}
  PROVE  /\ Over(L, status, awaits) \in LoopRecord
         /\ Over(L, status, awaits).status = status
         /\ Over(L, status, awaits).awaits = awaits
         /\ status = "passed" => /\ Over(L, status, awaits).worker = L.worker
                                 /\ Over(L, status, awaits).verifier = L.verifier
                                 /\ Over(L, status, awaits).failedWorkers = L.failedWorkers
                                 /\ Over(L, status, awaits).terms = L.terms
         /\ status # "passed" => Over(L, status, awaits).terms = NoTerms
<1>1. CASE status = "passed"
  BY <1>1 DEF Over, LoopRecord
<1>2. CASE status # "passed"
  <2>1. Over(L, status, awaits) = [NoLoop EXCEPT !.status = status, !.awaits = awaits]
    BY <1>2 DEF Over
  <2>2. NoLoop \in LoopRecord /\ NoLoop.terms = NoTerms
    BY NoLoopIsOne DEF NoLoop
  <2> QED
    BY <1>2, <2>1, <2>2 DEF LoopRecord
<1> QED
  BY <1>1, <1>2

\* A killed process leaves no loop that awaits anything.
LEMMA AfterKill ==
  ASSUME NEW killed \in BOOLEAN, NEW lp \in [Assignments -> LoopRecord]
  PROVE  /\ LoopsAfter(killed, lp) \in [Assignments -> LoopRecord]
         /\ \A a \in Assignments :
              \/ LoopsAfter(killed, lp)[a] = lp[a] /\ (killed => lp[a].awaits \notin Awaited)
              \/ /\ killed /\ lp[a].awaits \in Awaited
                 /\ LoopsAfter(killed, lp)[a] = Over(lp[a], lp[a].status, "lost")
                 /\ LoopsAfter(killed, lp)[a].awaits = "lost"
<1>1. ASSUME NEW a \in Assignments
      PROVE  /\ Over(lp[a], lp[a].status, "lost") \in LoopRecord
             /\ Over(lp[a], lp[a].status, "lost").awaits = "lost"
  <2>1. lp[a].status \in {"none", "running", "passed", "exhausted", "blocked", "failed", "drill"}
    BY DEF LoopRecord
  <2> QED
    BY <2>1, OverIsOne
<1> QED
  BY <1>1 DEF LoopsAfter

\* Of a step that changes one loop, what is to be shown of that one.
LEMMA OneLoop ==
  ASSUME LoopsInvariant, NEW a \in Assignments, NEW L \in LoopRecord, NEW atts, Ended(a, atts),
         NEW killed \in BOOLEAN,
         loop' = LoopsAfter(killed, [loop EXCEPT ![a] = L]),
         killed => L.awaits \notin Awaited,
         atts \subseteq attempts' \/ killed,
         \A b \in Assignments : b # a => assignment'[b] = assignment[b]
  PROVE  /\ loop' \in [Assignments -> LoopRecord]
         /\ loop'[a] = L
         /\ \A b \in Assignments : b # a => LoopKept(b)
<1> DEFINE lp == [loop EXCEPT ![a] = L]
<1>1. lp \in [Assignments -> LoopRecord] /\ lp[a] = L /\ \A b \in Assignments : b # a => lp[b] = loop[b]
  BY KernelTypes DEF LoopsInvariant
<1> HIDE DEF lp
<1>2. /\ loop' \in [Assignments -> LoopRecord]
      /\ \A b \in Assignments :
           \/ loop'[b] = lp[b] /\ (killed => lp[b].awaits \notin Awaited)
           \/ killed /\ lp[b].awaits \in Awaited /\ loop'[b] = Over(lp[b], lp[b].status, "lost")
                /\ loop'[b].awaits = "lost"
  BY <1>1, AfterKill DEF lp
<1>3. loop'[a] = L
  BY <1>1, <1>2
<1>4. ASSUME NEW b \in Assignments, b # a
      PROVE  LoopKept(b)
  <2>1. lp[b] = loop[b] /\ assignment'[b] = assignment[b]
    BY <1>1, <1>4
  <2>2. loop'[b].awaits \in Awaited => ~killed
    BY <1>2 DEF Awaited
  <2>3. ~killed => \A t \in attempts : t.by = b => t \in attempts'
    BY <1>4 DEF Ended
  <2> QED
    BY <1>2, <2>1, <2>2, <2>3 DEF LoopKept
<1> QED
  BY <1>2, <1>3, <1>4

LEMMA NotKilled ==
  ASSUME NEW lp \in [Assignments -> LoopRecord]
  PROVE  LoopsAfter(FALSE, lp) = lp
  BY DEF LoopsAfter

\* A step of loops at which the process is not killed, and their work's step is known.
LEMMA PlainStep ==
  ASSUME LoopsInvariant, NEW a \in Assignments, NEW L \in LoopRecord, NEW atts, Ended(a, atts),
         NEW new, loop[a].status # "none" \/ a \in new,
         loop' = [loop EXCEPT ![a] = L],
         attempts' \subseteq AttemptRecord, IsFiniteSet(attempts'), atts \subseteq attempts',
         \A t \in attempts' : t \in atts \/ t.status = "running",
         \A b \in Assignments : b # a => assignment'[b] = assignment[b],
         WorkTypeOK', LifecycleStep, UNCHANGED crashes,
         loop'[a] = L => LoopHolds(a)'
  PROVE  LoopStep(new)
<1>1. [loop EXCEPT ![a] = L] \in [Assignments -> LoopRecord]
  BY KernelTypes DEF LoopsInvariant
<1>2. loop' = LoopsAfter(FALSE, [loop EXCEPT ![a] = L])
  BY <1>1, NotKilled
<1>3. /\ loop' \in [Assignments -> LoopRecord]
      /\ loop'[a] = L
      /\ \A b \in Assignments : b # a => LoopKept(b)
  BY <1>2, OneLoop
<1>4. AttemptsStep
  BY DEF AttemptsStep, Ended
<1>5. crashes \in Nat
  BY DEF LoopsInvariant, LifecycleInvariant, WorkTypeOK
<1> QED
  BY <1>3, <1>4, <1>5 DEF LoopStep

LEMMA NothingOfTheWork ==
  ASSUME LifecycleInvariant, crashes' \in Nat,
         UNCHANGED <<item, depends, specs, activation, assignment, evidence, brief, pending, pack, cut>>
  PROVE  WorkTypeOK' /\ LifecycleStep
<1>1. WorkTypeOK'
  BY DEF LifecycleInvariant, WorkTypeOK
<1> QED
  BY <1>1, QuietStep, UnchangedAssignments, UnchangedItems, UnchangedPack

LEMMA AwaitSteps ==
  ASSUME LoopsInvariant, NEW a \in Assignments, NEW L, Acting(a, L), NEW atts, Ended(a, atts),
         NEW purpose \in {"worker", "verifier"}, NEW r \in Routes,
         purpose = "verifier" => L.verifier \in Routes,
         Await(a, L, purpose, r, atts), Elsewhere, UNCHANGED pack
  PROVE  LoopStep({})
<1> DEFINE M == [L EXCEPT !.awaits = purpose]
           fresh == NewAttempt(a, L, purpose, r)
<1>1. /\ loop' = [loop EXCEPT ![a] = M]
      /\ attempts' = atts \cup {fresh}
      /\ UNCHANGED <<item, depends, specs, activation, assignment, evidence, brief, pending, pack, cut, crashes>>
  BY DEF Await, Elsewhere
<1>2. /\ M \in LoopRecord
      /\ M.status = "running" /\ M.awaits = purpose /\ M.turn \in 1..MaxIterations
      /\ M.worker \in Routes /\ M.verifier = L.verifier /\ Independent(M)
  BY DEF Acting, LoopRecord, Awaited, Independent
<1>3. fresh \in AttemptRecord /\ fresh.by = a /\ fresh.status = "running"
  BY DEF NewAttempt, AttemptRecord, Acting
<1> HIDE DEF M, fresh
<1>4. /\ attempts' \subseteq AttemptRecord /\ IsFiniteSet(attempts') /\ atts \subseteq attempts'
      /\ \A t \in attempts' : t \in atts \/ t.status = "running"
  BY <1>1, <1>3, FS_AddElement DEF Ended
<1>5. WorkTypeOK' /\ LifecycleStep
  BY <1>1, NothingOfTheWork DEF LoopsInvariant, LifecycleInvariant, WorkTypeOK
<1>6. loop'[a] = M => LoopHolds(a)'
  <2>1. HasRunning(a)'
    BY <1>1, <1>3 DEF HasRunning
  <2> QED
    BY <1>1, <1>2, <2>1 DEF LoopHolds, GoesOn, Tells, Acting, Awaited
<1> QED
  BY <1>1, <1>2, <1>4, <1>5, <1>6, PlainStep DEF Acting

LEMMA StopSteps ==
  ASSUME LoopsInvariant, NEW a \in Assignments, NEW L, Acting(a, L), NEW atts, Ended(a, atts),
         NEW status \in {"failed", "blocked"},
         Stop(a, L, status, atts), Elsewhere, UNCHANGED pack
  PROVE  LoopStep({})
<1> DEFINE M == Over(L, status, "nothing")
           s == IF assignment[a].status = "running" THEN status ELSE assignment[a].status
<1>1. /\ loop' = [loop EXCEPT ![a] = M]
      /\ attempts' = atts
      /\ assignment' = [assignment EXCEPT ![a].status = s]
      /\ UNCHANGED <<item, depends, specs, activation, evidence, brief, pending, pack, cut, crashes>>
  BY DEF Stop, Elsewhere
<1>2. assignment \in [Assignments -> AssignmentRecord]
  BY DEF LoopsInvariant, LifecycleInvariant, WorkTypeOK, AssignmentRecord
<1>3. M \in LoopRecord /\ M.status = status /\ M.awaits = "nothing"
  BY OverIsOne DEF Acting
<1>4. /\ s \in AssignmentStatus /\ s \notin {"created", "running"}
      /\ s = "execution_finished" => assignment[a].status = "execution_finished"
  BY <1>2 DEF AssignmentRecord, AssignmentStatus, Acting
<1> HIDE DEF M, s
<1>5. WorkTypeOK' /\ LifecycleStep
  BY <1>1, <1>4, StatusSteps DEF LoopsInvariant
<1>6. /\ assignment'[a].status = s /\ assignment'[a].item = assignment[a].item
      /\ \A b \in Assignments : b # a => assignment'[b] = assignment[b]
  BY <1>1, <1>2 DEF AssignmentRecord
<1>7. loop'[a] = M => LoopHolds(a)'
  BY <1>3, <1>4, <1>6 DEF LoopHolds, GoesOn, Tells, Acting, Awaited
<1>8. attempts' \subseteq AttemptRecord /\ IsFiniteSet(attempts') /\ atts \subseteq attempts'
  BY <1>1 DEF Ended
<1> QED
  BY <1>1, <1>3, <1>5, <1>6, <1>7, <1>8, PlainStep DEF Acting

\* What settling does to the assignment and its item: the item moves on, to complete
\* with evidence on record, once the assignment is verified.
LEMMA SettledWork ==
  ASSUME LoopsInvariant, NEW a \in Assignments, assignment[a].status = "running", Current(a),
         NEW outcome \in {"passed", "failed"}, NEW k \in 0..4,
         LET w == assignment[a].item
             verified == [item EXCEPT
               ![w] = Moved(w, IF outcome = "passed" THEN "complete" ELSE "needs_attention")]
         IN /\ assignment' = [assignment EXCEPT
                 ![a].status = IF k >= 1 THEN "execution_finished" ELSE @,
                 ![a].verified = IF k >= 3 THEN outcome ELSE @]
            /\ evidence' = IF k >= 2 THEN evidence \cup {w} ELSE evidence
            /\ item' = IF k < 3 THEN item
                       ELSE IF outcome = "passed" /\ k = 4 THEN Refreshed(verified, Due(verified))
                       ELSE verified,
         crashes' \in Nat, Elsewhere, UNCHANGED pack
  PROVE  /\ WorkTypeOK' /\ LifecycleStep
         /\ \A b \in Assignments : b # a => assignment'[b] = assignment[b]
         /\ assignment'[a].item = assignment[a].item
         /\ assignment'[a].status = IF k >= 1 THEN "execution_finished" ELSE "running"
         /\ assignment'[a].verified = IF k >= 3 THEN outcome ELSE "unverified"
<1> DEFINE w == assignment[a].item
           s == IF outcome = "passed" THEN "complete" ELSE "needs_attention"
           r == [assignment[a] EXCEPT
                   !.status = IF k >= 1 THEN "execution_finished" ELSE assignment[a].status,
                   !.verified = IF k >= 3 THEN outcome ELSE assignment[a].verified]
           moves == k >= 3
           refreshes == outcome = "passed" /\ k = 4
           verified == IF moves THEN [item EXCEPT ![w] = Moved(w, s)] ELSE item
<1> USE DEF LoopsInvariant
<1>1. /\ w \in Items /\ Exists(w)
      /\ assignment[a].version = item[w].version
      /\ assignment[a].verified = "unverified"
  BY DEF Current, LifecycleInvariant, Bound
<1>2. /\ item \in [Items -> [status: ItemStatus, version: Nat]]
      /\ assignment \in [Assignments -> AssignmentRecord]
      /\ assignment[a] \in AssignmentRecord
  BY DEF LifecycleInvariant, WorkTypeOK, AssignmentRecord
<1>3. assignment' = [assignment EXCEPT ![a] = r]
  BY <1>2 DEF AssignmentRecord
<1>4. /\ r \in AssignmentRecord
      /\ r.item = w /\ r.version = assignment[a].version
      /\ r.status = IF k >= 1 THEN "execution_finished" ELSE "running"
      /\ r.verified = IF k >= 3 THEN outcome ELSE "unverified"
  BY <1>1, <1>2 DEF AssignmentRecord, AssignmentStatus
<1> HIDE DEF r
<1>5. /\ assignment'[a] = r
      /\ assignment' \in [Assignments -> AssignmentRecord]
      /\ \A b \in Assignments : b # a => Kept(b) /\ assignment'[b] = assignment[b]
  BY <1>2, <1>3, <1>4, OneAssignment
<1>6. item' = IF refreshes THEN Refreshed(verified, Due(verified)) ELSE verified
  OBVIOUS
<1>7. /\ moves \in BOOLEAN /\ refreshes \in BOOLEAN /\ (refreshes => moves)
      /\ s \in {"complete", "needs_attention"}
  OBVIOUS
<1>8. evidence' = IF k >= 2 THEN evidence \cup {w} ELSE evidence
  OBVIOUS
<1> HIDE DEF moves, refreshes, s, w
<1>9. /\ item' \in [Items -> [status: ItemStatus, version: Nat]]
      /\ \A v \in Items : ~Exists(v) => item'[v] = item[v]
      /\ \A v \in Items : v # w => ItemMoves(v)
      /\ item'[w] = IF moves THEN Moved(w, s) ELSE item[w]
  BY <1>1, <1>6, <1>7, CompletedItems
<1>10. moves => item'[w].version = item[w].version + 1 /\ item'[w].status = s
  <2>1. moves => item'[w] = [status |-> s, version |-> item[w].version + 1]
    BY <1>9 DEF Moved
  <2> QED
    BY <2>1
<1>11. Kept(a)
  BY <1>1, <1>4, <1>5, <1>10 DEF Kept, Active, moves, w
<1>12. ItemMoves(w)
  <2>1. CASE ~moves
    BY <1>9, <2>1 DEF ItemMoves
  <2>2. CASE moves
    <3>1. w \in evidence'
      BY <1>8, <2>2 DEF moves
    <3>2. s = "complete" => assignment'[a].verified = "passed"
      BY <1>4, <1>5, <2>2 DEF moves, s
    <3> QED
      BY <1>1, <1>4, <1>5, <1>7, <1>10, <2>2, <3>1, <3>2 DEF ItemMoves
  <2> QED
    BY <2>1, <2>2
<1>13. evidence \subseteq evidence' /\ evidence' \subseteq Items
  BY <1>1, <1>8 DEF LifecycleInvariant, WorkTypeOK
<1>14. WorkTypeOK'
  BY <1>5, <1>9, <1>13 DEF LifecycleInvariant, WorkTypeOK, AssignmentRecord, Elsewhere
<1>15. LifecycleStep
  BY <1>5, <1>9, <1>11, <1>12, <1>13, QuietStep, UnchangedPack DEF Elsewhere
<1> QED
  BY <1>4, <1>5, <1>14, <1>15 DEF w

LEMMA SettleSteps ==
  ASSUME LoopsInvariant, NEW a \in Assignments, NEW L, Acting(a, L), NEW atts, Ended(a, atts),
         NEW outcome \in {"passed", "failed"},
         NEW status, status = IF outcome = "passed" THEN "passed" ELSE "exhausted",
         Settle(a, L, outcome, status, atts), Elsewhere, UNCHANGED pack
  PROVE  LoopStep({})
<1> DEFINE holds == assignment[a].status = "running" /\ Current(a)
<1>1. crashes \in Nat /\ LifecycleInvariant
  BY DEF LoopsInvariant, LifecycleInvariant, WorkTypeOK
<1>2. CASE ~holds
  <2> DEFINE M == Over(L, "running", "nothing")
  <2>1. PICK k \in {4} :
          /\ attempts' = Surviving(k < 4, atts)
          /\ loop' = LoopsAfter(k < 4, [loop EXCEPT ![a] =
               Over(L, "running", IF k < 4 THEN "lost" ELSE "nothing")])
          /\ assignment' = [assignment EXCEPT ![a].status = @, ![a].verified = @]
          /\ UNCHANGED <<evidence, item>>
          /\ CarriesOut(k, 4)
    BY <1>2 DEF Settle, Acting
  <2>2. UNCHANGED <<assignment, crashes>>
    BY <1>1, <2>1 DEF LifecycleInvariant, WorkTypeOK, CarriesOut
  <2>3. M \in LoopRecord /\ M.status = "running" /\ M.awaits = "nothing"
    BY OverIsOne DEF Acting
  <2> HIDE DEF M
  <2>4. loop' = [loop EXCEPT ![a] = M] /\ attempts' = atts
    <3>1. [loop EXCEPT ![a] = M] \in [Assignments -> LoopRecord]
      BY <2>3, KernelTypes DEF LoopsInvariant
    <3>2. (k < 4) = FALSE
      OBVIOUS
    <3> QED
      BY <2>1, <3>1, <3>2, NotKilled DEF Surviving, M
  <2>5. WorkTypeOK' /\ LifecycleStep
    BY <1>1, <2>1, <2>2, NothingOfTheWork DEF Elsewhere
  <2>6. loop'[a] = M => LoopHolds(a)'
    BY <1>2, <2>1, <2>2, <2>3 DEF LoopHolds, GoesOn, Tells, Acting, Awaited, Current
  <2> QED
    BY <2>1, <2>2, <2>3, <2>4, <2>5, <2>6, PlainStep DEF Ended, Acting
<1>3. CASE holds
  <2>1. PICK k \in StatementsOf(4) :
          /\ attempts' = Surviving(k < 4, atts)
          /\ loop' = LoopsAfter(k < 4, [loop EXCEPT ![a] =
               Over(L, IF k = 4 THEN status ELSE "running", IF k < 4 THEN "lost" ELSE "nothing")])
          /\ assignment' = [assignment EXCEPT
               ![a].status = IF k >= 1 THEN "execution_finished" ELSE @,
               ![a].verified = IF k >= 3 THEN outcome ELSE @]
          /\ evidence' = IF k >= 2 THEN evidence \cup {assignment[a].item} ELSE evidence
          /\ LET w == assignment[a].item
                 verified == [item EXCEPT
                   ![w] = Moved(w, IF outcome = "passed" THEN "complete" ELSE "needs_attention")]
             IN item' = IF k < 3 THEN item
                        ELSE IF outcome = "passed" /\ k = 4 THEN Refreshed(verified, Due(verified))
                        ELSE verified
          /\ CarriesOut(k, 4)
    BY <1>3 DEF Settle, Acting
  <2>2. k \in 0..4 /\ crashes' \in Nat /\ crashes <= crashes'
    BY <1>1, <2>1, Statements DEF LifecycleInvariant, CarriesOut
  <2>3. /\ WorkTypeOK' /\ LifecycleStep
        /\ \A b \in Assignments : b # a => assignment'[b] = assignment[b]
        /\ assignment'[a].item = assignment[a].item
        /\ assignment'[a].status = IF k >= 1 THEN "execution_finished" ELSE "running"
        /\ assignment'[a].verified = IF k >= 3 THEN outcome ELSE "unverified"
    BY <1>3, <2>1, <2>2, SettledWork
  <2> DEFINE M == Over(L, IF k = 4 THEN status ELSE "running", IF k < 4 THEN "lost" ELSE "nothing")
             killed == k < 4
  <2>4. /\ M \in LoopRecord
        /\ M.status = IF k = 4 THEN status ELSE "running"
        /\ M.awaits = IF k < 4 THEN "lost" ELSE "nothing"
        /\ M.status = "passed" => Independent(M)
    BY OverIsOne DEF Acting, Independent
  <2>5. killed \in BOOLEAN /\ (killed => M.awaits \notin Awaited) /\ (k = 4 <=> ~killed)
    BY <2>2, <2>4 DEF Awaited
  <2>6. attempts' = Surviving(killed, atts) /\ loop' = LoopsAfter(killed, [loop EXCEPT ![a] = M])
    BY <2>1
  <2> HIDE DEF M, killed
  <2>7. /\ attempts' \subseteq atts
        /\ \A t \in attempts : t.status = "succeeded" => t \in attempts'
        /\ ~killed => attempts' = atts
    BY <2>5, <2>6 DEF Surviving, Ended
  <2>8. AttemptsStep
    BY <2>7, FS_Subset DEF AttemptsStep, Ended
  <2>9. /\ loop' \in [Assignments -> LoopRecord]
        /\ loop'[a] = M
        /\ \A b \in Assignments : b # a => LoopKept(b)
    BY <2>3, <2>4, <2>5, <2>6, <2>7, OneLoop
  <2>10. LoopHolds(a)'
    BY <2>2, <2>3, <2>4, <2>5, <2>9 DEF LoopHolds, GoesOn, Tells, Acting, Awaited, killed
  <2> QED
    BY <2>2, <2>3, <2>8, <2>9, <2>10 DEF LoopStep, Acting
<1> QED
  BY <1>2, <1>3

LEMMA NextTurnSteps ==
  ASSUME LoopsInvariant, NEW a \in Assignments, NEW w, NEW L, Acting(a, L),
         NEW atts, Ended(a, atts), NEW sp,
         NextTurn(a, w, L, atts, sp), Elsewhere, UNCHANGED pack
  PROVE  LoopStep({})
<1>1. CASE Settle(a, L, "failed", "exhausted", atts)
  BY <1>1, SettleSteps
<1>2. CASE Stop(a, L, "blocked", atts)
  BY <1>2, StopSteps
<1>3. CASE L.turn < MaxIterations /\ ~(Stop(a, L, "blocked", atts))
           /\ ~(Settle(a, L, "failed", "exhausted", atts))
  <2> DEFINE M == [L EXCEPT !.turn = @ + 1]
  <2>1. Acting(a, M)
    BY <1>3, AutonomyAssumption DEF Acting, LoopRecord, Independent
  <2>2. M.worker \in Routes
    BY <2>1 DEF Acting
  <2>3. Await(a, M, "worker", M.worker, atts) \/ Stop(a, M, "failed", atts)
    BY <1>3 DEF NextTurn
  <2> HIDE DEF M
  <2> QED
    BY <2>1, <2>2, <2>3, AwaitSteps, StopSteps
<1> QED
  BY <1>1, <1>2, <1>3 DEF NextTurn

LEMMA ReplaceWorkerSteps ==
  ASSUME LoopsInvariant, NEW a \in Assignments, NEW w, NEW L, Acting(a, L),
         NEW atts, Ended(a, atts),
         ReplaceWorker(a, w, L, atts), Elsewhere, UNCHANGED pack
  PROVE  LoopStep({})
<1> DEFINE M == [L EXCEPT !.failedWorkers = @ \cup {L.worker}]
           others == Eligibles(enabled, "worker", L.terms, w, M.failedWorkers, {}, spend)
<1>1. Acting(a, M) /\ M.failedWorkers # {}
  BY DEF Acting, LoopRecord, Independent
<1>2. others \subseteq Routes
  BY DEF Eligibles, LoopsInvariant, KernelTypeOK
<1>3. Stop(a, M, "failed", atts) \/ \E r \in others : NextTurn(a, w, [M EXCEPT !.worker = r], atts, spend)
  BY DEF ReplaceWorker
<1> HIDE DEF M, others
<1>4. \A r \in others : Acting(a, [M EXCEPT !.worker = r])
  BY <1>1, <1>2 DEF Acting, LoopRecord, Independent
<1> QED
  BY <1>1, <1>3, <1>4, StopSteps, NextTurnSteps

LEMMA ReplaceVerifierSteps ==
  ASSUME LoopsInvariant, NEW a \in Assignments, NEW w, NEW L, Acting(a, L), L.verifier \in Routes,
         NEW atts, Ended(a, atts), NEW sp,
         ReplaceVerifier(a, w, L, atts, sp), Elsewhere, UNCHANGED pack
  PROVE  LoopStep({})
<1> DEFINE M == [L EXCEPT !.failedVerifiers = @ \cup {L.verifier}]
           others == Eligibles(enabled, "verifier", L.terms, w, M.failedVerifiers,
                               GroupsBeside(L.terms, L.worker), sp)
<1>1. Acting(a, M) /\ M.terms = L.terms /\ M.worker = L.worker
  BY DEF Acting, LoopRecord, Independent
<1>2. \A r \in others : r \in Routes /\ (L.terms.independent => Group[r] # Group[L.worker])
  BY DEF Eligibles, GroupsBeside, LoopsInvariant, KernelTypeOK
<1>3. \/ Stop(a, M, "blocked", atts)
      \/ \E r \in others : NextTurn(a, w, [M EXCEPT !.verifier = r], atts, sp)
  BY DEF ReplaceVerifier
<1> HIDE DEF M, others
<1>4. \A r \in others : Acting(a, [M EXCEPT !.verifier = r])
  BY <1>1, <1>2 DEF Acting, LoopRecord, Independent
<1> QED
  BY <1>1, <1>3, <1>4, StopSteps, NextTurnSteps

LEMMA AskVerifierSteps ==
  ASSUME LoopsInvariant, NEW a \in Assignments, NEW w, NEW L, Acting(a, L),
         NEW atts, Ended(a, atts), NEW sp,
         Verify(a, w, L, atts, sp), Elsewhere, UNCHANGED pack
  PROVE  LoopStep({})
<1>1. CASE L.verifier = None
  BY <1>1, StopSteps DEF Verify
<1>2. CASE L.verifier # None
  <2>1. L.verifier \in Routes
    BY <1>2 DEF Acting, LoopRecord
  <2>2. Await(a, L, "verifier", L.verifier, atts) \/ ReplaceVerifier(a, w, L, atts, sp)
    BY <1>2 DEF Verify
  <2> QED
    BY <2>1, <2>2, AwaitSteps, ReplaceVerifierSteps
<1> QED
  BY <1>1, <1>2

-----------------------------------------------------------------------------
(* A provider returns *)

SpendRecord ==
  [request: {"none", "requested", "approved", "rejected"},
   approval: {"none", "requested", "approved", "rejected"},
   item: Items \cup {None}, version: Nat, brief: Nat,
   envelope: {"none", "approved", "exhausted"}, spent: Nat, direct: Nat]

\* The attempt a loop awaits is one of its assignment's.
LEMMA RunningIs ==
  ASSUME LoopsInvariant, NEW a \in Assignments, loop[a].awaits \in Awaited
  PROVE  /\ Running(a) \in attempts
         /\ Running(a) \in AttemptRecord
         /\ Running(a).by = a /\ Running(a).status = "running"
<1>1. HasRunning(a)
  BY DEF LoopsInvariant, LoopHolds, GoesOn
<1> QED
  BY <1>1, KernelTypes DEF HasRunning, Running, LoopsInvariant

LEMMA AttemptEnds ==
  ASSUME LoopsInvariant, NEW a \in Assignments, loop[a].awaits \in Awaited
  PROVE  Ended(a, Failed(a)) /\ Ended(a, Succeeded(a))
<1>1. /\ Running(a) \in attempts /\ Running(a) \in AttemptRecord
      /\ Running(a).by = a /\ Running(a).status = "running"
  BY RunningIs
<1>2. IsFiniteSet(attempts) /\ attempts \subseteq AttemptRecord
  BY KernelTypes DEF LoopsInvariant
<1>3. Ended(a, Failed(a))
  BY <1>1, <1>2, FS_RemoveElement DEF Failed, Ended
<1> DEFINE c == Running(a).route \in Metered
           t == [Running(a) EXCEPT !.status = "succeeded", !.charged = c]
<1>4. t \in AttemptRecord
  <2>1. c \in BOOLEAN
    OBVIOUS
  <2> HIDE DEF c
  <2> QED
    BY <1>1, <2>1 DEF AttemptRecord
<1> HIDE DEF t
<1>5. t.route \in Metered => t.charged
  BY <1>1 DEF AttemptRecord, t
<1>6. Succeeded(a) = Failed(a) \cup {t}
  BY DEF Succeeded, t
<1> QED
  BY <1>3, <1>4, <1>5, <1>6, FS_AddElement DEF Ended

\* What may act at a return.
LEMMA ReturnsActing ==
  ASSUME LoopsInvariant, NEW a \in Assignments, loop[a].awaits \in {"worker", "verifier"}
  PROVE  /\ Acting(a, loop[a])
         /\ loop[a].awaits = "verifier" => loop[a].verifier \in Routes
         /\ loop[a].awaits \in Awaited
<1>1. LoopHolds(a) /\ loop[a] \in LoopRecord
  BY KernelTypes DEF LoopsInvariant
<1>2. loop[a].awaits \in Awaited
  BY DEF Awaited
<1> QED
  BY <1>1, <1>2 DEF LoopHolds, GoesOn, Tells, Acting

LEMMA WorkerSteps ==
  ASSUME LoopsInvariant, NEW a \in Assignments, WorkerReturns(a)
  PROVE  LoopStep({})
<1> DEFINE L == loop[a]
           w == assignment[a].item
<1>1. L.awaits = "worker" /\ Elsewhere /\ UNCHANGED pack
  BY DEF WorkerReturns
<1>2. ReplaceWorker(a, w, L, Failed(a)) \/ Verify(a, w, L, Succeeded(a), spend')
  BY DEF WorkerReturns
<1>3. Acting(a, L) /\ L.awaits \in Awaited
  BY <1>1, ReturnsActing
<1>4. Ended(a, Failed(a)) /\ Ended(a, Succeeded(a))
  BY <1>3, AttemptEnds
<1> QED
  BY <1>1, <1>2, <1>3, <1>4, ReplaceWorkerSteps, AskVerifierSteps

LEMMA VerifierSteps ==
  ASSUME LoopsInvariant, NEW a \in Assignments, VerifierReturns(a)
  PROVE  LoopStep({})
<1> DEFINE L == loop[a]
           w == assignment[a].item
<1>1. L.awaits = "verifier" /\ Elsewhere /\ UNCHANGED pack
  BY DEF VerifierReturns
<1>2. \/ ReplaceVerifier(a, w, L, Failed(a), spend)
      \/ Settle(a, L, "passed", "passed", Succeeded(a))
      \/ NextTurn(a, w, L, Succeeded(a), spend')
  BY DEF VerifierReturns
<1>3. Acting(a, L) /\ L.awaits \in Awaited /\ L.verifier \in Routes
  BY <1>1, ReturnsActing
<1>4. Ended(a, Failed(a)) /\ Ended(a, Succeeded(a))
  BY <1>3, AttemptEnds
<1> QED
  BY <1>1, <1>2, <1>3, <1>4, ReplaceVerifierSteps, SettleSteps, NextTurnSteps

\* Loops that are left alone, or killed, whatever became of attempts.
LEMMA KilledLoops ==
  ASSUME LoopsInvariant, NEW killed \in BOOLEAN, loop' = LoopsAfter(killed, loop),
         killed \/ attempts \subseteq attempts',
         \A a \in Assignments :
           loop[a].status # "none" /\ assignment'[a].status \in {"created", "running"} =>
             assignment'[a].status = assignment[a].status
  PROVE  loop' \in [Assignments -> LoopRecord] /\ \A a \in Assignments : LoopKept(a)
<1>1. loop \in [Assignments -> LoopRecord]
  BY KernelTypes DEF LoopsInvariant
<1> QED
  BY <1>1, AfterKill DEF LoopKept, Awaited

LEMMA AttemptsSurvive ==
  ASSUME LoopsInvariant, NEW killed \in BOOLEAN, attempts' = Surviving(killed, attempts)
  PROVE  AttemptsStep /\ (killed \/ attempts \subseteq attempts')
<1>1. attempts' \subseteq attempts /\ attempts \subseteq AttemptRecord /\ IsFiniteSet(attempts)
  BY KernelTypes DEF Surviving, LoopsInvariant
<1> QED
  BY <1>1, FS_Subset DEF AttemptsStep, Surviving

LEMMA KilledBeforeChargeSteps ==
  ASSUME LoopsInvariant, NEW a \in Assignments, KilledBeforeCharge(a)
  PROVE  LoopStep({})
<1> DEFINE t == [Running(a) EXCEPT !.status = "succeeded"]
<1>1. /\ loop[a].awaits \in Awaited
      /\ crashes' = crashes + 1
      /\ attempts' = Surviving(TRUE, Failed(a)) \cup {t}
      /\ loop' = LoopsAfter(TRUE, loop)
      /\ UNCHANGED <<item, depends, specs, activation, assignment, evidence, brief, pending, pack, cut>>
  BY DEF KilledBeforeCharge, Elsewhere
<1>2. crashes \in Nat /\ LifecycleInvariant
  BY DEF LoopsInvariant, LifecycleInvariant, WorkTypeOK
<1>3. WorkTypeOK' /\ LifecycleStep
  BY <1>1, <1>2, NothingOfTheWork
<1>4. loop' \in [Assignments -> LoopRecord] /\ \A b \in Assignments : LoopKept(b)
  BY <1>1, KilledLoops
<1>5. Running(a) \in AttemptRecord /\ Running(a).status = "running"
  BY <1>1, RunningIs
<1>6. t \in AttemptRecord
  BY <1>5 DEF AttemptRecord
<1> HIDE DEF t
<1>7. attempts \subseteq AttemptRecord /\ IsFiniteSet(attempts)
  BY KernelTypes DEF LoopsInvariant
<1>8. Surviving(TRUE, Failed(a)) \subseteq attempts
  BY DEF Surviving, Failed
<1>9. attempts' \subseteq AttemptRecord /\ IsFiniteSet(attempts')
  BY <1>1, <1>6, <1>7, <1>8, FS_Subset, FS_AddElement
<1>10. AttemptsStep
  BY <1>1, <1>2, <1>5, <1>9 DEF AttemptsStep, Surviving, Failed
<1>11. crashes <= crashes'
  BY <1>1, <1>2
<1> QED
  BY <1>3, <1>4, <1>10, <1>11 DEF LoopStep

-----------------------------------------------------------------------------
(* The drill *)

\* At most its status changes, and not to one that is active.
LEMMA OverwriteSteps ==
  ASSUME LoopsInvariant, NEW a \in Assignments, loop[a].awaits \in {"primary", "secondary"},
         NEW status \in {"failed", "canceled"}, NEW atts, Ended(a, atts),
         Overwrite(a, loop[a], status, atts), Elsewhere, UNCHANGED <<item, evidence, crashes, pack>>
  PROVE  LoopStep({})
<1> DEFINE M == Over(loop[a], "drill", "nothing")
<1>1. /\ loop' = [loop EXCEPT ![a] = M]
      /\ attempts' = atts
      /\ assignment' = [assignment EXCEPT ![a].status = status]
      /\ UNCHANGED <<item, depends, specs, activation, evidence, brief, pending, pack, cut, crashes>>
  BY DEF Overwrite, Elsewhere
<1>2. LoopHolds(a) /\ loop[a] \in LoopRecord
  BY KernelTypes DEF LoopsInvariant
<1>3. loop[a].status = "drill"
  BY <1>2 DEF LoopHolds, GoesOn, Awaited
<1>4. M \in LoopRecord /\ M.status = "drill" /\ M.awaits = "nothing"
  BY <1>2, OverIsOne
<1> HIDE DEF M
<1>5. WorkTypeOK' /\ LifecycleStep
  BY <1>1, StatusSteps DEF LoopsInvariant, AssignmentStatus
<1>6. /\ assignment'[a].item = assignment[a].item
      /\ \A b \in Assignments : b # a => assignment'[b] = assignment[b]
  BY <1>1 DEF LoopsInvariant, LifecycleInvariant, WorkTypeOK
<1>7. loop'[a] = M => LoopHolds(a)'
  BY <1>2, <1>3, <1>4, <1>6 DEF LoopHolds, GoesOn, Tells, Awaited
<1>8. /\ attempts' \subseteq AttemptRecord /\ IsFiniteSet(attempts') /\ atts \subseteq attempts'
      /\ \A t \in attempts' : t \in atts \/ t.status = "running"
  BY <1>1 DEF Ended
<1> QED
  BY <1>1, <1>4, <1>5, <1>6, <1>7, <1>3, <1>8, PlainStep

LEMMA DrillSteps ==
  ASSUME LoopsInvariant, NEW a \in Assignments, DrillReturns(a)
  PROVE  LoopStep({})
<1> DEFINE L == loop[a]
           M == [L EXCEPT !.awaits = "secondary"]
           fresh == NewAttempt(a, L, "worker", L.verifier)
           atts == Succeeded(a)
<1>1. /\ L.awaits \in {"primary", "secondary"}
      /\ Elsewhere /\ UNCHANGED <<item, evidence, crashes, pack>>
  BY DEF DrillReturns
<1>2. \/ Overwrite(a, L, "failed", Failed(a))
      \/ Overwrite(a, L, "canceled", atts)
      \/ Overwrite(a, L, "failed", atts)
      \/ /\ loop' = [loop EXCEPT ![a].awaits = "secondary"]
         /\ attempts' = atts \cup {fresh}
         /\ UNCHANGED assignment
  BY DEF DrillReturns
<1>3. L.awaits \in Awaited
  BY <1>1 DEF Awaited
<1>4. Ended(a, Failed(a)) /\ Ended(a, atts)
  BY <1>3, AttemptEnds
<1>5. CASE /\ loop' = [loop EXCEPT ![a].awaits = "secondary"]
           /\ attempts' = atts \cup {fresh}
           /\ UNCHANGED assignment
  <2>1. LoopHolds(a) /\ L \in LoopRecord /\ loop \in [Assignments -> LoopRecord]
    BY KernelTypes DEF LoopsInvariant
  <2>2. /\ L.status = "drill" /\ L.turn \in 1..MaxIterations
        /\ L.worker \in Routes /\ L.verifier \in Routes
        /\ assignment[a].item \in Items
    BY <1>1, <1>3, <2>1 DEF LoopHolds, GoesOn
  <2>3. /\ M \in LoopRecord /\ M.awaits = "secondary" /\ M.status = "drill" /\ M.turn = L.turn
        /\ M.worker = L.worker /\ M.verifier = L.verifier
    BY <2>1, <2>2 DEF LoopRecord, Awaited
  <2>4. fresh \in AttemptRecord /\ fresh.by = a /\ fresh.status = "running"
    BY <2>2 DEF NewAttempt, AttemptRecord
  <2>5. loop' = [loop EXCEPT ![a] = M]
    BY <1>5, <2>1 DEF LoopRecord
  <2> HIDE DEF M, fresh, atts
  <2>6. /\ attempts' \subseteq AttemptRecord /\ IsFiniteSet(attempts') /\ atts \subseteq attempts'
        /\ \A t \in attempts' : t \in atts \/ t.status = "running"
    BY <1>4, <1>5, <2>4, FS_AddElement DEF Ended
  <2>7. WorkTypeOK' /\ LifecycleStep
    <3>1. LifecycleInvariant /\ crashes' \in Nat
      BY <1>1 DEF LoopsInvariant, LifecycleInvariant, WorkTypeOK
    <3> QED
      BY <1>1, <1>5, <3>1, NothingOfTheWork DEF Elsewhere
  <2>8. loop'[a] = M => LoopHolds(a)'
    <3>1. HasRunning(a)'
      BY <1>5, <2>4 DEF HasRunning
    <3> QED
      BY <1>5, <2>2, <2>3, <3>1 DEF LoopHolds, GoesOn, Tells, Awaited
  <2> QED
    BY <1>1, <1>4, <1>5, <2>3, <2>5, <2>6, <2>7, <2>2, <2>8, PlainStep
<1> QED
  BY <1>1, <1>2, <1>4, <1>5, OverwriteSteps

-----------------------------------------------------------------------------
(* Loops begin *)

TermsRecord == [independent: BOOLEAN, funded: BOOLEAN, budget: Nat, free: BOOLEAN]

\* A fresh identity has no loop yet, and every attempt there is is another's.
LEMMA FreshLoop ==
  ASSUME LoopsInvariant, NEW a \in FreshIds
  PROVE  a \in Assignments /\ loop[a] = NoLoop /\ Ended(a, attempts)
<1>1. a \in Assignments /\ assignment[a].item = None
  BY FreshIsUnused DEF NoAssignment
<1>2. loop[a] = NoLoop
  BY <1>1, WorkAssumption DEF LoopsInvariant, LoopHolds
<1> QED
  BY <1>1, <1>2, KernelTypes DEF Ended, LoopsInvariant

LEMMA FirstTurnIs ==
  ASSUME NEW terms \in TermsRecord, NEW r \in Routes, NEW v \in Routes \cup {None}
  PROVE  /\ FirstTurn(terms, r, v) \in LoopRecord
         /\ FirstTurn(terms, r, v).status = "running"
         /\ FirstTurn(terms, r, v).turn = 1 /\ 1 \in 1..MaxIterations
         /\ FirstTurn(terms, r, v).worker = r
         /\ FirstTurn(terms, r, v).verifier = v
         /\ FirstTurn(terms, r, v).terms = terms
<1>1. 1 \in 1..MaxIterations /\ 1 \in 0..MaxIterations
  BY AutonomyAssumption
<1>2. FirstTurn(terms, r, v) \in LoopRecord
  BY <1>1, NoLoopIsOne DEF FirstTurn, LoopRecord, TermsRecord
<1>3. NoLoop \in LoopRecord
  BY NoLoopIsOne
<1> QED
  BY <1>1, <1>2, <1>3 DEF FirstTurn, LoopRecord

\* What a new loop may be: over at once, or one of these terms that awaits its worker.
Begun(L, terms, workers) ==
  \/ L.terms = NoTerms
  \/ L.terms = terms /\ L.worker \in workers

LEMMA RunWorkItemSteps ==
  ASSUME LoopsInvariant, NEW a \in FreshIds, NEW w \in Items, NEW terms \in TermsRecord,
         NEW en \in SUBSET Routes, RunWorkItem(a, w, terms, en)
  PROVE  /\ LoopStep({a})
         /\ Begun(loop'[a], terms, Eligibles(en, "worker", terms, w, {}, {}, spend))
<1>1. a \in Assignments /\ loop[a] = NoLoop /\ Ended(a, attempts)
  BY FreshLoop
<1>2. crashes \in Nat /\ LifecycleInvariant /\ Eligible(w) /\ loop \in [Assignments -> LoopRecord]
  BY KernelTypes DEF RunWorkItem, LoopsInvariant, LifecycleInvariant, WorkTypeOK
<1>3. PICK r \in Eligibles(en, "worker", terms, w, {}, {}, spend) :
        LET verifiers == Eligibles(en, "verifier", terms, w, {}, GroupsBeside(terms, r), spend) IN
        IF verifiers = {} /\ terms.independent
        THEN /\ assignment' = [assignment EXCEPT ![a] = NewAssignment(w, "blocked")]
             /\ UNCHANGED <<loop, attempts, crashes>>
        ELSE \E v \in IF verifiers = {} THEN {None} ELSE verifiers, k \in StatementsOf(4) \ {0} :
               LET L == FirstTurn(terms, r, v)
                   begins == MayBegin(a, w, L, r, attempts, spend)
               IN /\ assignment' = [assignment EXCEPT ![a] = NewAssignment(w,
                       IF k = 1 THEN "created" ELSE IF k = 4 /\ ~begins THEN "failed" ELSE "running")]
                  /\ loop' = LoopsAfter(k < 4, IF k < 3 THEN loop ELSE [loop EXCEPT ![a] =
                       IF k = 3 THEN Over(L, "running", "lost")
                       ELSE IF begins THEN [L EXCEPT !.awaits = "worker"]
                       ELSE Over(L, "failed", "nothing")])
                  /\ attempts' = IF k = 4 /\ begins THEN attempts \cup {NewAttempt(a, L, "worker", r)}
                                 ELSE Surviving(k < 4, attempts)
                  /\ CarriesOut(k, 4)
  BY DEF RunWorkItem
<1> DEFINE verifiers == Eligibles(en, "verifier", terms, w, {}, GroupsBeside(terms, r), spend)
<1>4. /\ pack' = BasePack
      /\ UNCHANGED <<item, depends, specs, activation, evidence, brief, pending, cut>>
  BY DEF RunWorkItem, Elsewhere
<1>5. r \in Routes
  BY DEF Eligibles
<1>6. ASSUME NEW s \in AssignmentStatus, assignment' = [assignment EXCEPT ![a] = NewAssignment(w, s)],
             crashes' \in Nat
      PROVE  /\ WorkTypeOK' /\ LifecycleStep
             /\ assignment'[a].status = s /\ assignment'[a].item = w
             /\ \A b \in Assignments : b # a => assignment'[b] = assignment[b]
  <2>1. WorkTypeOK' /\ LifecycleStep
    BY <1>2, <1>4, <1>6, CreateSteps
  <2> QED
    BY <1>1, <1>2, <1>6, <2>1 DEF LifecycleInvariant, WorkTypeOK, NewAssignment
<1>7. CASE verifiers = {} /\ terms.independent
  <2>1. /\ assignment' = [assignment EXCEPT ![a] = NewAssignment(w, "blocked")]
        /\ UNCHANGED <<loop, attempts, crashes>>
    BY <1>3, <1>7
  <2>2. /\ WorkTypeOK' /\ LifecycleStep
        /\ \A b \in Assignments : b # a => assignment'[b] = assignment[b]
    BY <1>2, <1>6, <2>1 DEF AssignmentStatus
  <2>3. \A b \in Assignments : LoopKept(b)
    BY <1>1, <2>1, <2>2 DEF LoopKept, NoLoop
  <2>4. AttemptsStep
    BY <2>1, KernelTypes DEF AttemptsStep, LoopsInvariant
  <2> QED
    BY <1>1, <1>2, <2>1, <2>2, <2>3, <2>4 DEF LoopStep, Begun, NoLoop
<1>8. CASE ~(verifiers = {} /\ terms.independent)
  <2>1. PICK v \in IF verifiers = {} THEN {None} ELSE verifiers, k \in StatementsOf(4) \ {0} :
          LET L == FirstTurn(terms, r, v)
              begins == MayBegin(a, w, L, r, attempts, spend)
          IN /\ assignment' = [assignment EXCEPT ![a] = NewAssignment(w,
                  IF k = 1 THEN "created" ELSE IF k = 4 /\ ~begins THEN "failed" ELSE "running")]
             /\ loop' = LoopsAfter(k < 4, IF k < 3 THEN loop ELSE [loop EXCEPT ![a] =
                  IF k = 3 THEN Over(L, "running", "lost")
                  ELSE IF begins THEN [L EXCEPT !.awaits = "worker"]
                  ELSE Over(L, "failed", "nothing")])
             /\ attempts' = IF k = 4 /\ begins THEN attempts \cup {NewAttempt(a, L, "worker", r)}
                            ELSE Surviving(k < 4, attempts)
             /\ CarriesOut(k, 4)
    BY <1>3, <1>8
  <2> DEFINE killed == k < 4
             L == FirstTurn(terms, r, v)
             begins == MayBegin(a, w, L, r, attempts, spend)
             s == IF k = 1 THEN "created" ELSE IF k = 4 /\ ~begins THEN "failed" ELSE "running"
             new == NewAttempt(a, L, "worker", r)
  <2>2. /\ assignment' = [assignment EXCEPT ![a] = NewAssignment(w, s)]
        /\ loop' = LoopsAfter(killed, IF k < 3 THEN loop ELSE [loop EXCEPT ![a] =
             IF k = 3 THEN Over(L, "running", "lost")
             ELSE IF begins THEN [L EXCEPT !.awaits = "worker"]
             ELSE Over(L, "failed", "nothing")])
        /\ attempts' = IF k = 4 /\ begins THEN attempts \cup {new} ELSE Surviving(killed, attempts)
    BY <2>1
  <2>3. k \in 1..4 /\ crashes' \in Nat /\ crashes <= crashes' /\ killed \in BOOLEAN /\ (killed <=> k # 4)
    BY <1>2, <2>1, Statements DEF LifecycleInvariant, CarriesOut
  <2>4. v \in Routes \cup {None} /\ (terms.independent => v \in Routes /\ Group[r] # Group[v])
    BY <1>8, <2>1 DEF Eligibles, GroupsBeside
  <2>5. /\ L \in LoopRecord /\ L.status = "running" /\ L.turn = 1 /\ 1 \in 1..MaxIterations
        /\ L.worker = r /\ L.verifier = v /\ L.terms = terms
    BY <1>5, <2>4, FirstTurnIs
  <2>6. new \in AttemptRecord /\ new.by = a /\ new.status = "running"
    BY <1>1, <1>5, <2>5 DEF NewAttempt, AttemptRecord
  <2> HIDE DEF killed, L, begins, new
  <2>7. s \in AssignmentStatus
    BY DEF AssignmentStatus
  <2>8. /\ WorkTypeOK' /\ LifecycleStep
        /\ assignment'[a].status = s /\ assignment'[a].item = w
        /\ \A b \in Assignments : b # a => assignment'[b] = assignment[b]
    BY <1>6, <2>2, <2>3, <2>7
  <2>9. CASE k < 3
    <3>1. killed /\ loop' = LoopsAfter(killed, loop) /\ attempts' = Surviving(killed, attempts)
      BY <2>2, <2>3, <2>9
    <3>2. loop' \in [Assignments -> LoopRecord] /\ \A b \in Assignments : LoopKept(b)
      <4>1. \A b \in Assignments : loop[b].status # "none" => assignment'[b] = assignment[b]
        BY <1>1, <2>8 DEF NoLoop
      <4> QED
        BY <2>3, <3>1, <4>1, KilledLoops
    <3>3. AttemptsStep
      BY <2>3, <3>1, AttemptsSurvive
    <3>4. loop'[a] = NoLoop
      BY <1>1, <3>2 DEF LoopKept, NoLoop, Awaited
    <3> QED
      BY <2>3, <2>8, <3>2, <3>3, <3>4 DEF LoopStep, Begun, NoLoop
  <2>10. CASE k = 3
    <3> DEFINE M == Over(L, "running", "lost")
    <3>1. /\ killed
          /\ loop' = LoopsAfter(killed, [loop EXCEPT ![a] = M])
          /\ attempts' = Surviving(killed, attempts)
      BY <2>2, <2>3, <2>10
    <3>2. M \in LoopRecord /\ M.status = "running" /\ M.awaits = "lost" /\ M.terms = NoTerms
      BY <2>5, OverIsOne
    <3> HIDE DEF M
    <3>3. /\ loop' \in [Assignments -> LoopRecord]
          /\ loop'[a] = M
          /\ \A b \in Assignments : b # a => LoopKept(b)
      BY <1>1, <2>3, <2>8, <3>1, <3>2, OneLoop DEF Awaited
    <3>4. AttemptsStep
      BY <2>3, <3>1, AttemptsSurvive
    <3>5. LoopHolds(a)'
      BY <2>8, <2>10, <3>2, <3>3 DEF LoopHolds, GoesOn, Tells, Awaited
    <3> QED
      BY <2>3, <2>8, <3>2, <3>3, <3>4, <3>5 DEF LoopStep, Begun
  <2>11. CASE k = 4 /\ begins
    <3> DEFINE M == [L EXCEPT !.awaits = "worker"]
    <3>1. /\ ~killed
          /\ loop' = LoopsAfter(killed, [loop EXCEPT ![a] = M])
          /\ attempts' = attempts \cup {new}
      BY <2>2, <2>3, <2>11
    <3>2. /\ M \in LoopRecord /\ M.status = "running" /\ M.awaits = "worker"
          /\ M.turn = 1 /\ M.worker = r /\ M.verifier = v /\ M.terms = terms
      BY <2>5 DEF LoopRecord, Awaited
    <3> HIDE DEF M
    <3>3. /\ loop' \in [Assignments -> LoopRecord]
          /\ loop'[a] = M
          /\ \A b \in Assignments : b # a => LoopKept(b)
      BY <1>1, <2>3, <2>8, <3>1, <3>2, OneLoop
    <3>4. AttemptsStep
      BY <2>6, <3>1, FS_AddElement, KernelTypes DEF AttemptsStep, LoopsInvariant
    <3>5. LoopHolds(a)'
      <4>1. HasRunning(a)'
        BY <2>6, <3>1 DEF HasRunning
      <4>2. Independent(M)
        BY <2>4, <3>2 DEF Independent
      <4> QED
        BY <1>5, <2>5, <2>8, <2>11, <3>2, <3>3, <4>1, <4>2 DEF LoopHolds, GoesOn, Tells, Awaited
    <3> QED
      BY <2>3, <2>8, <3>2, <3>3, <3>4, <3>5 DEF LoopStep, Begun
  <2>12. CASE k = 4 /\ ~begins
    <3> DEFINE M == Over(L, "failed", "nothing")
    <3>1. /\ ~killed
          /\ loop' = LoopsAfter(killed, [loop EXCEPT ![a] = M])
          /\ attempts' = Surviving(killed, attempts)
      BY <2>2, <2>3, <2>12
    <3>2. M \in LoopRecord /\ M.status = "failed" /\ M.awaits = "nothing" /\ M.terms = NoTerms
      BY <2>5, OverIsOne
    <3> HIDE DEF M
    <3>3. AttemptsStep /\ attempts \subseteq attempts'
      BY <2>3, <3>1, AttemptsSurvive
    <3>4. /\ loop' \in [Assignments -> LoopRecord]
          /\ loop'[a] = M
          /\ \A b \in Assignments : b # a => LoopKept(b)
      BY <1>1, <2>3, <2>8, <3>1, <3>2, <3>3, OneLoop
    <3>5. LoopHolds(a)'
      BY <2>8, <2>12, <3>2, <3>4 DEF LoopHolds, GoesOn, Tells, Awaited
    <3> QED
      BY <2>3, <2>8, <3>2, <3>3, <3>4, <3>5 DEF LoopStep, Begun
  <2> QED
    BY <2>3, <2>9, <2>10, <2>11, <2>12
<1> QED
  BY <1>7, <1>8

LEMMA RunDrillSteps ==
  ASSUME LoopsInvariant, NEW a \in FreshIds, NEW w \in Items, NEW d \in Drills,
         RunPortabilityDrill(a, w, d[1], d[2])
  PROVE  LoopStep({a}) /\ loop'[a].terms.free = FALSE
<1> DEFINE p == d[1]
           v == d[2]
           L == [FirstTurn(DrillTerms(p, v), p, v) EXCEPT !.status = "drill"]
           M == [L EXCEPT !.awaits = "primary"]
           N == Over(L, "drill", "nothing")
           new == NewAttempt(a, L, "worker", p)
<1>1. a \in Assignments /\ loop[a] = NoLoop /\ Ended(a, attempts)
  BY FreshLoop
<1>2. p \in Routes /\ v \in Routes
  BY AutonomyAssumption
<1>3. /\ Eligible(w)
      /\ pack' = BasePack
      /\ UNCHANGED <<item, depends, specs, activation, evidence, brief, pending, cut, crashes>>
      /\ \/ /\ loop' = [loop EXCEPT ![a] = M]
            /\ attempts' = attempts \cup {new}
            /\ assignment' = [assignment EXCEPT ![a] = NewAssignment(w, "created")]
         \/ /\ loop' = [loop EXCEPT ![a] = N]
            /\ assignment' = [assignment EXCEPT ![a] = NewAssignment(w, "failed")]
            /\ UNCHANGED attempts
  BY DEF RunPortabilityDrill, Elsewhere
<1>4. DrillTerms(p, v) \in TermsRecord /\ DrillTerms(p, v).free = FALSE
  BY <1>2, AutonomyAssumption DEF DrillTerms, TermsRecord
<1> HIDE DEF p, v
<1>5. /\ L \in LoopRecord /\ L.status = "drill" /\ L.turn = 1 /\ 1 \in 1..MaxIterations
      /\ L.worker = p /\ L.verifier = v /\ L.terms.free = FALSE
  BY <1>2, <1>4, FirstTurnIs DEF LoopRecord
<1> HIDE DEF L
<1>6. /\ M \in LoopRecord /\ M.status = "drill" /\ M.awaits = "primary" /\ M.turn = 1
      /\ M.worker = p /\ M.verifier = v /\ M.terms.free = FALSE
  BY <1>5 DEF LoopRecord, Awaited
<1>7. N \in LoopRecord /\ N.status = "drill" /\ N.awaits = "nothing" /\ N.terms.free = FALSE
  BY <1>5, OverIsOne DEF NoTerms
<1>8. new \in AttemptRecord /\ new.by = a /\ new.status = "running"
  BY <1>1, <1>2, <1>5 DEF NewAttempt, AttemptRecord
<1> HIDE DEF M, N, new
<1>9. /\ WorkTypeOK' /\ LifecycleStep
      /\ assignment'[a].item = w
      /\ \A b \in Assignments : b # a => assignment'[b] = assignment[b]
  <2>1. PICK s \in {"created", "failed"} : assignment' = [assignment EXCEPT ![a] = NewAssignment(w, s)]
    BY <1>3
  <2>2. s \in AssignmentStatus /\ crashes' \in Nat /\ LifecycleInvariant
    BY <1>3 DEF AssignmentStatus, LoopsInvariant, LifecycleInvariant, WorkTypeOK
  <2>3. WorkTypeOK' /\ LifecycleStep
    BY <1>3, <2>1, <2>2, CreateSteps
  <2> QED
    BY <1>1, <2>1, <2>2, <2>3 DEF LifecycleInvariant, WorkTypeOK, NewAssignment
<1>10. attempts \subseteq AttemptRecord /\ IsFiniteSet(attempts)
  BY KernelTypes DEF LoopsInvariant
<1>11. CASE loop' = [loop EXCEPT ![a] = M] /\ attempts' = attempts \cup {new}
  <2>1. /\ attempts' \subseteq AttemptRecord /\ IsFiniteSet(attempts') /\ attempts \subseteq attempts'
        /\ \A t \in attempts' : t \in attempts \/ t.status = "running"
    BY <1>8, <1>10, <1>11, FS_AddElement
  <2>2. loop'[a] = M => LoopHolds(a)'
    <3>1. HasRunning(a)'
      BY <1>8, <1>11 DEF HasRunning
    <3> QED
      BY <1>2, <1>5, <1>6, <1>9, <3>1 DEF LoopHolds, GoesOn, Tells, Awaited
  <2>3. LoopStep({a})
    BY <1>1, <1>3, <1>6, <1>9, <1>11, <2>1, <2>2, PlainStep
  <2>4. loop'[a] = M
    BY <1>1, <1>11, KernelTypes DEF LoopsInvariant
  <2> QED
    BY <1>6, <2>3, <2>4
<1>12. CASE loop' = [loop EXCEPT ![a] = N] /\ UNCHANGED attempts
  <2>1. /\ attempts' \subseteq AttemptRecord /\ IsFiniteSet(attempts') /\ attempts \subseteq attempts'
        /\ \A t \in attempts' : t \in attempts \/ t.status = "running"
    BY <1>10, <1>12
  <2>2. loop'[a] = N => LoopHolds(a)'
    BY <1>7, <1>9 DEF LoopHolds, GoesOn, Tells, Awaited
  <2>3. LoopStep({a})
    BY <1>1, <1>3, <1>7, <1>9, <1>12, <2>1, <2>2, PlainStep
  <2>4. loop'[a] = N
    BY <1>1, <1>12, KernelTypes DEF LoopsInvariant
  <2> QED
    BY <1>7, <2>3, <2>4
<1> QED
  BY <1>3, <1>11, <1>12

-----------------------------------------------------------------------------
(* Everything else: loops are left alone, or killed *)

\* A step of the work, or none, that kills the process or does not.
LEMMA OtherSteps ==
  ASSUME LoopsInvariant, WorkTypeOK', LifecycleStep, crashes <= crashes',
         NEW killed \in BOOLEAN,
         loop' = LoopsAfter(killed, loop), attempts' = Surviving(killed, attempts),
         \A a \in Assignments :
           assignment'[a].status \in {"created", "running"} =>
             assignment'[a].status = assignment[a].status
  PROVE  LoopStep({})
<1>1. AttemptsStep /\ (killed \/ attempts \subseteq attempts')
  BY AttemptsSurvive
<1>2. loop' \in [Assignments -> LoopRecord] /\ \A a \in Assignments : LoopKept(a)
  BY <1>1, KilledLoops
<1> QED
  BY <1>1, <1>2 DEF LoopStep

LEMMA ApiSteps ==
  ASSUME LoopsInvariant, ApiStep
  PROVE  LoopStep({})
<1>1. /\ WorkStep
      /\ loop' = LoopsAfter(crashes' > crashes, loop)
      /\ attempts' = Surviving(crashes' > crashes, attempts)
  BY DEF ApiStep
<1>2. LifecycleInvariant /\ crashes \in Nat
  BY DEF LoopsInvariant, LifecycleInvariant, WorkTypeOK
<1>3. /\ WorkTypeOK' /\ LifecycleStep
      /\ crashes <= crashes'
      /\ \A a \in Assignments :
           assignment'[a].status \in {"created", "running"} =>
             assignment'[a].status = assignment[a].status
  <2>1. CASE EnsureInitialWorkGraph
    <3>1. UNCHANGED assignment /\ crashes' \in {crashes, crashes + 1}
      BY <2>1 DEF EnsureInitialWorkGraph, CarriesOut
    <3> QED
      BY <1>2, <2>1, <3>1, InitialGraphSteps
  <2>2. CASE \E w \in Items, s \in OperatorMoves : TransitionWorkItem(w, s)
    <3>1. PICK w \in Items, s \in OperatorMoves : TransitionWorkItem(w, s)
      BY <2>2
    <3>2. UNCHANGED <<assignment, crashes>>
      BY <3>1 DEF TransitionWorkItem
    <3> QED
      BY <1>2, <3>1, <3>2, TransitionSteps
  <2>3. CASE \E affected \in Impacts : ReviseProjectGoal(affected)
    <3>1. PICK affected \in Impacts : ReviseProjectGoal(affected)
      BY <2>3
    <3>2. crashes' \in {crashes, crashes + 1}
      BY <3>1 DEF ReviseProjectGoal
    <3>3. ASSUME NEW a \in Assignments, assignment'[a].status \in {"created", "running"}
          PROVE  assignment'[a].status = assignment[a].status
      <4>1. assignment \in [Assignments -> AssignmentRecord]
        BY <1>2 DEF LifecycleInvariant, WorkTypeOK, AssignmentRecord
      <4>2. \/ assignment'[a] = assignment[a]
            \/ assignment'[a] = [assignment[a] EXCEPT !.status = "superseded"]
        BY <3>1 DEF ReviseProjectGoal, Impact
      <4> QED
        BY <3>3, <4>1, <4>2 DEF AssignmentRecord
    <3> QED
      BY <1>2, <3>1, <3>2, <3>3, RevisionSteps
  <2> QED
    BY <1>1, <2>1, <2>2, <2>3 DEF WorkStep
<1> DEFINE killed == crashes' > crashes
<1>4. killed \in BOOLEAN
  OBVIOUS
<1>5. loop' = LoopsAfter(killed, loop) /\ attempts' = Surviving(killed, attempts)
  BY <1>1
<1> HIDE DEF killed
<1> QED
  BY <1>3, <1>4, <1>5, OtherSteps

LEMMA IdleSteps ==
  ASSUME LoopsInvariant, UNCHANGED <<workVars, loop, attempts>>
  PROVE  LoopStep({})
<1>1. LifecycleInvariant /\ crashes \in Nat /\ UNCHANGED <<assignment, crashes>>
  BY DEF LoopsInvariant, LifecycleInvariant, WorkTypeOK, workVars
<1>2. WorkTypeOK' /\ LifecycleStep
  BY <1>1, NothingOfTheWork DEF workVars
<1>3. \A a \in Assignments : LoopKept(a)
  BY <1>1 DEF LoopKept
<1>4. AttemptsStep /\ loop' \in [Assignments -> LoopRecord]
  BY KernelTypes DEF AttemptsStep, LoopsInvariant
<1> QED
  BY <1>1, <1>2, <1>3, <1>4 DEF LoopStep

\* A process killed over nothing but its loops.
LEMMA CrashSteps ==
  ASSUME LoopsInvariant, crashes' = crashes + 1,
         loop' = LoopsAfter(TRUE, loop), attempts' = Surviving(TRUE, attempts),
         UNCHANGED <<item, depends, specs, activation, assignment, evidence, brief, pending, pack, cut>>
  PROVE  LoopStep({})
<1>1. LifecycleInvariant /\ crashes \in Nat
  BY DEF LoopsInvariant, LifecycleInvariant, WorkTypeOK
<1>2. crashes' \in Nat /\ crashes <= crashes'
  BY <1>1
<1>3. WorkTypeOK' /\ LifecycleStep
  BY <1>1, <1>2, NothingOfTheWork
<1> QED
  BY <1>2, <1>3, OtherSteps

-----------------------------------------------------------------------------
(* Quota and spend *)

QuotaInvariant ==
  /\ accounted \subseteq {t \in attempts : t.status = "succeeded"}
  /\ quota \in [Buckets -> QuotaStatuses]
  /\ requests \in [Buckets -> Nat]
  /\ recounts \in 0..crashes
  /\ CountedOnce

\* Of SpendIsAccounted, all but the sum.
WithinApproval ==
  /\ spend.spent <= MaxAmount
  /\ crashes = 0 => \A t \in attempts :
       t.status = "succeeded" /\ t.route \in Metered => t.charged

FreeFirstInvariant == LoopsInvariant /\ QuotaInvariant /\ WithinApproval

LEMMA CrashesCount ==
  ASSUME LoopsInvariant, NEW new, LoopStep(new)
  PROVE  crashes \in Nat /\ crashes' \in Nat /\ crashes <= crashes'
  BY DEF LoopsInvariant, LifecycleInvariant, WorkTypeOK, LoopStep

LEMMA QuotaKept ==
  ASSUME FreeFirstInvariant, NEW new, LoopStep(new), UNCHANGED quotaVars
  PROVE  QuotaInvariant'
<1>1. crashes \in Nat /\ crashes' \in Nat /\ crashes <= crashes'
  BY CrashesCount DEF FreeFirstInvariant
<1>2. accounted' \subseteq {t \in attempts' : t.status = "succeeded"}
  BY DEF quotaVars, FreeFirstInvariant, QuotaInvariant, LoopStep, AttemptsStep
<1>3. CountedOnce'
  BY DEF quotaVars, FreeFirstInvariant, QuotaInvariant, CountedOnce
<1>4. recounts' \in 0..crashes'
  BY <1>1 DEF quotaVars, FreeFirstInvariant, QuotaInvariant
<1> QED
  BY <1>2, <1>3, <1>4 DEF quotaVars, FreeFirstInvariant, QuotaInvariant

\* The attempts of a bucket that are counted anew add up with those counted before.
LEMMA BucketAdds ==
  ASSUME NEW S, NEW T, IsFiniteSet(S), IsFiniteSet(T), S \cap T = {}, NEW b
  PROVE  /\ Cardinality(OfBucket(S, b)) \in Nat
         /\ Cardinality(OfBucket(T, b)) \in Nat
         /\ Cardinality(OfBucket(S \cup T, b)) = Cardinality(OfBucket(S, b)) + Cardinality(OfBucket(T, b))
<1>1. /\ OfBucket(S, b) \subseteq S /\ OfBucket(T, b) \subseteq T
      /\ OfBucket(S \cup T, b) = OfBucket(S, b) \cup OfBucket(T, b)
      /\ OfBucket(S, b) \cap OfBucket(T, b) = {}
  BY DEF OfBucket
<1>2. IsFiniteSet(OfBucket(S, b)) /\ IsFiniteSet(OfBucket(T, b))
  BY <1>1, FS_Subset
<1>3. Cardinality(OfBucket(S, b)) \in Nat /\ Cardinality(OfBucket(T, b)) \in Nat
  BY <1>2, FS_CardinalityType
<1>4. Cardinality(OfBucket(S, b) \cap OfBucket(T, b)) = 0
  BY <1>1, FS_EmptySet
<1>5. Cardinality(OfBucket(S, b) \cup OfBucket(T, b)) =
        Cardinality(OfBucket(S, b)) + Cardinality(OfBucket(T, b))
        - Cardinality(OfBucket(S, b) \cap OfBucket(T, b))
  BY <1>2, FS_Union
<1>6. Cardinality(OfBucket(S \cup T, b)) = Cardinality(OfBucket(S, b) \cup OfBucket(T, b))
  BY <1>1
<1> QED
  BY <1>3, <1>4, <1>5, <1>6

LEMMA SyncKeepsQuota ==
  ASSUME FreeFirstInvariant, NEW new, LoopStep(new),
         NEW atts \in {attempts, attempts'}, Synced(atts)
  PROVE  QuotaInvariant'
<1> DEFINE fresh == Unaccounted(atts, accounted)
<1> USE DEF FreeFirstInvariant
<1>1. crashes \in Nat /\ crashes' \in Nat /\ crashes <= crashes'
  BY CrashesCount
<1>2. /\ requests' = CountedWith(fresh)
      /\ quota' \in Snapshots(fresh, requests')
      /\ accounted' = accounted \cup fresh
      /\ UNCHANGED recounts
  BY DEF Synced
<1>3. IsFiniteSet(attempts) /\ IsFiniteSet(atts)
  BY DEF LoopsInvariant, LoopStep, AttemptsStep
<1>4. fresh \subseteq atts /\ accounted \cap fresh = {} /\ \A t \in fresh : t.status = "succeeded"
  BY DEF Unaccounted
<1>5. IsFiniteSet(fresh) /\ IsFiniteSet(accounted)
  BY <1>3, <1>4, FS_Subset DEF QuotaInvariant
<1> HIDE DEF fresh
<1>6. accounted' \subseteq {t \in attempts' : t.status = "succeeded"}
  BY <1>2, <1>4 DEF QuotaInvariant, LoopStep, AttemptsStep
<1>7. ASSUME NEW b \in Buckets
      PROVE  /\ requests'[b] \in Nat
             /\ requests'[b] >= Cardinality(OfBucket(accounted', b))
             /\ requests'[b] <= Cardinality(OfBucket(accounted', b)) + recounts'
  <2>1. requests'[b] = requests[b] + Cardinality(OfBucket(fresh, b))
    BY <1>2 DEF CountedWith
  <2>2. /\ Cardinality(OfBucket(accounted, b)) \in Nat
        /\ Cardinality(OfBucket(fresh, b)) \in Nat
        /\ Cardinality(OfBucket(accounted', b)) =
             Cardinality(OfBucket(accounted, b)) + Cardinality(OfBucket(fresh, b))
    <3>1. /\ Cardinality(OfBucket(accounted, b)) \in Nat
          /\ Cardinality(OfBucket(fresh, b)) \in Nat
          /\ Cardinality(OfBucket(accounted \cup fresh, b)) =
               Cardinality(OfBucket(accounted, b)) + Cardinality(OfBucket(fresh, b))
      BY <1>4, <1>5, BucketAdds
    <3> QED
      BY <1>2, <3>1
  <2>3. /\ requests[b] \in Nat
        /\ requests[b] >= Cardinality(OfBucket(accounted, b))
        /\ requests[b] <= Cardinality(OfBucket(accounted, b)) + recounts
        /\ recounts' = recounts /\ recounts \in Nat
    BY <1>2 DEF QuotaInvariant, CountedOnce
  <2> QED
    BY <2>1, <2>2, <2>3
<1>8. requests' \in [Buckets -> Nat]
  BY <1>2, <1>7 DEF CountedWith
<1>9. CountedOnce'
  BY <1>7 DEF CountedOnce
<1>10. quota' \in [Buckets -> QuotaStatuses]
  BY <1>2 DEF Snapshots
<1>11. recounts' \in 0..crashes'
  BY <1>1, <1>2 DEF QuotaInvariant
<1> QED
  BY <1>6, <1>8, <1>9, <1>10, <1>11 DEF QuotaInvariant

LEMMA KilledSyncKeepsQuota ==
  ASSUME FreeFirstInvariant, KilledInSync
  PROVE  LoopStep({}) /\ QuotaInvariant'
<1> USE DEF FreeFirstInvariant
<1>1. PICK t \in Unaccounted(attempts, accounted) :
        requests' = CountedWith({t}) /\ quota' \in Snapshots({t}, requests')
  BY DEF KilledInSync
<1>2. /\ crashes' = crashes + 1
      /\ recounts' = recounts + 1
      /\ UNCHANGED accounted
  BY DEF KilledInSync
<1>3. LoopStep({})
  BY CrashSteps DEF KilledInSync
<1>4. crashes \in Nat
  BY <1>3, CrashesCount
<1>5. IsFiniteSet(accounted) /\ IsFiniteSet({t}) /\ accounted \cap {t} = {}
  BY FS_Subset, FS_Singleton DEF QuotaInvariant, LoopsInvariant, Unaccounted
<1>6. accounted' \subseteq {u \in attempts' : u.status = "succeeded"}
  BY <1>2, <1>3 DEF QuotaInvariant, LoopStep, AttemptsStep
<1>7. ASSUME NEW b \in Buckets
      PROVE  /\ requests'[b] \in Nat
             /\ requests'[b] >= Cardinality(OfBucket(accounted', b))
             /\ requests'[b] <= Cardinality(OfBucket(accounted', b)) + recounts'
  <2>1. requests'[b] = requests[b] + Cardinality(OfBucket({t}, b))
    BY <1>1 DEF CountedWith
  <2>2. Cardinality(OfBucket({t}, b)) \in {0, 1}
    <3>1. OfBucket({t}, b) = {} \/ OfBucket({t}, b) = {t}
      BY DEF OfBucket
    <3> QED
      BY <3>1, FS_EmptySet, FS_Singleton
  <2>3. Cardinality(OfBucket(accounted, b)) \in Nat
    BY <1>5, BucketAdds
  <2>4. /\ requests[b] \in Nat
        /\ requests[b] >= Cardinality(OfBucket(accounted, b))
        /\ requests[b] <= Cardinality(OfBucket(accounted, b)) + recounts
        /\ recounts \in Nat
    BY DEF QuotaInvariant, CountedOnce
  <2> QED
    BY <1>2, <2>1, <2>2, <2>3, <2>4
<1>8. requests' \in [Buckets -> Nat]
  BY <1>1, <1>7 DEF CountedWith
<1>9. CountedOnce'
  BY <1>7 DEF CountedOnce
<1>10. quota' \in [Buckets -> QuotaStatuses]
  BY <1>1 DEF Snapshots
<1>11. recounts' \in 0..crashes'
  BY <1>2, <1>4 DEF QuotaInvariant
<1> QED
  BY <1>3, <1>6, <1>8, <1>9, <1>10, <1>11 DEF QuotaInvariant

\* An amount that is affordable is spent within what was approved.
LEMMA SpentWithin ==
  ASSUME spend \in SpendRecord, NEW amount \in Nat, Affords(spend, amount)
  PROVE  Spent(spend, amount) \in SpendRecord /\ Spent(spend, amount).spent <= MaxAmount
<1>1. MaxAmount - spend.spent >= amount /\ MaxAmount \in Nat /\ spend.spent \in Nat
  BY AutonomyAssumption DEF Affords, SpendRecord
<1>2. spend.spent + amount \in Nat /\ spend.spent + amount <= MaxAmount
  BY <1>1
<1> DEFINE left == IF spend.spent + amount >= MaxAmount THEN "exhausted" ELSE spend.envelope
<1>3. left \in {"none", "approved", "exhausted"}
  BY DEF SpendRecord
<1>4. Spent(spend, amount) = [spend EXCEPT !.spent = spend.spent + amount, !.envelope = left]
  BY DEF Spent, SpendRecord
<1> HIDE DEF left
<1> QED
  BY <1>2, <1>3, <1>4 DEF SpendRecord

\* What is charged was affordable.
LEMMA ChargeKeeps ==
  ASSUME spend \in SpendRecord, spend.spent <= MaxAmount, NEW terms, NEW w, NEW r \in Routes,
         Chargeable(terms, w, r, spend), spend' = SpendAfter(r, spend)
  PROVE  spend' \in SpendRecord /\ spend'.spent <= MaxAmount
<1>1. Estimate[r] \in Nat /\ MaxAmount \in Nat
  BY AutonomyAssumption
<1>2. CASE r \in Metered
  <2>1. Affords(spend, Estimate[r])
    BY <1>2 DEF Chargeable, RouteAffordable
  <2>2. spend' = Spent(spend, Estimate[r])
    BY <1>2 DEF SpendAfter
  <2> QED
    BY <1>1, <2>1, <2>2, SpentWithin
<1>3. CASE r \notin Metered
  BY <1>3 DEF SpendAfter
<1> QED
  BY <1>2, <1>3

LEMMA SpendStepKeeps ==
  ASSUME FreeFirstInvariant, SpendStep
  PROVE  /\ spend' \in SpendRecord /\ spend'.spent <= MaxAmount
         /\ UNCHANGED <<workVars, loop, attempts, enabled, quotaVars>>
<1>1. /\ spend \in SpendRecord /\ spend.spent <= MaxAmount
      /\ brief \in Nat /\ item \in [Items -> [status: ItemStatus, version: Nat]]
  BY KernelTypes DEF FreeFirstInvariant, LoopsInvariant, WithinApproval, SpendRecord,
     LifecycleInvariant, WorkTypeOK
<1>2. CASE \E w \in Items : RequestSpend(w)
  <2>1. PICK w \in Items : RequestSpend(w)
    BY <1>2
  <2>2. spend' = [spend EXCEPT !.request = "requested", !.approval = "requested", !.item = w,
                               !.version = item[w].version, !.brief = brief]
    BY <2>1 DEF RequestSpend
  <2>3. spend' \in SpendRecord /\ spend'.spent = spend.spent
    BY <1>1, <2>2 DEF SpendRecord
  <2> QED
    BY <1>1, <2>1, <2>3 DEF RequestSpend, SpendStep
<1>3. CASE \E decision \in {"approved", "rejected"} :
             ResolveApproval(decision) \/ ResolveSpendRequest(decision)
  <2>1. PICK decision \in {"approved", "rejected"} :
          ResolveApproval(decision) \/ ResolveSpendRequest(decision)
    BY <1>3
  <2>2. \/ spend' = [spend EXCEPT !.approval = decision]
        \/ spend' = [spend EXCEPT !.approval = decision, !.request = decision,
                                  !.envelope = IF decision = "approved" THEN "approved" ELSE @]
    BY <2>1 DEF ResolveApproval, ResolveSpendRequest
  <2>3. spend' \in SpendRecord /\ spend'.spent = spend.spent
    BY <1>1, <2>2 DEF SpendRecord
  <2> QED
    BY <1>1, <2>1, <2>3 DEF ResolveApproval, ResolveSpendRequest, SpendStep
<1>4. CASE \E amount \in Amounts : ExecuteMeteredAction(amount)
  <2>1. PICK amount \in Amounts : ExecuteMeteredAction(amount)
    BY <1>4
  <2>2. amount \in Nat /\ Affords(spend, amount)
    BY <2>1, AutonomyAssumption DEF ExecuteMeteredAction
  <2>3. Spent(spend, amount) \in SpendRecord /\ Spent(spend, amount).spent <= MaxAmount
    BY <1>1, <2>2, SpentWithin
  <2>4. spend' = [Spent(spend, amount) EXCEPT !.direct = @ + amount]
    BY <2>1 DEF ExecuteMeteredAction
  <2>5. spend' \in SpendRecord /\ spend'.spent <= MaxAmount
    BY <2>2, <2>3, <2>4 DEF SpendRecord
  <2> QED
    BY <2>1, <2>5 DEF ExecuteMeteredAction, SpendStep
<1> QED
  BY <1>2, <1>3, <1>4 DEF SpendStep

-----------------------------------------------------------------------------
(* The broker's steps *)

\* Whatever a step does to loops, what has succeeded since was charged.
LEMMA ApprovalKept ==
  ASSUME FreeFirstInvariant, NEW new, LoopStep(new), spend'.spent <= MaxAmount
  PROVE  WithinApproval'
<1>1. crashes \in Nat /\ crashes' \in Nat /\ crashes <= crashes'
  BY CrashesCount DEF FreeFirstInvariant
<1>2. ASSUME crashes' = 0, NEW t \in attempts', t.status = "succeeded", t.route \in Metered
      PROVE  t.charged
  <2>1. crashes = 0 /\ ~(crashes < crashes')
    BY <1>1, <1>2
  <2>2. t \in attempts \/ (t.route \in Metered => t.charged)
    BY <1>2, <2>1 DEF LoopStep, AttemptsStep
  <2> QED
    BY <1>2, <2>1, <2>2 DEF FreeFirstInvariant, WithinApproval
<1> QED
  BY <1>2 DEF WithinApproval

\* What is left to show of a step, once it is one of the loops.
LEMMA StepKeeps ==
  ASSUME FreeFirstInvariant, NEW new, LoopStep(new), QuotaInvariant',
         spend' \in SpendRecord, spend'.spent <= MaxAmount, enabled' \in SUBSET Routes
  PROVE  FreeFirstInvariant'
<1>1. KernelTypeOK'
  BY DEF KernelTypeOK, LoopStep, AttemptsStep, LoopRecord, AttemptRecord, SpendRecord
<1>2. LoopsInvariant'
  BY <1>1, LoopsStay DEF FreeFirstInvariant
<1> QED
  BY <1>2, ApprovalKept DEF FreeFirstInvariant

\* The worker of a loop that begins under the broker's terms.
BegunWell(a) ==
  loop[a].status = "none" /\ loop'[a].terms.free =>
    quota'[Bucket[loop'[a].worker]] \notin {"reserved", "exhausted"}

LEMMA NoneBegins ==
  ASSUME FreeFirstInvariant, NEW new, LoopStep(new), NEW a \in Assignments, a \notin new
  PROVE  BegunWell(a)
<1> SUFFICES ASSUME loop[a].status = "none" PROVE loop'[a].terms.free = FALSE
  BY DEF BegunWell
<1>1. loop[a] = NoLoop /\ LoopKept(a)
  BY DEF FreeFirstInvariant, LoopsInvariant, LoopHolds, LoopStep
<1>2. loop'[a] = NoLoop
  BY <1>1 DEF LoopKept, NoLoop, Awaited
<1> QED
  BY <1>2 DEF NoLoop, NoTerms

LEMMA ReturnsKeep ==
  ASSUME FreeFirstInvariant, NEW a \in Assignments, Returns(a)
  PROVE  FreeFirstInvariant' /\ LoopStep({})
<1> USE DEF FreeFirstInvariant
<1>1. LoopStep({})
  BY WorkerSteps, VerifierSteps, DrillSteps DEF Returns
<1>2. QuotaInvariant'
  BY <1>1, SyncKeepsQuota, QuotaKept DEF Returns, FollowedBySync
<1>3. spend \in SpendRecord /\ spend.spent <= MaxAmount /\ enabled \subseteq Routes
  BY KernelTypes DEF LoopsInvariant, SpendRecord, WithinApproval
<1>4. loop[a].awaits \in Awaited /\ UNCHANGED enabled
  BY DEF Returns, WorkerReturns, VerifierReturns, DrillReturns, Awaited
<1>5. UNCHANGED spend \/ AttemptSucceeds(a, loop[a], assignment[a].item)
  BY DEF Returns, WorkerReturns, VerifierReturns, DrillReturns
<1>6. Running(a).route \in Routes
  BY <1>4, RunningIs DEF AttemptRecord
<1>7. spend' \in SpendRecord /\ spend'.spent <= MaxAmount
  BY <1>3, <1>5, <1>6, ChargeKeeps DEF AttemptSucceeds
<1> QED
  BY <1>1, <1>2, <1>3, <1>4, <1>7, StepKeeps

LEMMA StartsKeep ==
  ASSUME FreeFirstInvariant, LoopStarts
  PROVE  FreeFirstInvariant' /\ \A a \in Assignments : BegunWell(a)
<1> USE DEF FreeFirstInvariant
<1>1. PICK a \in FreshIds, w \in Items :
        \/ /\ \/ \E terms \in Terms : RunWorkItem(a, w, terms, enabled)
              \/ \E d \in Drills : RunPortabilityDrill(a, w, d[1], d[2])
           /\ UNCHANGED <<enabled, quotaVars>>
        \/ RunFreeFirstWorkItem(a, w)
  BY DEF LoopStarts
<1>2. spend \in SpendRecord /\ spend.spent <= MaxAmount /\ enabled \in SUBSET Routes
  BY KernelTypes DEF LoopsInvariant, SpendRecord, WithinApproval
<1>3. CASE \E terms \in Terms : RunWorkItem(a, w, terms, enabled) /\ UNCHANGED <<enabled, quotaVars>>
  <2>1. PICK terms \in Terms : RunWorkItem(a, w, terms, enabled) /\ UNCHANGED <<enabled, quotaVars>>
    BY <1>3
  <2>2. terms \in TermsRecord /\ terms.free = FALSE
    BY AutonomyAssumption DEF TermsRecord
  <2>3. /\ LoopStep({a})
        /\ Begun(loop'[a], terms, Eligibles(enabled, "worker", terms, w, {}, {}, spend))
    BY <1>2, <2>1, <2>2, RunWorkItemSteps
  <2>4. loop'[a].terms.free = FALSE
    BY <2>2, <2>3 DEF Begun, NoTerms
  <2>5. \A b \in Assignments : BegunWell(b)
    BY <2>3, <2>4, NoneBegins DEF BegunWell
  <2>6. UNCHANGED spend
    BY <2>1 DEF RunWorkItem
  <2> QED
    BY <1>2, <2>1, <2>3, <2>5, <2>6, QuotaKept, StepKeeps
<1>4. CASE \E d \in Drills : RunPortabilityDrill(a, w, d[1], d[2]) /\ UNCHANGED <<enabled, quotaVars>>
  <2>1. PICK d \in Drills : RunPortabilityDrill(a, w, d[1], d[2]) /\ UNCHANGED <<enabled, quotaVars>>
    BY <1>4
  <2>2. LoopStep({a}) /\ loop'[a].terms.free = FALSE
    BY <2>1, RunDrillSteps
  <2>3. \A b \in Assignments : BegunWell(b)
    BY <2>2, NoneBegins DEF BegunWell
  <2>4. UNCHANGED spend
    BY <2>1 DEF RunPortabilityDrill
  <2> QED
    BY <1>2, <2>1, <2>2, <2>3, <2>4, QuotaKept, StepKeeps
<1>5. CASE RunFreeFirstWorkItem(a, w)
  <2>1. /\ Synced(attempts)
        /\ enabled' = Applied(quota')
        /\ NoOtherFreeRoute(enabled')
        /\ RunWorkItem(a, w, FreeTerms, enabled')
    BY <1>5 DEF RunFreeFirstWorkItem
  <2>2. enabled' \in SUBSET Routes
    BY <1>2, <2>1, FreeFirstAssumption DEF Applied
  <2>3. FreeTerms \in TermsRecord
    BY DEF FreeTerms, TermsRecord
  <2> DEFINE workers == Eligibles(enabled', "worker", FreeTerms, w, {}, {}, spend)
  <2>4. LoopStep({a}) /\ Begun(loop'[a], FreeTerms, workers)
    BY <2>1, <2>2, <2>3, RunWorkItemSteps
  <2>5. ASSUME NEW r \in workers
        PROVE  quota'[Bucket[r]] \notin {"reserved", "exhausted"}
    <3>1. r \in enabled' /\ "worker" \in Serves[r] /\ r \notin Metered
      BY DEF Eligibles, RouteAffordable, FreeTerms
    <3>2. r \in FreeRoutes
      BY <2>1, <3>1 DEF NoOtherFreeRoute
    <3>3. Allowed(quota'[Bucket[r]], "verifier" \in Serves[r]) /\ "verifier" \notin Serves[r]
      BY <2>1, <3>1, <3>2, FreeFirstAssumption DEF Applied
    <3> QED
      BY <3>3 DEF Allowed
  <2>6. BegunWell(a)
    BY <2>4, <2>5 DEF Begun, BegunWell, NoTerms
  <2>7. \A b \in Assignments : BegunWell(b)
    BY <2>4, <2>6, NoneBegins
  <2>8. QuotaInvariant'
    BY <2>1, <2>4, SyncKeepsQuota
  <2>9. UNCHANGED spend
    BY <2>1 DEF RunWorkItem
  <2> QED
    BY <1>2, <2>2, <2>4, <2>7, <2>8, <2>9, StepKeeps
<1> QED
  BY <1>1, <1>3, <1>4, <1>5

\* Every step keeps the invariant, and begins no loop on reserved quota.
LEMMA NextKeeps ==
  ASSUME FreeFirstInvariant, [Next]_vars
  PROVE  FreeFirstInvariant' /\ \A a \in Assignments : BegunWell(a)
<1> USE DEF FreeFirstInvariant
<1>1. spend \in SpendRecord /\ spend.spent <= MaxAmount /\ enabled \in SUBSET Routes
  BY KernelTypes DEF LoopsInvariant, SpendRecord, WithinApproval
<1>2. ASSUME LoopStep({}), QuotaInvariant', UNCHANGED spend, enabled' \in SUBSET Routes
      PROVE  FreeFirstInvariant' /\ \A a \in Assignments : BegunWell(a)
  BY <1>1, <1>2, StepKeeps, NoneBegins
<1>3. CASE ApiStep
  <2>1. LoopStep({}) /\ UNCHANGED <<spend, enabled, quotaVars>>
    BY <1>3, ApiSteps DEF ApiStep
  <2> QED
    BY <1>1, <1>2, <2>1, QuotaKept
<1>4. CASE SpendStep
  <2>1. /\ spend' \in SpendRecord /\ spend'.spent <= MaxAmount
        /\ UNCHANGED <<workVars, loop, attempts, enabled, quotaVars>>
    BY <1>4, SpendStepKeeps
  <2>2. LoopStep({})
    BY <2>1, IdleSteps
  <2> QED
    BY <1>1, <2>1, <2>2, QuotaKept, StepKeeps, NoneBegins
<1>5. CASE LoopStarts
  BY <1>5, StartsKeep
<1>6. CASE \E a \in Assignments : Returns(a)
  BY <1>6, ReturnsKeep, NoneBegins
<1>7. CASE \E a \in Assignments : KilledBeforeCharge(a) /\ UNCHANGED quotaVars
  <2>1. LoopStep({}) /\ UNCHANGED <<spend, enabled, quotaVars>>
    BY <1>7, KilledBeforeChargeSteps DEF KilledBeforeCharge
  <2> QED
    BY <1>1, <1>2, <2>1, QuotaKept
<1>8. CASE SyncUsageFromAttempts
  <2>1. Synced(attempts) /\ UNCHANGED kernelVars
    BY <1>8 DEF SyncUsageFromAttempts
  <2>2. LoopStep({}) /\ UNCHANGED <<spend, enabled>>
    BY <2>1, IdleSteps DEF kernelVars
  <2> QED
    BY <1>1, <1>2, <2>1, <2>2, SyncKeepsQuota
<1>9. CASE KilledInSync
  <2>1. LoopStep({}) /\ QuotaInvariant' /\ UNCHANGED <<spend, enabled>>
    BY <1>9, KilledSyncKeepsQuota DEF KilledInSync
  <2> QED
    BY <1>1, <1>2, <2>1
<1>10. CASE ApplyPolicy \/ ProvisionFreeRoutes
  <2>1. UNCHANGED <<workVars, loop, attempts, spend, quotaVars>>
    BY <1>10 DEF ApplyPolicy, ProvisionFreeRoutes
  <2>2. enabled' \in SUBSET Routes
    BY <1>1, <1>10, FreeFirstAssumption DEF ApplyPolicy, ProvisionFreeRoutes, Applied
  <2>3. LoopStep({})
    BY <2>1, IdleSteps
  <2> QED
    BY <1>2, <2>1, <2>2, <2>3, QuotaKept
<1>11. CASE Crash
  <2>1. LoopStep({}) /\ UNCHANGED <<spend, enabled, quotaVars>>
    BY <1>11, CrashSteps DEF Crash
  <2> QED
    BY <1>1, <1>2, <2>1, QuotaKept
<1>12. CASE UNCHANGED vars
  <2>1. UNCHANGED <<workVars, loop, attempts, spend, enabled, quotaVars>>
    BY <1>12 DEF vars, kernelVars
  <2>2. LoopStep({})
    BY <2>1, IdleSteps
  <2> QED
    BY <1>1, <1>2, <2>1, <2>2, QuotaKept
<1> QED
  BY <1>3, <1>4, <1>5, <1>6, <1>7, <1>8, <1>9, <1>10, <1>11, <1>12 DEF Next

LEMMA InitHolds == Init => FreeFirstInvariant
<1> SUFFICES ASSUME Init PROVE FreeFirstInvariant
  OBVIOUS
<1>1. LifecycleInvariant /\ crashes = 0
  BY InitialLifecycle DEF Init, KernelInit, WorkInit
<1>2. /\ loop = [a \in Assignments |-> NoLoop] /\ attempts = {} /\ spend = NoSpend /\ enabled = Routes
      /\ accounted = {} /\ recounts = 0
      /\ quota = [b \in Buckets |-> "unknown"] /\ requests = [b \in Buckets |-> 0]
  BY DEF Init, KernelInit
<1>3. KernelTypeOK
  <2>1. NoSpend \in SpendRecord
    BY DEF NoSpend, SpendRecord
  <2> QED
    BY <1>1, <1>2, <2>1, NoLoopIsOne, KernelTypes DEF LifecycleInvariant, SpendRecord
<1>4. \A a \in Assignments : LoopHolds(a)
  BY <1>2 DEF LoopHolds, GoesOn, Tells, NoLoop, Awaited
<1>5. LoopsInvariant
  BY <1>1, <1>2, <1>3, <1>4, FS_EmptySet DEF LoopsInvariant
<1>6. QuotaInvariant
  <2>1. \A b \in Buckets : OfBucket(accounted, b) = {}
    BY <1>2 DEF OfBucket
  <2>2. CountedOnce
    BY <1>2, <2>1, FS_EmptySet DEF CountedOnce
  <2> QED
    BY <1>1, <1>2, <2>2 DEF QuotaInvariant, QuotaStatuses
<1>7. WithinApproval
  BY <1>2, AutonomyAssumption DEF WithinApproval, NoSpend
<1> QED
  BY <1>5, <1>6, <1>7 DEF FreeFirstInvariant

\* The inductive invariant of the kernel and the broker, from which the theorems follow.
THEOREM FreeFirstInvariantHolds == Spec => []FreeFirstInvariant
<1>1. FreeFirstInvariant /\ [Next]_vars => FreeFirstInvariant'
  BY NextKeeps
<1> QED
  BY <1>1, InitHolds, PTL DEF Spec

\* Every variable of the kernel and the broker keeps its type, with any number of kills.
THEOREM TypeCorrect == Spec => []TypeOK
<1>1. FreeFirstInvariant => TypeOK
  BY DEF FreeFirstInvariant, LoopsInvariant, QuotaInvariant, TypeOK
<1> QED
  BY <1>1, FreeFirstInvariantHolds, PTL

\* A loop that asks for independence never passes by a verifier of the worker's
\* group, through all replacements of verifiers - unless the worker was replaced.
IndependentUnlessReplaced ==
  \A a \in Assignments : loop[a].status = "passed" /\ loop[a].terms.independent =>
    Group[loop[a].worker] # Group[loop[a].verifier] \/ loop[a].failedWorkers # {}

\* Replacing verifiers keeps the independence that a loop asked for; only replacing the
\* worker can lose it, as runWorkItem decides it before.
THEOREM IndependenceLasts == Spec => []IndependentUnlessReplaced
<1>1. FreeFirstInvariant => IndependentUnlessReplaced
  BY DEF FreeFirstInvariant, LoopsInvariant, LoopHolds, Independent, IndependentUnlessReplaced
<1> QED
  BY <1>1, FreeFirstInvariantHolds, PTL

\* A loop's row agrees with its assignment, whatever the control plane or another loop
\* does while the loop awaits its provider.
THEOREM LoopsTell == Spec => []LoopTellsTheOutcome
<1>1. FreeFirstInvariant => LoopTellsTheOutcome
  BY DEF FreeFirstInvariant, LoopsInvariant, LoopHolds, Tells, LoopTellsTheOutcome
<1> QED
  BY <1>1, FreeFirstInvariantHolds, PTL

\* syncUsageFromAttempts counts an attempt twice only if it was killed over it.
THEOREM UsageCountedOnce == Spec => []CountedOnce
<1>1. FreeFirstInvariant => CountedOnce
  BY DEF FreeFirstInvariant, QuotaInvariant
<1> QED
  BY <1>1, FreeFirstInvariantHolds, PTL

\* Over every loop, replacement and metered action, what is spent stays within what the
\* operator approved, and without kills no metered success goes uncharged.
THEOREM SpendWithinApproval == Spec => []WithinApproval
<1>1. FreeFirstInvariant => WithinApproval
  BY DEF FreeFirstInvariant
<1> QED
  BY <1>1, FreeFirstInvariantHolds, PTL

\* runFreeFirstWorkItem never begins with a worker on the quota kept for verifiers.
THEOREM ReserveIsLeft == Spec => WorkersLeaveReserve
<1>1. FreeFirstInvariant /\ [Next]_vars =>
        [\A a \in Assignments :
           loop[a].status = "none" /\ loop'[a].terms.free =>
             quota'[Bucket[loop'[a].worker]] \notin {"reserved", "exhausted"}]_vars
  BY NextKeeps DEF BegunWell
<1> QED
  BY <1>1, FreeFirstInvariantHolds, PTL DEF Spec, WorkersLeaveReserve

\* Under the kernel's loops the lifecycle of the work promises what it does in Delivery.
THEOREM LifecycleKept ==
  Spec => [](CompletionIsVerified /\ OneActiveAssignment /\ DependenciesFirst /\ PackOfTheBrief)
<1>1. FreeFirstInvariant =>
        CompletionIsVerified /\ OneActiveAssignment /\ DependenciesFirst /\ PackOfTheBrief
  BY DEF FreeFirstInvariant, LoopsInvariant, LifecycleInvariant
<1> QED
  BY <1>1, FreeFirstInvariantHolds, PTL
=============================================================================
