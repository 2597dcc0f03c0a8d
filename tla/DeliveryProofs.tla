---------------------------- MODULE DeliveryProofs ----------------------------
(***************************************************************************)
(* Proofs about Delivery, for every plan, number of assignments and of     *)
(* local servers, and number of kills.                                     *)
(*                                                                         *)
(* Each action is a DeliveryStep: a LifecycleStep of the work, and a step   *)
(* of the servers and the workspace that keeps the latter's invariants.    *)
(***************************************************************************)
EXTENDS Delivery, WorkLifecycleProofs

ServerRecord ==
  [row: {"none", "running", "stopped", "failed"},
   child: {"none", "alive", "dying", "exited", "signaled"},
   step: {"none", "settled", "lost"} \cup Awaiting,
   by: Assignments \cup {None},
   flow: {"none", "passed", "failed", "thrown", "unready"}]

\* A server that is alive has its flow, which has not yet sent it SIGKILL.
Tended(r) ==
  /\ r.child = "alive" => r.step \in Awaiting \cup {"lost"}
  /\ r.step = "killing" => r.child # "alive"

\* A flow that awaits its server is that of an assignment.
Awaited == \A s \in Servers : server[s].step \in Awaiting =>
  server[s].by \in Assignments /\ assignment[server[s].by].item \in Items

DeliveryInvariant ==
  /\ TypeOK
  /\ LifecycleInvariant
  /\ SatisfiedIsVerified
  /\ \A s \in Servers : Tended(server[s])
  /\ Awaited
  /\ CleanedIsQuiet
  /\ workspace = "cleaned" => ~files

-----------------------------------------------------------------------------
(* What a step may do *)

\* An activation is satisfied only by an assignment that passes.
WorkPart ==
  /\ WorkTypeOK'
  /\ LifecycleStep
  /\ \A w \in Items : activation'[w] = "satisfied" =>
       \/ activation[w] = "satisfied"
       \/ \E a \in Assignments : assignment'[a].item = w /\ assignment'[a].verified = "passed"

RecordPart ==
  /\ made' \subseteq Assignments
  /\ typed' \subseteq Items
  /\ repairs' \in [Items -> 0..2]

PlacePart ==
  /\ delivered' \subseteq Nat
  /\ workspace' \in {"none", "prepared", "active", "cleaned"}
  /\ files' \in BOOLEAN
  /\ tested' \in BOOLEAN
  /\ workspace' = "cleaned" =>
       ~files' /\ (workspace = "cleaned" \/ \A s \in Servers : server'[s].step \notin Awaiting)

\* A flow goes on, or it is begun: with the workspace's files.
ServerPart ==
  /\ server' \in [Servers -> ServerRecord]
  /\ \A s \in Servers : Tended(server'[s])
  /\ \A s \in Servers : server'[s].step \in Awaiting =>
       \/ server[s].step \in Awaiting /\ server'[s].by = server[s].by
       \/ /\ files /\ UNCHANGED workspace
          /\ server'[s].by \in Assignments
          /\ assignment'[server'[s].by].item \in Items

LEMMA DeliveryPreserved ==
  ASSUME DeliveryInvariant, WorkPart, RecordPart, PlacePart, ServerPart
  PROVE  DeliveryInvariant'
<1>1. LifecycleInvariant'
  BY LifecyclePreserved DEF DeliveryInvariant, WorkPart
<1>2. TypeOK'
  BY DEF WorkPart, RecordPart, PlacePart, ServerPart, ServerRecord, TypeOK
<1>3. SatisfiedIsVerified'
  <2> SUFFICES ASSUME NEW w \in Items, activation'[w] = "satisfied"
               PROVE  \E a \in Assignments : assignment'[a].item = w /\ assignment'[a].verified = "passed"
    BY DEF SatisfiedIsVerified
  <2>1. CASE activation[w] = "satisfied"
    <3>1. PICK a \in Assignments : assignment[a].item = w /\ assignment[a].verified = "passed"
      BY <2>1 DEF DeliveryInvariant, SatisfiedIsVerified
    <3> QED
      BY <3>1, PassedStays DEF DeliveryInvariant, WorkPart
  <2> QED
    BY <2>1 DEF WorkPart
<1>4. Awaited'
  <2> SUFFICES ASSUME NEW s \in Servers, server'[s].step \in Awaiting
               PROVE  server'[s].by \in Assignments /\ assignment'[server'[s].by].item \in Items
    BY DEF Awaited
  <2>1. CASE server[s].step \in Awaiting /\ server'[s].by = server[s].by
    <3>1. server[s].by \in Assignments /\ assignment[server[s].by].item \in Items
      BY <2>1 DEF DeliveryInvariant, Awaited
    <3>2. ~Made(server[s].by)
      BY <3>1, WorkAssumption DEF Made
    <3>3. Kept(server[s].by)
      BY <3>1, <3>2 DEF WorkPart, LifecycleStep
    <3> QED
      BY <2>1, <3>1, <3>3 DEF Kept
  <2> QED
    BY <2>1 DEF ServerPart
<1>5. CleanedIsQuiet'
  BY DEF DeliveryInvariant, CleanedIsQuiet, PlacePart, ServerPart
<1>6. \A s \in Servers : Tended(server[s])'
  BY DEF ServerPart, Tended
<1>7. workspace' = "cleaned" => ~files'
  BY DEF PlacePart
<1> QED
  BY <1>1, <1>2, <1>3, <1>4, <1>5, <1>6, <1>7 DEF DeliveryInvariant

-----------------------------------------------------------------------------
(* The statements of a task *)

\* What Perform does to the assignment: it is new from the second statement on,
\* and verified from the eighth.
LEMMA PerformedAssignment ==
  ASSUME LifecycleInvariant,
         NEW a \in Assignments, NEW w \in Items, NEW passed \in BOOLEAN, NEW from \in {0, 5},
         NEW k \in Nat, NEW last \in Nat, Perform(a, w, passed, from, k, last)
  PROVE  LET base == IF Among(2, from, k) THEN NewAssignment(w, "created") ELSE assignment[a] IN
         /\ assignment'[a] \in AssignmentRecord
         /\ assignment' \in [Assignments -> AssignmentRecord]
         /\ \A b \in Assignments : b # a => Kept(b) /\ ~Made(b)
         /\ assignment'[a].item = base.item
         /\ assignment'[a].version = base.version
         /\ assignment'[a].verified =
              IF Among(8, from, k) THEN (IF passed THEN "passed" ELSE "failed") ELSE base.verified
         /\ assignment'[a].status = IF Among(6, from, k) THEN "execution_finished"
                                    ELSE IF Among(4, from, k) THEN "running" ELSE base.status
<1> DEFINE base == IF Among(2, from, k) THEN NewAssignment(w, "created") ELSE assignment[a]
           r == [base EXCEPT
                   !.status = IF Among(6, from, k) THEN "execution_finished"
                              ELSE IF Among(4, from, k) THEN "running" ELSE base.status,
                   !.verified = IF Among(8, from, k) THEN (IF passed THEN "passed" ELSE "failed")
                                ELSE base.verified]
<1>1. NewAssignment(w, "created") \in AssignmentRecord /\ assignment[a] \in AssignmentRecord
  BY DEF NewAssignment, AssignmentRecord, AssignmentStatus, LifecycleInvariant, WorkTypeOK
<1>2. base \in AssignmentRecord
  BY <1>1
<1>3. assignment' = [assignment EXCEPT ![a] = r]
  BY DEF Perform, LifecycleInvariant, WorkTypeOK
<1> HIDE DEF base
<1>4. /\ r \in AssignmentRecord
      /\ r.item = base.item /\ r.version = base.version
      /\ r.verified = IF Among(8, from, k) THEN (IF passed THEN "passed" ELSE "failed") ELSE base.verified
      /\ r.status = IF Among(6, from, k) THEN "execution_finished"
                    ELSE IF Among(4, from, k) THEN "running" ELSE base.status
  BY <1>2 DEF AssignmentRecord, AssignmentStatus
<1> HIDE DEF r
<1>5. /\ assignment'[a] = r
      /\ assignment' \in [Assignments -> AssignmentRecord]
      /\ \A b \in Assignments : b # a => Kept(b) /\ ~Made(b)
  BY <1>3, <1>4, OneAssignment
<1> QED
  BY <1>4, <1>5 DEF base

\* Its items: the task's own moves on with the eighth statement, and what is then
\* due becomes ready with the tenth.
LEMMA PerformedItems ==
  ASSUME LifecycleInvariant,
         NEW a \in Assignments, NEW w \in Items, NEW passed \in BOOLEAN, NEW from \in {0, 5},
         NEW k \in Nat, NEW last \in Nat, Perform(a, w, passed, from, k, last),
         Exists(w)
  PROVE  /\ item' \in [Items -> [status: ItemStatus, version: Nat]]
         /\ \A v \in Items : ~Exists(v) => item'[v] = item[v]
         /\ \A v \in Items : v # w => ItemMoves(v)
         /\ item'[w] = IF Among(8, from, k) THEN Moved(w, IF passed THEN "complete" ELSE "needs_attention")
                       ELSE item[w]
<1> DEFINE moves == Among(8, from, k)
           refreshes == passed /\ Among(10, from, k)
           s == IF passed THEN "complete" ELSE "needs_attention"
           verified == IF moves THEN [item EXCEPT ![w] = Moved(w, s)] ELSE item
<1>1. item' = IF refreshes THEN Refreshed(verified, Due(verified)) ELSE verified
  BY DEF Perform
<1>2. refreshes => moves
  BY DEF Among
<1>3. moves \in BOOLEAN /\ refreshes \in BOOLEAN /\ s \in {"complete", "needs_attention"}
  BY DEF Among
<1> HIDE DEF moves, refreshes, s
<1>4. /\ item' \in [Items -> [status: ItemStatus, version: Nat]]
      /\ \A v \in Items : ~Exists(v) => item'[v] = item[v]
      /\ \A v \in Items : v # w => ItemMoves(v)
      /\ item'[w] = IF moves THEN Moved(w, s) ELSE item[w]
  BY <1>1, <1>2, <1>3, CompletedItems
<1> QED
  BY <1>4 DEF moves, s

\* A task begins with an eligible item, or goes on with a current assignment.
MayPerform(a, w, from) ==
  \/ from = 0 /\ a \in FreshIds /\ Eligible(w)
  \/ /\ from = 5 /\ a \in Assignments
     /\ assignment[a].status \in {"running", "execution_finished"}
     /\ Current(a)
     /\ assignment[a].item = w

LEMMA PerformSteps ==
  ASSUME DeliveryInvariant,
         NEW a, NEW w \in Items, NEW passed \in BOOLEAN, NEW from \in {0, 5},
         NEW last \in {4, 9, 10}, NEW k \in StatementsOf(last),
         MayPerform(a, w, from), Perform(a, w, passed, from, k, last)
  PROVE  WorkPart /\ RecordPart
<1> USE DEF DeliveryInvariant
<1>1. a \in Assignments /\ k \in Nat /\ last \in Nat /\ crashes' \in Nat
  <2>1. a \in Assignments
    BY FreshIsUnused DEF MayPerform
  <2>2. CarriesOut(k, last)
    BY DEF Perform
  <2> QED
    BY <2>1, <2>2, Statements DEF LifecycleInvariant
<1>2. /\ Exists(w)
      /\ item[w].version \in Nat
      /\ from = 5 => assignment[a].verified = "unverified" /\ assignment[a].version = item[w].version
  BY DEF MayPerform, Eligible, Exists, Current, LifecycleInvariant, Bound, WorkTypeOK
<1>3. /\ item' \in [Items -> [status: ItemStatus, version: Nat]]
      /\ \A v \in Items : ~Exists(v) => item'[v] = item[v]
      /\ \A v \in Items : v # w => ItemMoves(v)
      /\ item'[w] = IF Among(8, from, k) THEN Moved(w, IF passed THEN "complete" ELSE "needs_attention")
                    ELSE item[w]
  BY <1>1, <1>2, PerformedItems
<1> DEFINE base == IF Among(2, from, k) THEN NewAssignment(w, "created") ELSE assignment[a]
<1>4. /\ assignment'[a] \in AssignmentRecord
      /\ assignment' \in [Assignments -> AssignmentRecord]
      /\ \A b \in Assignments : b # a => Kept(b) /\ ~Made(b)
      /\ assignment'[a].item = base.item
      /\ assignment'[a].version = base.version
      /\ assignment'[a].verified =
           IF Among(8, from, k) THEN (IF passed THEN "passed" ELSE "failed") ELSE base.verified
      /\ assignment'[a].status = IF Among(6, from, k) THEN "execution_finished"
                                 ELSE IF Among(4, from, k) THEN "running" ELSE base.status
  BY <1>1, PerformedAssignment
<1>5. Among(8, from, k) =>
        /\ Among(7, from, k)
        /\ base.item = w /\ base.version = item[w].version
  BY <1>1, <1>2 DEF Among, MayPerform, NewAssignment
<1>6. /\ pack' = IF Among(1, from, k) THEN Phase3Pack ELSE pack
      /\ made' = IF Among(2, from, k) THEN made \cup {a} ELSE made
      /\ evidence' = IF Among(7, from, k) THEN evidence \cup {w} ELSE evidence
      /\ typed' = IF Among(7, from, k) THEN typed \cup {w} ELSE typed
      /\ activation' = [activation EXCEPT ![w] = ActivationAfter(w, passed, from, k)]
      /\ repairs' = [repairs EXCEPT ![w] = IF Among(9, from, k) /\ ~passed THEN RepairsAfter(w) ELSE @]
      /\ UNCHANGED <<depends, specs, brief, pending, cut>>
  BY DEF Perform
<1>7. Among(8, from, k) => item'[w].version = item[w].version + 1 /\ item'[w].status # "absent"
  BY <1>3 DEF Moved
<1>8. ItemMoves(w)
  <2>1. CASE ~Among(8, from, k)
    BY <1>3, <2>1 DEF ItemMoves
  <2>2. CASE Among(8, from, k)
    BY <1>1, <1>2, <1>3, <1>4, <1>5, <1>6, <1>7, <2>2 DEF ItemMoves, Moved
  <2> QED
    BY <2>1, <2>2
<1>9. Kept(a) \/ Made(a)
  <2>1. CASE Among(2, from, k)
    <3>1. from = 0 /\ assignment[a] = NoAssignment /\ Eligible(w)
      BY <2>1, FreshIsUnused DEF Among, MayPerform
    <3> QED
      BY <1>4, <1>7, <2>1, <3>1 DEF Made, NewAssignment, NoAssignment
  <2>2. CASE ~Among(2, from, k) /\ from = 0
    <3>1. assignment'[a].status = assignment[a].status /\ assignment'[a].verified = assignment[a].verified
      BY <1>1, <1>4, <2>2 DEF Among
    <3> QED
      BY <1>4, <2>2, <3>1 DEF Kept, Active
  <2>3. CASE from = 5
    <3>1. base = assignment[a] /\ Current(a) /\ Active(a) /\ assignment[a].item = w
      BY <1>2, <2>3 DEF MayPerform, Among, Active
    <3> QED
      BY <1>4, <1>7, <3>1 DEF Kept
  <2> QED
    BY <2>1, <2>2, <2>3
<1>10. PackOfTheBrief' /\ pack' \in [kind: {"none", "base", "phase3"}, brief: Nat, current: BOOLEAN]
  BY <1>6 DEF Phase3Pack, PackOfTheBrief, LifecycleInvariant, WorkTypeOK
<1>11. LifecycleStep
  BY <1>3, <1>4, <1>6, <1>8, <1>9, <1>10 DEF LifecycleStep
<1>12. ActivationAfter(w, passed, from, k) \in {"none", "required", "active", "satisfied"}
  BY DEF ActivationAfter, LifecycleInvariant, WorkTypeOK
<1>13. WorkTypeOK'
  <2>1. activation' \in [Items -> {"none", "required", "active", "satisfied"}]
    BY <1>6, <1>12 DEF LifecycleInvariant, WorkTypeOK
  <2> QED
    BY <1>1, <1>3, <1>4, <1>6, <1>10, <2>1 DEF LifecycleInvariant, WorkTypeOK, AssignmentRecord
<1>14. ASSUME NEW v \in Items, activation'[v] = "satisfied"
       PROVE  \/ activation[v] = "satisfied"
              \/ \E b \in Assignments : assignment'[b].item = v /\ assignment'[b].verified = "passed"
  <2>1. CASE v # w
    BY <1>6, <1>14, <2>1 DEF LifecycleInvariant, WorkTypeOK
  <2>2. CASE v = w /\ Among(9, from, k) /\ passed
    <3>1. Among(8, from, k)
      BY <1>1, <2>2 DEF Among
    <3> QED
      BY <1>1, <1>4, <1>5, <2>2, <3>1
  <2>3. CASE v = w /\ ~(Among(9, from, k) /\ passed)
    BY <1>6, <1>14, <2>3 DEF ActivationAfter, LifecycleInvariant, WorkTypeOK
  <2> QED
    BY <2>1, <2>2, <2>3
<1>15. RecordPart
  <2>1. repairs' \in [Items -> 0..2]
    BY <1>6 DEF RepairsAfter, TypeOK
  <2> QED
    BY <1>1, <1>6, <2>1 DEF RecordPart, TypeOK
<1> QED
  BY <1>11, <1>13, <1>14, <1>15 DEF WorkPart

-----------------------------------------------------------------------------
(* Parts of steps that many actions share *)

LEMMA WorkStutters ==
  ASSUME DeliveryInvariant, UNCHANGED workVars
  PROVE  WorkPart
<1>1. UNCHANGED <<item, depends, specs, activation, assignment, evidence, brief, pending, pack, cut, crashes>>
  BY DEF workVars
<1>2. WorkTypeOK'
  BY <1>1 DEF DeliveryInvariant, LifecycleInvariant, WorkTypeOK
<1>3. LifecycleStep
  BY <1>1, QuietStep, UnchangedAssignments, UnchangedItems, UnchangedPack DEF DeliveryInvariant
<1> QED
  BY <1>1, <1>2, <1>3 DEF WorkPart

LEMMA RecordsStutter ==
  ASSUME DeliveryInvariant, UNCHANGED <<made, typed, repairs>>
  PROVE  RecordPart
  BY DEF RecordPart, DeliveryInvariant, TypeOK

LEMMA PlaceStutters ==
  ASSUME DeliveryInvariant, UNCHANGED <<delivered, workspace, files, tested>>
  PROVE  PlacePart
  BY DEF PlacePart, DeliveryInvariant, TypeOK

LEMMA ServersStutter ==
  ASSUME DeliveryInvariant, UNCHANGED server
  PROVE  ServerPart
  BY DEF ServerPart, DeliveryInvariant, TypeOK, ServerRecord

\* A process that is killed forgets its servers.
LEMMA ServersAfterPart ==
  ASSUME DeliveryInvariant, NEW killed \in BOOLEAN
  PROVE  /\ ServersAfter(killed) \in [Servers -> ServerRecord]
         /\ \A s \in Servers : Tended(ServersAfter(killed)[s])
         /\ \A s \in Servers : ServersAfter(killed)[s].step \in Awaiting =>
              ServersAfter(killed)[s] = server[s]
<1>1. ASSUME NEW s \in Servers
      PROVE  /\ ServersAfter(killed)[s] \in ServerRecord
             /\ Tended(ServersAfter(killed)[s])
             /\ ServersAfter(killed)[s].step \in Awaiting => ServersAfter(killed)[s] = server[s]
  <2>1. server[s] \in ServerRecord /\ Tended(server[s])
    BY DEF DeliveryInvariant, TypeOK, ServerRecord
  <2>2. CASE ServersAfter(killed)[s] = server[s]
    BY <2>1, <2>2
  <2>3. CASE ServersAfter(killed)[s] = [server[s] EXCEPT !.step = "lost"]
    BY <2>1, <2>3 DEF ServerRecord, Tended, Awaiting
  <2> QED
    BY <2>2, <2>3 DEF ServersAfter
<1> QED
  BY <1>1 DEF ServersAfter

LEMMA KillPart ==
  ASSUME DeliveryInvariant, NEW killed \in BOOLEAN, server' = ServersAfter(killed)
  PROVE  ServerPart
  BY ServersAfterPart DEF ServerPart

\* One server changes, with its flow begun or going on, or ended.
LEMMA OneServer ==
  ASSUME DeliveryInvariant, NEW s \in Servers, NEW r \in ServerRecord, Tended(r),
         server' = [server EXCEPT ![s] = r],
         r.step \in Awaiting =>
           \/ server[s].step \in Awaiting /\ r.by = server[s].by
           \/ /\ files /\ UNCHANGED workspace
              /\ r.by \in Assignments
              /\ assignment'[r.by].item \in Items
  PROVE  ServerPart
<1>1. server \in [Servers -> ServerRecord] /\ \A t \in Servers : Tended(server[t])
  BY DEF DeliveryInvariant, TypeOK, ServerRecord
<1>2. server'[s] = r /\ \A t \in Servers : t # s => server'[t] = server[t]
  BY <1>1
<1>3. server' \in [Servers -> ServerRecord]
  BY <1>1
<1> QED
  BY <1>1, <1>2, <1>3 DEF ServerPart

-----------------------------------------------------------------------------
(* The actions *)

LEMMA TaskSteps ==
  ASSUME DeliveryInvariant, NEW a \in FreshIds, NEW w \in Items,
         NEW possible \in BOOLEAN, NEW passed \in BOOLEAN, NEW k \in 0..10,
         Eligible(w), Task(a, w, possible, passed, k)
  PROVE  WorkPart /\ RecordPart /\ ServerPart
<1> DEFINE last == IF possible THEN Last(passed) ELSE 4
<1>1. /\ k \in StatementsOf(last)
      /\ Perform(a, w, passed, 0, k, last)
      /\ server' = ServersAfter(k < last)
  BY DEF Task
<1>2. last \in {4, 9, 10}
  BY DEF Last
<1>3. MayPerform(a, w, 0)
  BY DEF MayPerform
<1> HIDE DEF last
<1>4. WorkPart /\ RecordPart
  BY <1>1, <1>2, <1>3, PerformSteps
<1>5. (k < last) \in BOOLEAN
  OBVIOUS
<1> QED
  BY <1>1, <1>4, <1>5, KillPart

LEMMA AnyTaskSteps ==
  ASSUME DeliveryInvariant, NEW a \in FreshIds, NEW w \in Items,
         TextTask(a, w) \/ ImplementationTask(a, w) \/ CheckTask(a, w) \/ ReviewTask(a, w) \/ DeliveryTask(a, w)
  PROVE  DeliveryInvariant'
<1>1. /\ delivered \subseteq Nat /\ files \in BOOLEAN /\ tested \in BOOLEAN
      /\ workspace \in {"none", "prepared", "active", "cleaned"}
      /\ workspace = "cleaned" => ~files
      /\ brief \in Nat
  BY DEF DeliveryInvariant, TypeOK, LifecycleInvariant, WorkTypeOK
<1>2. CASE TextTask(a, w)
  <2>1. PICK k \in 0..10 :
          /\ Task(a, w, TRUE, TRUE, k)
          /\ workspace' = IF Role[w] = "execution_operator" /\ workspace = "none" /\ k >= 5
                          THEN "prepared" ELSE workspace
    BY <1>2 DEF TextTask
  <2>2. PlacePart
    BY <1>1, <1>2, <2>1 DEF PlacePart, TextTask
  <2> QED
    BY <1>2, <2>1, <2>2, TaskSteps, DeliveryPreserved DEF TextTask, CanBegin
<1>3. CASE ImplementationTask(a, w)
  <2>1. PICK k \in 0..10 :
          /\ Task(a, w, Writable, TRUE, k)
          /\ files' = (files \/ (Writable /\ k >= 5))
          /\ workspace' = IF Writable /\ k >= 5 THEN "active" ELSE workspace
    BY <1>3 DEF ImplementationTask
  <2>2. PlacePart
    BY <1>1, <1>3, <2>1 DEF PlacePart, ImplementationTask, Writable
  <2>3. Writable \in BOOLEAN
    BY DEF Writable
  <2>4. Eligible(w)
    BY <1>3 DEF ImplementationTask, CanBegin
  <2>5. WorkPart /\ RecordPart /\ ServerPart
    BY <2>1, <2>3, <2>4, TaskSteps
  <2> QED
    BY <2>2, <2>5, DeliveryPreserved
<1>4. CASE CheckTask(a, w)
  <2>1. PICK k \in 0..10, possible \in BOOLEAN, passed \in BOOLEAN :
          /\ Task(a, w, possible, passed, k)
          /\ tested' = (tested \/ (possible /\ passed /\ k >= 5))
    BY <1>4 DEF CheckTask
  <2>2. PlacePart
    BY <1>1, <1>4, <2>1 DEF PlacePart, CheckTask
  <2> QED
    BY <1>4, <2>1, <2>2, TaskSteps, DeliveryPreserved DEF CheckTask, CanBegin
<1>5. CASE ReviewTask(a, w)
  <2>1. PICK k \in 0..10 : Task(a, w, workspace # "none", ReviewPasses, k)
    BY <1>5 DEF ReviewTask
  <2>2. ReviewPasses \in BOOLEAN
    BY <1>1 DEF ReviewPasses
  <2>3. PlacePart
    BY <1>5, PlaceStutters DEF ReviewTask
  <2> QED
    BY <1>5, <2>1, <2>2, <2>3, TaskSteps, DeliveryPreserved DEF ReviewTask, CanBegin
<1>6. CASE DeliveryTask(a, w)
  <2> DEFINE possible == WithRole("independent_reviewer") \cap typed # {} /\ workspace # "none"
  <2>1. PICK k \in 0..10 :
          /\ Task(a, w, possible, TRUE, k)
          /\ delivered' = IF possible /\ k >= 5 THEN delivered \cup {brief} ELSE delivered
    BY <1>6 DEF DeliveryTask
  <2>2. PlacePart
    BY <1>1, <1>6, <2>1 DEF PlacePart, DeliveryTask
  <2> QED
    BY <1>6, <2>1, <2>2, TaskSteps, DeliveryPreserved DEF DeliveryTask, CanBegin
<1> QED
  BY <1>2, <1>3, <1>4, <1>5, <1>6

\* A flow that is begun has its assignment from the same step.
LEMMA FlowTaskSteps ==
  ASSUME DeliveryInvariant, NEW a \in FreshIds, NEW w \in Items, FlowTask(a, w)
  PROVE  DeliveryInvariant'
<1>1. PICK k \in StatementsOf(4), s \in Servers :
        /\ server[s] = NoServer
        /\ Perform(a, w, TRUE, 0, k, 4)
        /\ server' = IF k = 4 /\ files THEN [server EXCEPT ![s] = StartLocalServer(s, a)]
                     ELSE ServersAfter(k < 4)
  BY DEF FlowTask
<1>2. Eligible(w) /\ UNCHANGED <<delivered, workspace, files, tested>>
  BY DEF FlowTask, CanBegin
<1>3. WorkPart /\ RecordPart
  BY <1>1, <1>2, PerformSteps DEF MayPerform
<1>4. CASE k = 4 /\ files
  <2>1. a \in Assignments
    BY FreshIsUnused
  <2>2. assignment'[a].item = w
    <3>1. Among(2, 0, 4) /\ LifecycleInvariant /\ NewAssignment(w, "created").item = w
      BY DEF Among, NewAssignment, DeliveryInvariant
    <3>2. assignment'[a].item =
            (IF Among(2, 0, 4) THEN NewAssignment(w, "created") ELSE assignment[a]).item
      BY <1>1, <1>4, <2>1, <3>1, PerformedAssignment
    <3> QED
      BY <3>1, <3>2
  <2>3. StartLocalServer(s, a) \in ServerRecord /\ Tended(StartLocalServer(s, a))
    BY <2>1 DEF StartLocalServer, ServerRecord, Tended, Awaiting
  <2>4. StartLocalServer(s, a).by = a
    BY DEF StartLocalServer
  <2>5. ServerPart
    BY <1>1, <1>2, <1>4, <2>1, <2>2, <2>3, <2>4, OneServer
  <2> QED
    BY <1>2, <1>3, <2>5, PlaceStutters, DeliveryPreserved
<1>5. CASE ~(k = 4 /\ files)
  <2>1. (k < 4) \in BOOLEAN
    OBVIOUS
  <2> QED
    BY <1>1, <1>2, <1>3, <1>5, <2>1, KillPart, PlaceStutters, DeliveryPreserved
<1> QED
  BY <1>4, <1>5

\* What changes in a server and nowhere else.
LEMMA ServerStepSteps ==
  ASSUME DeliveryInvariant, NEW s \in Servers, NEW new \in ServerRecord, Tended(new),
         ServerStep(s, new), new.by = server[s].by,
         new.step \in Awaiting => server[s].step \in Awaiting
  PROVE  DeliveryInvariant'
<1>1. /\ server' = [server EXCEPT ![s] = new]
      /\ UNCHANGED <<workVars, made, typed, repairs, delivered, workspace, files, tested>>
  BY DEF ServerStep
<1>2. ServerPart
  BY <1>1, OneServer
<1> QED
  BY <1>1, <1>2, WorkStutters, RecordsStutter, PlaceStutters, DeliveryPreserved

LEMMA ServerSteps ==
  ASSUME DeliveryInvariant, NEW s \in Servers,
         ServerReady(s) \/ ServerEnds(s) \/ StopProcess(s) \/ Escalate(s)
  PROVE  DeliveryInvariant'
<1>1. server[s] \in ServerRecord /\ Tended(server[s])
  BY DEF DeliveryInvariant, TypeOK, ServerRecord
<1>2. CASE ServerReady(s)
  <2> DEFINE new == [server[s] EXCEPT !.step = "fetching"]
  <2>1. /\ new \in ServerRecord /\ Tended(new) /\ new.by = server[s].by
        /\ server[s].step \in Awaiting
    BY <1>1, <1>2 DEF ServerRecord, Tended, Awaiting, ServerReady
  <2> QED
    BY <1>2, <2>1, ServerStepSteps DEF ServerReady
<1>3. CASE ServerEnds(s)
  <2>1. PICK how \in {"exited", "signaled"} : ServerStep(s, [server[s] EXCEPT !.child = how])
    BY <1>3 DEF ServerEnds
  <2> DEFINE new == [server[s] EXCEPT !.child = how]
  <2>2. new \in ServerRecord /\ Tended(new) /\ new.by = server[s].by /\ new.step = server[s].step
    BY <1>1 DEF ServerRecord, Tended
  <2> QED
    BY <2>1, <2>2, ServerStepSteps
<1>4. CASE StopProcess(s)
  <2>1. PICK flow \in {"passed", "failed", "thrown", "unready"} :
          /\ server[s].step = (IF flow = "unready" THEN "starting" ELSE "fetching")
          /\ ServerStep(s, [server[s] EXCEPT !.step = "terminating", !.flow = flow])
    BY <1>4 DEF StopProcess
  <2> DEFINE new == [server[s] EXCEPT !.step = "terminating", !.flow = flow]
  <2>2. /\ new \in ServerRecord /\ Tended(new) /\ new.by = server[s].by
        /\ server[s].step \in Awaiting
    BY <1>1, <2>1 DEF ServerRecord, Tended, Awaiting
  <2> QED
    BY <2>1, <2>2, ServerStepSteps
<1>5. CASE Escalate(s)
  <2> DEFINE new == [server[s] EXCEPT !.step = "killing",
                       !.child = IF server[s].child = "alive" THEN "dying" ELSE server[s].child]
  <2>1. /\ new \in ServerRecord /\ Tended(new) /\ new.by = server[s].by
        /\ server[s].step \in Awaiting
    BY <1>1, <1>5 DEF ServerRecord, Tended, Awaiting, Escalate
  <2> QED
    BY <1>5, <2>1, ServerStepSteps DEF Escalate
<1> QED
  BY <1>2, <1>3, <1>4, <1>5

\* A server whose stop has ended is not alive any more.
LEMMA StoppedServer ==
  ASSUME DeliveryInvariant, NEW s \in Servers, StopEnds(s)
  PROVE  /\ Stopped(s) \in ServerRecord /\ Tended(Stopped(s))
         /\ Stopped(s).step \notin Awaiting
         /\ server[s].by \in Assignments
         /\ assignment[server[s].by].item \in Items
<1>1. server[s] \in ServerRecord /\ Tended(server[s]) /\ server[s].step \in Awaiting
  BY DEF DeliveryInvariant, TypeOK, ServerRecord, StopEnds, Awaiting
<1>2. server[s].child # "alive"
  BY <1>1 DEF StopEnds, Tended
<1>3. /\ Stopped(s) \in ServerRecord
      /\ Stopped(s).step = "settled" /\ Stopped(s).child = server[s].child
  BY <1>1 DEF Stopped, ServerRecord
<1> QED
  BY <1>1, <1>2, <1>3 DEF Tended, Awaiting, DeliveryInvariant, Awaited

LEMMA FlowThrowsSteps ==
  ASSUME DeliveryInvariant, NEW s \in Servers, FlowThrows(s)
  PROVE  DeliveryInvariant'
<1> DEFINE w == assignment[server[s].by].item
<1>1. /\ StopEnds(s)
      /\ server' = [server EXCEPT ![s] = Stopped(s)]
      /\ evidence' = evidence \/ evidence' = evidence \cup {w}
      /\ typed' = typed \/ typed' = typed \cup {w}
      /\ UNCHANGED <<item, depends, specs, activation, assignment, brief, pending, pack, cut, crashes,
                     made, repairs, delivered, workspace, files, tested>>
  BY DEF FlowThrows
<1>2. w \in Items
  BY <1>1, StoppedServer
<1>3. WorkPart
  <2>1. WorkTypeOK'
    BY <1>1, <1>2 DEF DeliveryInvariant, LifecycleInvariant, WorkTypeOK
  <2>2. LifecycleStep
    BY <1>1, QuietStep, UnchangedAssignments, UnchangedItems, UnchangedPack DEF DeliveryInvariant
  <2> QED
    BY <1>1, <2>1, <2>2 DEF WorkPart
<1>4. RecordPart
  BY <1>1, <1>2 DEF RecordPart, DeliveryInvariant, TypeOK
<1>5. ServerPart
  BY <1>1, StoppedServer, OneServer
<1> QED
  BY <1>1, <1>3, <1>4, <1>5, PlaceStutters, DeliveryPreserved

LEMMA FlowSettlesSteps ==
  ASSUME DeliveryInvariant, NEW s \in Servers, FlowSettles(s)
  PROVE  DeliveryInvariant'
<1> DEFINE a == server[s].by
           passed == server[s].flow = "passed"
           last == Last(passed)
<1>1. PICK k \in StatementsOf(last) :
        /\ Perform(a, assignment[a].item, passed, 5, k, last)
        /\ server' = [ServersAfter(k < last) EXCEPT ![s] = Stopped(s)]
  BY DEF FlowSettles
<1>2. /\ StopEnds(s)
      /\ assignment[a].status \in {"running", "execution_finished"}
      /\ Current(a)
      /\ UNCHANGED <<delivered, workspace, files, tested>>
  BY DEF FlowSettles
<1>3. a \in Assignments /\ assignment[a].item \in Items
  BY <1>2, StoppedServer
<1>4. last \in {4, 9, 10} /\ passed \in BOOLEAN /\ (k < last) \in BOOLEAN
  BY DEF Last
<1>5. MayPerform(a, assignment[a].item, 5)
  BY <1>2, <1>3 DEF MayPerform
<1> HIDE DEF last, passed
<1>6. WorkPart /\ RecordPart
  BY <1>1, <1>3, <1>4, <1>5, PerformSteps
<1>7. ServerPart
  <2> DEFINE after == ServersAfter(k < last)
  <2>1. /\ after \in [Servers -> ServerRecord]
        /\ \A t \in Servers : Tended(after[t])
        /\ \A t \in Servers : after[t].step \in Awaiting => after[t] = server[t]
    BY <1>4, ServersAfterPart
  <2>2. server' = [after EXCEPT ![s] = Stopped(s)]
    BY <1>1
  <2> HIDE DEF after
  <2>3. server'[s] = Stopped(s) /\ \A t \in Servers : t # s => server'[t] = after[t]
    BY <2>1, <2>2
  <2>4. server' \in [Servers -> ServerRecord]
    BY <1>2, <2>1, <2>2, StoppedServer
  <2> QED
    BY <1>2, <2>1, <2>3, <2>4, StoppedServer DEF ServerPart
<1> QED
  BY <1>2, <1>6, <1>7, PlaceStutters, DeliveryPreserved

LEMMA WorkspaceSteps ==
  ASSUME DeliveryInvariant, DeleteFile \/ Cleanup
  PROVE  DeliveryInvariant'
<1>1. UNCHANGED <<workVars, made, typed, repairs, delivered, tested, server>>
  BY DEF DeleteFile, Cleanup
<1>2. PlacePart
  <2>1. /\ delivered' \subseteq Nat /\ tested' \in BOOLEAN
        /\ workspace \in {"none", "prepared", "active", "cleaned"}
    BY <1>1 DEF DeliveryInvariant, TypeOK
  <2>2. CASE DeleteFile
    BY <2>1, <2>2 DEF DeleteFile, PlacePart
  <2>3. CASE Cleanup
    BY <1>1, <2>1, <2>3 DEF Cleanup, PlacePart
  <2> QED
    BY <2>2, <2>3
<1> QED
  BY <1>1, <1>2, WorkStutters, RecordsStutter, ServersStutter, DeliveryPreserved

LEMMA CrashSteps ==
  ASSUME DeliveryInvariant, Crash
  PROVE  DeliveryInvariant'
<1>1. /\ crashes' = crashes + 1
      /\ server' = ServersAfter(TRUE)
      /\ UNCHANGED <<item, depends, specs, activation, assignment, evidence, brief, pending, pack, cut,
                     made, typed, repairs, delivered, workspace, files, tested>>
  BY DEF Crash
<1>2. WorkTypeOK'
  BY <1>1 DEF DeliveryInvariant, LifecycleInvariant, WorkTypeOK
<1>3. LifecycleStep
  BY <1>1, QuietStep, UnchangedAssignments, UnchangedItems, UnchangedPack DEF DeliveryInvariant
<1>4. WorkPart
  BY <1>1, <1>2, <1>3 DEF WorkPart
<1> QED
  BY <1>1, <1>4, RecordsStutter, PlaceStutters, KillPart, DeliveryPreserved

\* The API satisfies no activation: a plan that is generated requires them all.
LEMMA ApiSteps ==
  ASSUME DeliveryInvariant, ApiStep
  PROVE  DeliveryInvariant'
<1>1. /\ WorkNext
      /\ server' = ServersAfter(crashes' > crashes)
      /\ UNCHANGED <<made, typed, repairs, delivered, workspace, files, tested>>
  BY DEF ApiStep
<1>2. WorkTypeOK' /\ LifecycleStep
  BY <1>1, WorkSteps DEF DeliveryInvariant
<1>3. \A w \in Items : activation'[w] = "satisfied" => activation[w] = "satisfied"
  <2>1. CASE EnsurePlan
    BY <2>1 DEF EnsurePlan
  <2>2. CASE UNCHANGED activation
    BY <2>2
  <2> QED
    BY <1>1, <2>1, <2>2 DEF WorkNext, EnsureInitialWorkGraph, RefreshDerivedReadiness,
       CreateContextSlice, GenerateProjectPack, TransitionWorkItem, CreateAssignment, StartAssignment,
       FinishAssignmentExecution, AddAssignmentEvidence, VerifyAssignment, ReviseProjectGoal
<1>4. WorkPart
  BY <1>2, <1>3 DEF WorkPart
<1>5. (crashes' > crashes) \in BOOLEAN
  OBVIOUS
<1> QED
  BY <1>1, <1>4, <1>5, RecordsStutter, PlaceStutters, KillPart, DeliveryPreserved

LEMMA TypedEvidenceSteps ==
  ASSUME DeliveryInvariant, NEW a \in Assignments, RecordTypedEvidence(a)
  PROVE  DeliveryInvariant'
<1>1. /\ HandedToApi(a) /\ AddAssignmentEvidence(a)
      /\ typed' = typed \cup {assignment[a].item}
      /\ UNCHANGED <<made, repairs, delivered, workspace, files, tested, server>>
  BY DEF RecordTypedEvidence
<1>2. WorkTypeOK' /\ LifecycleStep
  BY <1>1, EvidenceSteps DEF DeliveryInvariant
<1>3. WorkPart
  BY <1>1, <1>2 DEF WorkPart, AddAssignmentEvidence
<1>4. RecordPart
  BY <1>1, WorkAssumption DEF RecordPart, DeliveryInvariant, TypeOK, HandedToApi
<1> QED
  BY <1>1, <1>3, <1>4, PlaceStutters, ServersStutter, DeliveryPreserved

-----------------------------------------------------------------------------
(* The theorems *)

LEMMA InitialDelivery == Init => DeliveryInvariant
<1> SUFFICES ASSUME Init PROVE DeliveryInvariant
  OBVIOUS
<1>1. LifecycleInvariant
  BY InitialLifecycle DEF Init
<1>2. \A s \in Servers : server[s] = NoServer
  BY DEF Init
<1>3. NoServer.step \notin Awaiting /\ Tended(NoServer)
  BY DEF NoServer, Awaiting, Tended
<1>4. TypeOK
  <2>1. NoServer \in ServerRecord
    BY DEF NoServer, ServerRecord
  <2>2. server \in [Servers -> ServerRecord]
    BY <2>1 DEF Init
  <2>3. WorkTypeOK
    BY <1>1 DEF LifecycleInvariant
  <2>4. /\ made = {} /\ typed = {} /\ delivered = {}
        /\ workspace = "none" /\ files = FALSE /\ tested = FALSE
        /\ repairs = [w \in Items |-> 0]
    BY DEF Init
  <2>5. repairs \in [Items -> 0..2]
    BY <2>4
  <2> HIDE DEF Init
  <2> QED
    BY <2>2, <2>3, <2>4, <2>5 DEF TypeOK, ServerRecord
<1>5. SatisfiedIsVerified
  BY DEF Init, WorkInit, SatisfiedIsVerified
<1>6. Awaited /\ CleanedIsQuiet /\ \A s \in Servers : Tended(server[s])
  BY <1>2, <1>3 DEF Awaited, CleanedIsQuiet
<1> QED
  BY <1>1, <1>4, <1>5, <1>6 DEF DeliveryInvariant, Init

LEMMA NextPreserves ==
  ASSUME DeliveryInvariant, [Next]_vars
  PROVE  DeliveryInvariant'
<1>1. CASE UNCHANGED vars
  BY <1>1, WorkStutters, RecordsStutter, PlaceStutters, ServersStutter, DeliveryPreserved
  DEF vars, deliveryVars
<1>2. CASE ApiStep
  BY <1>2, ApiSteps
<1>3. CASE \E a \in Assignments : RecordTypedEvidence(a)
  BY <1>3, TypedEvidenceSteps
<1>4. CASE \E a \in FreshIds, w \in specs :
             TextTask(a, w) \/ ImplementationTask(a, w) \/ CheckTask(a, w) \/ FlowTask(a, w)
             \/ ReviewTask(a, w) \/ DeliveryTask(a, w)
  <2>1. specs \subseteq Items
    BY DEF DeliveryInvariant, LifecycleInvariant, WorkTypeOK
  <2> QED
    BY <1>4, <2>1, AnyTaskSteps, FlowTaskSteps
<1>5. CASE \E s \in Servers :
             ServerReady(s) \/ ServerEnds(s) \/ StopProcess(s) \/ Escalate(s)
             \/ FlowThrows(s) \/ FlowSettles(s)
  BY <1>5, ServerSteps, FlowThrowsSteps, FlowSettlesSteps
<1>6. CASE DeleteFile \/ Cleanup
  BY <1>6, WorkspaceSteps
<1>7. CASE Crash
  BY <1>7, CrashSteps
<1> QED
  BY <1>1, <1>2, <1>3, <1>4, <1>5, <1>6, <1>7 DEF Next

\* The inductive invariant of delivery, from which the theorems follow.
THEOREM DeliveryInvariantHolds == Spec => []DeliveryInvariant
<1>1. Init => DeliveryInvariant
  BY InitialDelivery
<1>2. DeliveryInvariant /\ [Next]_vars => DeliveryInvariant'
  BY NextPreserves
<1> QED
  BY <1>1, <1>2, PTL DEF Spec

\* Every variable of delivery keeps its type, with any number of kills.
THEOREM TypeCorrect == Spec => []TypeOK
<1>1. DeliveryInvariant => TypeOK
  BY DEF DeliveryInvariant
<1> QED
  BY <1>1, DeliveryInvariantHolds, PTL

\* An item is complete only by a passed verification of an assignment made for its
\* very version: verifyAssignment, completeAssignment and the local flow alike.
THEOREM CompletionVerified == Spec => []CompletionIsVerified
<1>1. DeliveryInvariant => CompletionIsVerified
  BY DEF DeliveryInvariant, LifecycleInvariant
<1> QED
  BY <1>1, DeliveryInvariantHolds, PTL

\* However phase 1's and phase 3's assignments interleave, one item has one at a time.
THEOREM OneAssignmentActive == Spec => []OneActiveAssignment
<1>1. DeliveryInvariant => OneActiveAssignment
  BY DEF DeliveryInvariant, LifecycleInvariant
<1> QED
  BY <1>1, DeliveryInvariantHolds, PTL

\* The comparison of versions in requireCurrentAssignment is all that finishing and
\* verifying need: while it holds, the item is still ready.
THEOREM VersionsWitness == Spec => []VersionWitnessesReady
<1>1. DeliveryInvariant => VersionWitnessesReady
  BY DEF DeliveryInvariant, LifecycleInvariant, Bound, VersionWitnessesReady, Current
<1> QED
  BY <1>1, DeliveryInvariantHolds, PTL

\* Unless a graph was generated by halves, nothing is worked on before what it depends on.
THEOREM DependenciesAreFirst == Spec => []DependenciesFirst
<1>1. DeliveryInvariant => DependenciesFirst
  BY DEF DeliveryInvariant, LifecycleInvariant
<1> QED
  BY <1>1, DeliveryInvariantHolds, PTL

\* The current pack is that of the accepted brief, or the brief's impact is pending.
THEOREM PackIsOfTheBrief == Spec => []PackOfTheBrief
<1>1. DeliveryInvariant => PackOfTheBrief
  BY DEF DeliveryInvariant, LifecycleInvariant
<1> QED
  BY <1>1, DeliveryInvariantHolds, PTL

\* An activation is satisfied only by an assignment that passed, killed in between or not.
THEOREM SatisfactionVerified == Spec => []SatisfiedIsVerified
<1>1. DeliveryInvariant => SatisfiedIsVerified
  BY DEF DeliveryInvariant
<1> QED
  BY <1>1, DeliveryInvariantHolds, PTL

\* No way of ending a local flow leaves its server alive, save a kill of the process.
THEOREM NoServerIsLeft == Spec => []NoServerLeft
<1>1. DeliveryInvariant => NoServerLeft
  BY DEF DeliveryInvariant, Tended, NoServerLeft
<1> QED
  BY <1>1, DeliveryInvariantHolds, PTL

\* A cleaned workspace has no server awaited in it, then or ever after.
THEOREM CleanedStaysQuiet == Spec => []CleanedIsQuiet
<1>1. DeliveryInvariant => CleanedIsQuiet
  BY DEF DeliveryInvariant
<1> QED
  BY <1>1, DeliveryInvariantHolds, PTL
=============================================================================
