------------------------- MODULE WorkLifecycleProofs -------------------------
(***************************************************************************)
(* Proofs about WorkLifecycle, for every set of items, graph, dependency   *)
(* relation and number of assignments.                                     *)
(*                                                                         *)
(* The actions of the lifecycle, and those of the modules that extend it,  *)
(* are LifecycleSteps: what each may do to items and assignments, however  *)
(* far a process that is killed over it has come.  A LifecycleStep keeps   *)
(* the LifecycleInvariant.                                                 *)
(***************************************************************************)
EXTENDS WorkLifecycle, SequenceTheorems, TLAPS

\* An assignment was made for an existing item and for a version the item had.  As
\* long as the item still has it, it is ready, and the assignment not verified.
Bound ==
  \A a \in Assignments : assignment[a].item \in Items =>
    LET w == assignment[a].item IN
    /\ Exists(w)
    /\ assignment[a].version <= item[w].version
    /\ assignment[a].version = item[w].version =>
         item[w].status = "ready" /\ assignment[a].verified = "unverified"

\* An item has its dependencies, unless a graph was generated by halves.
Wired == cut \/ \A w \in Items : Exists(w) => \A d \in DependsOn[w] : <<w, d>> \in depends

LifecycleInvariant ==
  /\ WorkTypeOK
  /\ Bound
  /\ Wired
  /\ CompletionIsVerified
  /\ OneActiveAssignment
  /\ DependenciesFirst
  /\ PackOfTheBrief

-----------------------------------------------------------------------------
(* What a step may do *)

\* An item stays, is created, or moves on to its next version.  It becomes complete
\* with evidence and by a passed assignment for the version it had.
ItemMoves(w) ==
  \/ item'[w] = item[w]
  \/ ~Exists(w) /\ item'[w] = NewItem(w)
  \/ /\ Exists(w)
     /\ item'[w].version = item[w].version + 1
     /\ item'[w].status # "absent"
     /\ item'[w].status = "complete" =>
          /\ w \in evidence'
          /\ \E a \in Assignments :
               /\ assignment'[a].item = w
               /\ assignment'[a].verified = "passed"
               /\ assignment'[a].version = item[w].version

\* An assignment stays with its item; it is verified only while it is current, and
\* its item then moves on.
Kept(a) ==
  /\ assignment'[a].item = assignment[a].item
  /\ assignment'[a].version = assignment[a].version
  /\ \/ assignment'[a].verified = assignment[a].verified
     \/ Current(a) /\ item'[assignment[a].item].version = item[assignment[a].item].version + 1
  /\ Active(a)' => Active(a)

\* An assignment is made for an eligible item, and may be verified in the same step.
Made(a) ==
  /\ assignment[a].item = None
  /\ assignment'[a].item \in Items
  /\ LET w == assignment'[a].item IN
     /\ Eligible(w)
     /\ assignment'[a].version = item[w].version
     /\ assignment'[a].verified = "unverified" \/ item'[w].version = item[w].version + 1

LifecycleStep ==
  /\ \A w \in Items : ItemMoves(w)
  /\ \A a \in Assignments : Kept(a) \/ Made(a)
  /\ \A a, b \in Assignments : Made(a) /\ Made(b) => a = b
  /\ evidence \subseteq evidence'
  /\ depends \subseteq depends'
  /\ cut => cut'
  /\ \A w \in Items : cut' \/ Exists(w) \/ item'[w] = item[w] \/
       \A d \in DependsOn[w] : <<w, d>> \in depends'
  /\ PackOfTheBrief'

-----------------------------------------------------------------------------
(* Such a step keeps the invariant *)

\* A verification stays, and an assignment that is not current never is again.
LEMMA VerifiedStays ==
  ASSUME LifecycleInvariant, LifecycleStep,
         NEW a \in Assignments, assignment[a].item \in Items, assignment[a].verified # "unverified"
  PROVE  assignment'[a].verified = assignment[a].verified
<1>1. ~Made(a)
  BY WorkAssumption DEF Made
<1>2. Kept(a)
  BY <1>1 DEF LifecycleStep
<1>3. ~Current(a)
  BY DEF LifecycleInvariant, Bound, Current
<1> QED
  BY <1>2, <1>3 DEF Kept

LEMMA StaleStays ==
  ASSUME LifecycleInvariant, WorkTypeOK', LifecycleStep,
         NEW a \in Assignments, assignment[a].item \in Items, ~Current(a)
  PROVE  ~Current(a)'
<1> DEFINE w == assignment[a].item
<1>1. Kept(a)
  BY WorkAssumption DEF Made, LifecycleStep
<1>2. item[w].version \in Nat /\ item'[w].version \in Nat /\ assignment[a].version \in Nat
  BY DEF LifecycleInvariant, WorkTypeOK
<1>3. /\ Exists(w)
      /\ assignment[a].version <= item[w].version
      /\ assignment[a].version # item[w].version
  BY DEF LifecycleInvariant, Bound, Current
<1>4. item'[w] = item[w] \/ item'[w].version = item[w].version + 1
  BY <1>3 DEF LifecycleStep, ItemMoves
<1>5. assignment'[a].version # item'[w].version /\ assignment'[a].item = w
  BY <1>1, <1>2, <1>3, <1>4 DEF Kept
<1> QED
  BY <1>5 DEF Current

\* A passed verification stays.
LEMMA PassedStays ==
  ASSUME LifecycleInvariant, LifecycleStep,
         NEW a \in Assignments, assignment[a].item \in Items, assignment[a].verified = "passed"
  PROVE  /\ assignment'[a].item = assignment[a].item
         /\ assignment'[a].version = assignment[a].version
         /\ assignment'[a].verified = "passed"
<1>1. ~Made(a)
  BY WorkAssumption DEF Made
<1>2. Kept(a)
  BY <1>1 DEF LifecycleStep
<1>3. ~Current(a)
  BY DEF LifecycleInvariant, Bound, Current
<1> QED
  BY <1>2, <1>3 DEF Kept

\* An item that has moved, or been created, was not current in the new version before.
LEMMA BoundStays ==
  ASSUME LifecycleInvariant, WorkTypeOK', LifecycleStep
  PROVE  Bound'
<1> SUFFICES ASSUME NEW a \in Assignments, assignment'[a].item \in Items
             PROVE  LET w == assignment'[a].item IN
                    /\ item'[w].status # "absent"
                    /\ assignment'[a].version <= item'[w].version
                    /\ assignment'[a].version = item'[w].version =>
                         item'[w].status = "ready" /\ assignment'[a].verified = "unverified"
  BY DEF Bound, Exists
<1> DEFINE w == assignment'[a].item
<1>1. /\ item[w].version \in Nat /\ item'[w].version \in Nat
      /\ assignment[a].version \in Nat /\ assignment'[a].version \in Nat
  BY DEF LifecycleInvariant, WorkTypeOK
<1>2. ItemMoves(w) /\ (Kept(a) \/ Made(a))
  BY DEF LifecycleStep
<1>3. CASE Kept(a)
  <2>1. /\ assignment[a].item = w
        /\ assignment'[a].version = assignment[a].version
        /\ \/ assignment'[a].verified = assignment[a].verified
           \/ item'[w].version = item[w].version + 1
    BY <1>3 DEF Kept
  <2>2. /\ Exists(w)
        /\ assignment[a].version <= item[w].version
        /\ assignment[a].version = item[w].version =>
             item[w].status = "ready" /\ assignment[a].verified = "unverified"
    BY <2>1 DEF LifecycleInvariant, Bound
  <2>3. CASE item'[w] = item[w]
    BY <1>1, <2>1, <2>2, <2>3 DEF Exists
  <2>4. CASE item'[w].version = item[w].version + 1 /\ item'[w].status # "absent"
    BY <1>1, <2>1, <2>2, <2>4
  <2> QED
    BY <1>2, <2>2, <2>3, <2>4 DEF ItemMoves
<1>4. CASE Made(a)
  <2>1. /\ item[w].status = "ready"
        /\ assignment'[a].version = item[w].version
        /\ \/ assignment'[a].verified = "unverified"
           \/ item'[w].version = item[w].version + 1
    BY <1>4 DEF Made, Eligible
  <2>2. CASE item'[w] = item[w]
    BY <1>1, <2>1, <2>2
  <2>3. CASE item'[w].version = item[w].version + 1 /\ item'[w].status # "absent"
    BY <1>1, <2>1, <2>3
  <2> QED
    BY <1>2, <2>1, <2>2, <2>3 DEF ItemMoves, Exists
<1> QED
  BY <1>2, <1>3, <1>4

LEMMA WiredStays ==
  ASSUME LifecycleInvariant, LifecycleStep
  PROVE  Wired'
<1> SUFFICES ASSUME ~cut', NEW w \in Items, Exists(w)', NEW d \in DependsOn[w]
             PROVE  <<w, d>> \in depends'
  BY DEF Wired
<1>1. CASE Exists(w)
  BY <1>1 DEF LifecycleInvariant, LifecycleStep, Wired
<1>2. CASE ~Exists(w)
  BY <1>2 DEF LifecycleStep, Exists
<1> QED
  BY <1>1, <1>2

LEMMA CompletionStays ==
  ASSUME LifecycleInvariant, WorkTypeOK', LifecycleStep
  PROVE  CompletionIsVerified'
<1> SUFFICES ASSUME NEW w \in Items, item'[w].status = "complete"
             PROVE  /\ w \in evidence'
                    /\ \E a \in Assignments :
                         /\ assignment'[a].item = w
                         /\ assignment'[a].verified = "passed"
                         /\ assignment'[a].version + 1 = item'[w].version
  BY DEF CompletionIsVerified
<1>1. ItemMoves(w)
  BY DEF LifecycleStep
<1>2. CASE item'[w] = item[w]
  <2>1. w \in evidence
    BY <1>2 DEF LifecycleInvariant, CompletionIsVerified
  <2>2. PICK a \in Assignments : /\ assignment[a].item = w
                                 /\ assignment[a].verified = "passed"
                                 /\ assignment[a].version + 1 = item[w].version
    BY <1>2 DEF LifecycleInvariant, CompletionIsVerified
  <2> QED
    BY <1>2, <2>1, <2>2, PassedStays DEF LifecycleStep
<1>3. CASE ~Exists(w) /\ item'[w] = NewItem(w)
  BY <1>3 DEF NewItem
<1> QED
  BY <1>1, <1>2, <1>3 DEF ItemMoves

LEMMA OneActiveStays ==
  ASSUME LifecycleInvariant, LifecycleStep
  PROVE  OneActiveAssignment'
<1> SUFFICES ASSUME NEW a \in Assignments, NEW b \in Assignments, Active(a)', Active(b)',
                    assignment'[a].item = assignment'[b].item
             PROVE  a = b
  BY DEF OneActiveAssignment
<1>1. (Kept(a) \/ Made(a)) /\ (Kept(b) \/ Made(b))
  BY DEF LifecycleStep
<1>2. CASE Kept(a) /\ Kept(b)
  BY <1>2 DEF Kept, LifecycleInvariant, OneActiveAssignment
<1>3. CASE Kept(a) /\ Made(b)
  BY <1>3 DEF Kept, Made, Eligible
<1>4. CASE Made(a) /\ Kept(b)
  BY <1>4 DEF Kept, Made, Eligible
<1>5. CASE Made(a) /\ Made(b)
  BY <1>5 DEF LifecycleStep
<1> QED
  BY <1>1, <1>2, <1>3, <1>4, <1>5

LEMMA DependenciesStay ==
  ASSUME LifecycleInvariant, LifecycleStep
  PROVE  DependenciesFirst'
<1> SUFFICES ASSUME ~cut', NEW a \in Assignments, assignment'[a].item \in Items,
                    NEW d \in DependsOn[assignment'[a].item]
             PROVE  \E b \in Assignments :
                      assignment'[b].item = d /\ assignment'[b].verified = "passed"
  BY DEF DependenciesFirst
<1> DEFINE w == assignment'[a].item
<1>1. d \in Items /\ ~cut
  BY WorkAssumption DEF LifecycleStep
<1>2. \E b \in Assignments : assignment[b].item = d /\ assignment[b].verified = "passed"
  <2>1. CASE Kept(a)
    BY <1>1, <2>1 DEF Kept, LifecycleInvariant, DependenciesFirst
  <2>2. CASE Made(a)
    <3>1. Exists(w) /\ DependenciesComplete(w)
      BY <2>2 DEF Made, Eligible, Exists
    <3>2. <<w, d>> \in depends
      BY <1>1, <3>1 DEF LifecycleInvariant, Wired
    <3>3. item[d].status = "complete"
      BY <1>1, <3>1, <3>2 DEF DependenciesComplete
    <3> QED
      BY <1>1, <3>3 DEF LifecycleInvariant, CompletionIsVerified
  <2> QED
    BY <2>1, <2>2 DEF LifecycleStep
<1> QED
  BY <1>1, <1>2, PassedStays

\* A step of the lifecycle keeps its invariant, whatever made it.
LEMMA LifecyclePreserved ==
  ASSUME LifecycleInvariant, WorkTypeOK', LifecycleStep
  PROVE  LifecycleInvariant'
<1>1. PackOfTheBrief'
  BY DEF LifecycleStep
<1> QED
  BY <1>1, BoundStays, WiredStays, CompletionStays, OneActiveStays, DependenciesStay
  DEF LifecycleInvariant

-----------------------------------------------------------------------------
(* The actions are such steps *)

LEMMA ItemStatusIs ==
  /\ ItemStatus = {"absent", "draft", "ready", "running", "waiting_external", "needs_attention",
                   "blocked", "failed", "complete", "stale", "canceled", "superseded"}
  /\ \A s \in ItemStatus : \A t \in Successors[s] :
       s # "absent" /\ t \in ItemStatus /\ t \notin {"absent", "complete"}
  BY DEF ItemStatus, Successors

\* Every number of statements is a natural number, and so is the number of kills after it.
LEMMA Statements ==
  ASSUME WorkTypeOK, NEW n \in Nat, NEW k \in StatementsOf(n)
  PROVE  /\ k \in Nat /\ k <= n
         /\ CarriesOut(k, n) => crashes' \in Nat
  BY WorkAssumption DEF StatementsOf, CarriesOut, WorkTypeOK

LEMMA InitialLifecycle == WorkInit => LifecycleInvariant
<1> SUFFICES ASSUME WorkInit PROVE LifecycleInvariant
  OBVIOUS
<1>1. WorkTypeOK
  BY ItemStatusIs DEF WorkInit, WorkTypeOK, NoAssignment, AssignmentStatus
<1>2. \A a \in Assignments : assignment[a].item \notin Items /\ ~Active(a)
  BY WorkAssumption DEF WorkInit, NoAssignment, Active
<1>3. \A w \in Items : ~Exists(w) /\ item[w].status # "complete"
  BY DEF WorkInit, Exists
<1>4. Bound /\ OneActiveAssignment /\ DependenciesFirst
  BY <1>2 DEF Bound, OneActiveAssignment, DependenciesFirst
<1>5. Wired /\ CompletionIsVerified
  BY <1>3 DEF Wired, CompletionIsVerified
<1>6. PackOfTheBrief
  BY DEF WorkInit, PackOfTheBrief
<1> QED
  BY <1>1, <1>4, <1>5, <1>6 DEF LifecycleInvariant

\* Items that only exist, move or stay, beside assignments that stay: what most steps do.
LEMMA QuietStep ==
  ASSUME \A a \in Assignments : Kept(a),
         \A w \in Items : ItemMoves(w),
         evidence \subseteq evidence', depends \subseteq depends', cut => cut',
         \A w \in Items : ~Exists(w) => item'[w] = item[w],
         PackOfTheBrief'
  PROVE  LifecycleStep
<1>1. \A a \in Assignments : ~Made(a)
  BY WorkAssumption DEF Made, Kept
<1> QED
  BY <1>1 DEF LifecycleStep

LEMMA UnchangedAssignments ==
  ASSUME UNCHANGED assignment
  PROVE  \A a \in Assignments : Kept(a)
  BY DEF Kept, Active

LEMMA UnchangedItems ==
  ASSUME UNCHANGED item
  PROVE  \A w \in Items : ItemMoves(w) /\ (~Exists(w) => item'[w] = item[w])
  BY DEF ItemMoves

LEMMA UnchangedPack ==
  ASSUME LifecycleInvariant, UNCHANGED <<pack, brief, pending>>
  PROVE  PackOfTheBrief'
  BY DEF LifecycleInvariant, PackOfTheBrief

\* An item that moves on without being completed.
LEMMA MovesOn ==
  ASSUME LifecycleInvariant, NEW w \in Items, NEW s \in ItemStatus \ {"absent", "complete"},
         Exists(w), item'[w] = Moved(w, s)
  PROVE  ItemMoves(w) /\ item'[w] \in [status: ItemStatus, version: Nat]
<1>1. item[w].version \in Nat
  BY DEF LifecycleInvariant, WorkTypeOK
<1> QED
  BY <1>1 DEF ItemMoves, Moved

\* The first graph: its items, and then their dependencies.
LEMMA InitialGraphSteps ==
  ASSUME LifecycleInvariant, EnsureInitialWorkGraph
  PROVE  WorkTypeOK' /\ LifecycleStep
<1> DEFINE n == Len(InitialGraph)
<1>1. n \in Nat /\ DOMAIN InitialGraph = 1..n /\ 2 * n \in Nat
  BY LenProperties, WorkAssumption
<1>2. PICK k \in StatementsOf(2 * n) :
        /\ item' = [w \in Items |-> IF w \in Reached(InitialGraph, 1, 1, k) THEN NewItem(w) ELSE item[w]]
        /\ depends' = depends \cup DependencyRows(Reached(InitialGraph, n + 1, 1, k))
        /\ cut' = (cut \/ k \in 1..(2 * n - 1))
        /\ CarriesOut(k, 2 * n)
  BY DEF EnsureInitialWorkGraph
<1>3. k \in Nat /\ k <= 2 * n /\ crashes' \in Nat
  BY <1>1, <1>2, Statements DEF LifecycleInvariant
<1>4. /\ \A w \in Items : ~Exists(w)
      /\ UNCHANGED <<specs, activation, assignment, evidence, brief, pending, pack>>
  BY DEF EnsureInitialWorkGraph
<1>5. WorkTypeOK'
  <2>1. \A w \in Items : NewItem(w) \in [status: ItemStatus, version: Nat]
    BY ItemStatusIs DEF NewItem
  <2>2. item' \in [Items -> [status: ItemStatus, version: Nat]]
    BY <1>2, <2>1 DEF LifecycleInvariant, WorkTypeOK
  <2>3. depends' \subseteq Items \X Items
    <3>1. Reached(InitialGraph, n + 1, 1, k) \subseteq Items
      BY DEF Reached
    <3>2. DependencyRows(Reached(InitialGraph, n + 1, 1, k)) \subseteq Items \X Items
      BY <3>1 DEF DependencyRows
    <3> QED
      BY <1>2, <3>2 DEF LifecycleInvariant, WorkTypeOK
  <2>4. cut' \in BOOLEAN
    BY <1>2
  <2> QED
    BY <1>3, <1>4, <2>2, <2>3, <2>4 DEF LifecycleInvariant, WorkTypeOK
<1>6. \A w \in Items : ItemMoves(w)
  BY <1>2, <1>4 DEF ItemMoves
<1>7. \A w \in Items : cut' \/ Exists(w) \/ item'[w] = item[w] \/
        \A d \in DependsOn[w] : <<w, d>> \in depends'
  <2> SUFFICES ASSUME NEW w \in Items, ~cut', item'[w] # item[w], NEW d \in DependsOn[w]
               PROVE  <<w, d>> \in depends'
    OBVIOUS
  <2>1. w \in Reached(InitialGraph, 1, 1, k)
    BY <1>2
  <2>2. PICK j \in DOMAIN InitialGraph : InitialGraph[j] = w /\ 1 + 1 * (j - 1) <= k
    BY <2>1 DEF Reached
  <2>3. k = 2 * n
    <3>1. k \notin 1..(2 * n - 1)
      BY <1>2
    <3>2. k >= 1
      BY <1>1, <1>3, <2>2
    <3> HIDE DEF n
    <3> QED
      BY <1>1, <1>3, <3>1, <3>2
  <2>4. n + 1 + 1 * (j - 1) <= k
    BY <1>1, <2>2, <2>3
  <2>5. w \in Reached(InitialGraph, n + 1, 1, k)
    BY <2>2, <2>4 DEF Reached
  <2>6. d \in Items
    BY WorkAssumption
  <2> QED
    BY <1>2, <2>5, <2>6 DEF DependencyRows
<1>8. \A a \in Assignments : Kept(a) /\ ~Made(a)
  BY <1>4, UnchangedAssignments, WorkAssumption DEF Made
<1>9. PackOfTheBrief'
  BY <1>4, UnchangedPack
<1> QED
  BY <1>2, <1>4, <1>5, <1>6, <1>7, <1>8, <1>9 DEF LifecycleStep

\* The plan's graph: the items of the first one are all superseded before the
\* first item is created.
LEMMA PlanSteps ==
  ASSUME LifecycleInvariant, EnsurePlan
  PROVE  WorkTypeOK' /\ LifecycleStep
<1> DEFINE i == Len(InitialGraph)
           n == Len(PlanGraph)
<1>1. /\ i \in Nat /\ DOMAIN InitialGraph = 1..i
      /\ n \in Nat /\ DOMAIN PlanGraph = 1..n
      /\ i + 4 * n \in Nat
  BY LenProperties, WorkAssumption
<1>2. PICK k \in StatementsOf(i + 4 * n) :
        /\ item' = [w \in Items |->
             IF Exists(w) /\ w \in Reached(InitialGraph, 1, 1, k) THEN Superseded(w)
             ELSE IF w \in Reached(PlanGraph, i + 1, 3, k) THEN NewItem(w)
             ELSE item[w]]
        /\ specs' = Reached(PlanGraph, i + 2, 3, k)
        /\ activation' = [w \in Items |->
             IF w \in Reached(PlanGraph, i + 3, 3, k) THEN "required" ELSE activation[w]]
        /\ depends' = depends \cup DependencyRows(Reached(PlanGraph, i + 3 * n + 1, 1, k))
        /\ cut' = (cut \/ k < i + 4 * n)
        /\ CarriesOut(k, i + 4 * n)
  BY DEF EnsurePlan
<1>3. k \in Nat /\ k <= i + 4 * n /\ crashes' \in Nat
  BY <1>1, <1>2, Statements DEF LifecycleInvariant
<1>4. /\ \A w \in Items : Exists(w) => \E j \in DOMAIN InitialGraph : InitialGraph[j] = w
      /\ UNCHANGED <<assignment, evidence, brief, pending, pack>>
  BY DEF EnsurePlan
<1>5. ASSUME NEW w \in Items
      PROVE  ItemMoves(w) /\ item'[w] \in [status: ItemStatus, version: Nat]
  <2>1. item[w] \in [status: ItemStatus, version: Nat]
    BY DEF LifecycleInvariant, WorkTypeOK
  <2>2. CASE Exists(w) /\ w \in Reached(InitialGraph, 1, 1, k)
    <3>1. item'[w] = Superseded(w)
      BY <1>2, <2>2
    <3> QED
      BY <2>1, <2>2, <3>1, MovesOn, ItemStatusIs DEF Superseded, ItemMoves
  <2>3. CASE ~Exists(w) /\ item'[w] = NewItem(w)
    BY <2>3, ItemStatusIs DEF ItemMoves, NewItem
  <2>4. CASE item'[w] = item[w]
    BY <2>1, <2>4 DEF ItemMoves
  <2>5. CASE /\ Exists(w)
             /\ w \notin Reached(InitialGraph, 1, 1, k)
             /\ w \in Reached(PlanGraph, i + 1, 3, k)
    <3>1. PICK j \in DOMAIN InitialGraph : InitialGraph[j] = w
      BY <1>4, <2>5
    <3>2. PICK h \in DOMAIN PlanGraph : i + 1 + 3 * (h - 1) <= k
      BY <2>5 DEF Reached
    <3>3. 1 + 1 * (j - 1) <= k
      <4> HIDE DEF i, n
      <4> QED
        BY <1>1, <1>3, <3>2
    <3> QED
      BY <2>5, <3>1, <3>3 DEF Reached
  <2> QED
    BY <1>2, <2>2, <2>3, <2>4, <2>5
<1>6. WorkTypeOK'
  <2>1. item' \in [Items -> [status: ItemStatus, version: Nat]]
    BY <1>2, <1>5
  <2>2. depends' \subseteq Items \X Items
    <3>1. Reached(PlanGraph, i + 3 * n + 1, 1, k) \subseteq Items
      BY DEF Reached
    <3>2. DependencyRows(Reached(PlanGraph, i + 3 * n + 1, 1, k)) \subseteq Items \X Items
      BY <3>1 DEF DependencyRows
    <3> QED
      BY <1>2, <3>2 DEF LifecycleInvariant, WorkTypeOK
  <2>3. cut' \in BOOLEAN /\ specs' \subseteq Items
    BY <1>2 DEF Reached
  <2>4. activation' \in [Items -> {"none", "required", "active", "satisfied"}]
    BY <1>2 DEF LifecycleInvariant, WorkTypeOK
  <2> QED
    BY <1>3, <1>4, <2>1, <2>2, <2>3, <2>4 DEF LifecycleInvariant, WorkTypeOK
<1>7. \A w \in Items : cut' \/ Exists(w) \/ item'[w] = item[w] \/
        \A d \in DependsOn[w] : <<w, d>> \in depends'
  <2> SUFFICES ASSUME NEW w \in Items, ~cut', ~Exists(w), item'[w] # item[w], NEW d \in DependsOn[w]
               PROVE  <<w, d>> \in depends'
    OBVIOUS
  <2>1. w \in Reached(PlanGraph, i + 1, 3, k)
    BY <1>2
  <2>2. PICK j \in DOMAIN PlanGraph : PlanGraph[j] = w
    BY <2>1 DEF Reached
  <2>3. i + 3 * n + 1 + 1 * (j - 1) <= k
    <3>1. ~(k < i + 4 * n)
      BY <1>2
    <3> HIDE DEF i, n
    <3> QED
      BY <1>1, <1>3, <3>1
  <2>4. w \in Reached(PlanGraph, i + 3 * n + 1, 1, k)
    BY <2>2, <2>3 DEF Reached
  <2>5. d \in Items
    BY WorkAssumption
  <2> QED
    BY <1>2, <2>4, <2>5 DEF DependencyRows
<1>8. \A a \in Assignments : Kept(a) /\ ~Made(a)
  BY <1>4, UnchangedAssignments, WorkAssumption DEF Made, Kept
<1>9. PackOfTheBrief'
  BY <1>4, UnchangedPack
<1> QED
  BY <1>2, <1>4, <1>5, <1>6, <1>7, <1>8, <1>9 DEF LifecycleStep

LEMMA RefreshSteps ==
  ASSUME LifecycleInvariant, RefreshDerivedReadiness
  PROVE  WorkTypeOK' /\ LifecycleStep
<1>1. PICK S \in SUBSET Due(item) :
        /\ item' = Refreshed(item, S)
        /\ crashes' = IF S = Due(item) THEN crashes ELSE crashes + 1
  BY DEF RefreshDerivedReadiness
<1>2. UNCHANGED <<depends, specs, activation, assignment, evidence, brief, pending, pack, cut>>
  BY DEF RefreshDerivedReadiness
<1>3. ASSUME NEW w \in Items
      PROVE  /\ ItemMoves(w)
             /\ item'[w] \in [status: ItemStatus, version: Nat]
             /\ ~Exists(w) => item'[w] = item[w]
  <2>1. CASE w \in S
    <3>1. Exists(w) /\ item'[w] = Moved(w, "ready")
      BY <1>1, <2>1 DEF Refreshed, Due, Exists, Moved
    <3> QED
      BY <3>1, MovesOn, ItemStatusIs
  <2>2. CASE w \notin S
    BY <1>1, <2>2 DEF Refreshed, ItemMoves, LifecycleInvariant, WorkTypeOK
  <2> QED
    BY <2>1, <2>2
<1>4. item' \in [Items -> [status: ItemStatus, version: Nat]]
  BY <1>1, <1>3 DEF Refreshed
<1>5. WorkTypeOK'
  BY <1>1, <1>2, <1>4 DEF LifecycleInvariant, WorkTypeOK
<1> QED
  BY <1>2, <1>3, <1>5, QuietStep, UnchangedAssignments, UnchangedPack

LEMMA SliceSteps ==
  ASSUME LifecycleInvariant, GenerateProjectPack
  PROVE  WorkTypeOK' /\ LifecycleStep
<1>1. /\ UNCHANGED <<item, depends, specs, activation, assignment, evidence, brief, pending, cut, crashes>>
      /\ pack' = BasePack
  BY DEF GenerateProjectPack
<1>2. PackOfTheBrief' /\ pack' \in [kind: {"none", "base", "phase3"}, brief: Nat, current: BOOLEAN]
  BY <1>1 DEF BasePack, PackOfTheBrief, LifecycleInvariant, WorkTypeOK
<1>3. WorkTypeOK'
  BY <1>1, <1>2 DEF LifecycleInvariant, WorkTypeOK
<1> QED
  BY <1>1, <1>2, <1>3, QuietStep, UnchangedAssignments, UnchangedItems

LEMMA TransitionSteps ==
  ASSUME LifecycleInvariant, NEW w \in Items, NEW s, TransitionWorkItem(w, s)
  PROVE  WorkTypeOK' /\ LifecycleStep
<1>1. /\ item' = [item EXCEPT ![w] = Moved(w, s)]
      /\ UNCHANGED <<depends, specs, activation, assignment, evidence, brief, pending, pack, cut, crashes>>
      /\ s \in Successors[item[w].status]
  BY DEF TransitionWorkItem
<1>2. item \in [Items -> [status: ItemStatus, version: Nat]]
  BY DEF LifecycleInvariant, WorkTypeOK
<1>3. s \in ItemStatus \ {"absent", "complete"}
  BY <1>1, <1>2, ItemStatusIs
<1>4. Exists(w)
  BY <1>1 DEF Exists, Successors
<1>5. \A v \in Items : v # w => item'[v] = item[v]
  BY <1>1, <1>2
<1>6. item'[w] = Moved(w, s)
  BY <1>1, <1>2
<1>7. \A v \in Items : /\ ItemMoves(v)
                       /\ item'[v] \in [status: ItemStatus, version: Nat]
                       /\ ~Exists(v) => item'[v] = item[v]
  BY <1>2, <1>3, <1>4, <1>5, <1>6, MovesOn DEF ItemMoves
<1>8. item' \in [Items -> [status: ItemStatus, version: Nat]]
  BY <1>1, <1>2, <1>7
<1>9. WorkTypeOK'
  BY <1>1, <1>8 DEF LifecycleInvariant, WorkTypeOK
<1> QED
  BY <1>1, <1>7, <1>9, QuietStep, UnchangedAssignments, UnchangedPack

\* The items of a method that may verify and then refresh: the one verified moves on,
\* and what is then due becomes ready.
LEMMA CompletedItems ==
  ASSUME LifecycleInvariant,
         NEW w \in Items, Exists(w), NEW s \in {"complete", "needs_attention"},
         NEW moves \in BOOLEAN, NEW refreshes \in BOOLEAN, refreshes => moves,
         LET verified == IF moves THEN [item EXCEPT ![w] = Moved(w, s)] ELSE item IN
         item' = IF refreshes THEN Refreshed(verified, Due(verified)) ELSE verified
  PROVE  /\ item' \in [Items -> [status: ItemStatus, version: Nat]]
         /\ \A v \in Items : ~Exists(v) => item'[v] = item[v]
         /\ \A v \in Items : v # w => ItemMoves(v)
         /\ item'[w] = IF moves THEN Moved(w, s) ELSE item[w]
<1> DEFINE mine == Moved(w, s)
           verified == IF moves THEN [item EXCEPT ![w] = mine] ELSE item
           S == Due(verified)
<1>1. item' = IF refreshes THEN Refreshed(verified, S) ELSE verified
  OBVIOUS
<1>2. item \in [Items -> [status: ItemStatus, version: Nat]]
  BY DEF LifecycleInvariant, WorkTypeOK
<1>3. mine \in [status: ItemStatus, version: Nat]
  BY <1>2, ItemStatusIs DEF Moved
<1>4. /\ verified \in [Items -> [status: ItemStatus, version: Nat]]
      /\ verified[w] = IF moves THEN mine ELSE item[w]
      /\ \A v \in Items : v # w => verified[v] = item[v]
  BY <1>2, <1>3
<1>5. \A v \in S : v \in Items /\ verified[v].status = "draft"
  BY DEF Due
<1> HIDE DEF verified, S
<1>6. refreshes => w \notin S
  BY <1>4, <1>5 DEF Moved
<1>7. item'[w] = verified[w]
  BY <1>1, <1>6 DEF Refreshed
<1>8. ASSUME NEW v \in Items, v # w
      PROVE  /\ ItemMoves(v)
             /\ item'[v] \in [status: ItemStatus, version: Nat]
             /\ ~Exists(v) => item'[v] = item[v]
  <2>1. verified[v] = item[v]
    BY <1>4, <1>8
  <2>2. CASE refreshes /\ v \in S
    <3>1. Exists(v) /\ item'[v] = Moved(v, "ready")
      BY <1>1, <1>5, <2>1, <2>2 DEF Refreshed, Moved, Exists
    <3> QED
      BY <3>1, MovesOn, ItemStatusIs
  <2>3. CASE item'[v] = item[v]
    BY <1>2, <2>3 DEF ItemMoves
  <2> QED
    BY <1>1, <2>1, <2>2, <2>3 DEF Refreshed
<1>9. item' \in [Items -> [status: ItemStatus, version: Nat]]
  <2>1. \A v \in Items : item'[v] \in [status: ItemStatus, version: Nat]
    BY <1>4, <1>7, <1>8
  <2>2. item' = [v \in Items |-> item'[v]]
    BY <1>1, <1>4 DEF Refreshed
  <2> QED
    BY <2>1, <2>2
<1> QED
  BY <1>4, <1>7, <1>8, <1>9

AssignmentRecord ==
  [status: AssignmentStatus, item: Items \cup {None}, version: Nat,
   verified: {"unverified", "passed", "failed"}]

\* A fresh identity has no item, and a new assignment is one.
LEMMA FreshIsUnused ==
  ASSUME NEW a \in FreshIds
  PROVE  a \in Assignments /\ assignment[a] = NoAssignment
  BY DEF FreshIds

\* Of a step that changes one assignment, what is to be shown of that one.
LEMMA OneAssignment ==
  ASSUME LifecycleInvariant, NEW a \in Assignments, NEW r \in AssignmentRecord,
         assignment' = [assignment EXCEPT ![a] = r]
  PROVE  /\ assignment'[a] = r
         /\ assignment' \in [Assignments -> AssignmentRecord]
         /\ \A b \in Assignments : b # a => Kept(b) /\ ~Made(b)
<1>1. assignment \in [Assignments -> AssignmentRecord]
  BY DEF LifecycleInvariant, WorkTypeOK, AssignmentRecord
<1>2. \A b \in Assignments : b # a => assignment'[b] = assignment[b]
  BY <1>1
<1> QED
  BY <1>1, <1>2, WorkAssumption DEF Kept, Active, Made

\* Made in whatever status: a process may be killed after any of a method's statements.
LEMMA CreateSteps ==
  ASSUME LifecycleInvariant, NEW a \in FreshIds, NEW w \in Items, NEW s \in AssignmentStatus,
         Eligible(w),
         assignment' = [assignment EXCEPT ![a] = NewAssignment(w, s)],
         pack' = BasePack,
         crashes' \in Nat,
         UNCHANGED <<item, depends, specs, activation, evidence, brief, pending, cut>>
  PROVE  WorkTypeOK' /\ LifecycleStep
<1>1. NewAssignment(w, s) \in AssignmentRecord
  BY DEF NewAssignment, AssignmentRecord, LifecycleInvariant, WorkTypeOK
<1>2. /\ assignment'[a] = NewAssignment(w, s)
      /\ assignment' \in [Assignments -> AssignmentRecord]
      /\ \A b \in Assignments : b # a => Kept(b) /\ ~Made(b)
  BY <1>1, OneAssignment, FreshIsUnused
<1>3. Made(a)
  BY <1>2, FreshIsUnused DEF Made, NewAssignment, NoAssignment
<1>4. PackOfTheBrief' /\ pack' \in [kind: {"none", "base", "phase3"}, brief: Nat, current: BOOLEAN]
  BY DEF BasePack, PackOfTheBrief, LifecycleInvariant, WorkTypeOK
<1>5. WorkTypeOK'
  BY <1>2, <1>4 DEF LifecycleInvariant, WorkTypeOK, AssignmentRecord
<1> QED
  BY <1>2, <1>3, <1>4, <1>5, UnchangedItems DEF LifecycleStep

\* Starting, finishing and stopping change nothing but the assignment's status.
LEMMA StatusSteps ==
  ASSUME LifecycleInvariant, NEW a \in Assignments, NEW s \in AssignmentStatus,
         s \in {"created", "running", "execution_finished"} =>
           assignment[a].status \in {"created", "running", "execution_finished"},
         assignment' = [assignment EXCEPT ![a].status = s],
         UNCHANGED <<item, depends, specs, activation, evidence, brief, pending, pack, cut, crashes>>
  PROVE  WorkTypeOK' /\ LifecycleStep
<1> DEFINE r == [assignment[a] EXCEPT !.status = s]
<1>1. assignment[a] \in AssignmentRecord
  BY DEF LifecycleInvariant, WorkTypeOK, AssignmentRecord
<1>2. r \in AssignmentRecord
  BY <1>1 DEF AssignmentRecord
<1>3. /\ assignment'[a] = r
      /\ assignment' \in [Assignments -> AssignmentRecord]
      /\ \A b \in Assignments : b # a => Kept(b)
  BY <1>2, OneAssignment
<1>4. Kept(a)
  BY <1>1, <1>3 DEF Kept, Active, AssignmentRecord
<1>5. WorkTypeOK'
  BY <1>3 DEF LifecycleInvariant, WorkTypeOK, AssignmentRecord
<1> QED
  BY <1>3, <1>4, <1>5, QuietStep, UnchangedItems, UnchangedPack

LEMMA EvidenceSteps ==
  ASSUME LifecycleInvariant, NEW a \in Assignments, HandedToApi(a), AddAssignmentEvidence(a)
  PROVE  WorkTypeOK' /\ LifecycleStep
<1>1. /\ UNCHANGED <<item, depends, specs, activation, assignment, brief, pending, pack, cut, crashes>>
      /\ evidence' = evidence \cup {assignment[a].item}
      /\ assignment[a].item \in Items
  BY WorkAssumption DEF AddAssignmentEvidence, HandedToApi
<1>2. WorkTypeOK'
  BY <1>1 DEF LifecycleInvariant, WorkTypeOK
<1> QED
  BY <1>1, <1>2, QuietStep, UnchangedAssignments, UnchangedItems, UnchangedPack

\* A current assignment's item is ready: so it exists, and moves on.
LEMMA VerifySteps ==
  ASSUME LifecycleInvariant, NEW a \in Assignments, NEW outcome \in {"passed", "failed"},
         VerifyAssignment(a, outcome)
  PROVE  WorkTypeOK' /\ LifecycleStep
<1> DEFINE w == assignment[a].item
           s == IF outcome = "passed" THEN "complete" ELSE "needs_attention"
           r == [assignment[a] EXCEPT !.verified = outcome]
<1>1. /\ Current(a)
      /\ outcome = "passed" => w \in evidence
      /\ item' = [item EXCEPT ![w] = Moved(w, s)]
      /\ assignment' = [assignment EXCEPT ![a] = r]
      /\ UNCHANGED <<depends, specs, activation, evidence, brief, pending, pack, cut, crashes>>
  BY DEF VerifyAssignment
<1>2. /\ w \in Items /\ Exists(w)
      /\ assignment[a].version = item[w].version
      /\ assignment[a].verified = "unverified"
  BY <1>1 DEF Current, LifecycleInvariant, Bound
<1>3. /\ item \in [Items -> [status: ItemStatus, version: Nat]]
      /\ assignment[a] \in AssignmentRecord
  BY DEF LifecycleInvariant, WorkTypeOK, AssignmentRecord
<1>4. r \in AssignmentRecord
  BY <1>3 DEF AssignmentRecord
<1>5. /\ assignment'[a] = r
      /\ assignment' \in [Assignments -> AssignmentRecord]
      /\ \A b \in Assignments : b # a => Kept(b)
  BY <1>1, <1>4, OneAssignment
<1>6. /\ item'[w] = Moved(w, s)
      /\ \A v \in Items : v # w => item'[v] = item[v]
  BY <1>1, <1>2, <1>3
<1>7. item'[w].version = item[w].version + 1 /\ item'[w].status = s
  BY <1>6 DEF Moved
<1>8. /\ assignment'[a].item = w
      /\ assignment'[a].version = assignment[a].version
      /\ assignment'[a].verified = outcome
      /\ Active(a)' => Active(a)
  BY <1>3, <1>5 DEF AssignmentRecord, Active
<1>9. Kept(a)
  BY <1>1, <1>7, <1>8 DEF Kept
<1>10. ItemMoves(w)
  BY <1>1, <1>2, <1>7, <1>8 DEF ItemMoves
<1>11. \A v \in Items : ItemMoves(v) /\ (~Exists(v) => item'[v] = item[v])
  BY <1>2, <1>6, <1>10 DEF ItemMoves
<1>12. WorkTypeOK'
  <2>1. Moved(w, s) \in [status: ItemStatus, version: Nat]
    BY <1>2, <1>3, ItemStatusIs DEF Moved
  <2>2. item' \in [Items -> [status: ItemStatus, version: Nat]]
    BY <1>1, <1>2, <1>3, <2>1
  <2> QED
    BY <1>1, <1>5, <2>2 DEF LifecycleInvariant, WorkTypeOK, AssignmentRecord
<1> QED
  BY <1>1, <1>5, <1>9, <1>11, <1>12, QuietStep, UnchangedPack

LEMMA RevisionSteps ==
  ASSUME LifecycleInvariant, NEW affected \in Impacts, ReviseProjectGoal(affected)
  PROVE  WorkTypeOK' /\ LifecycleStep
<1>1. /\ affected \subseteq Items
      /\ \A w \in affected : Exists(w)
      /\ brief' = brief + 1
      /\ UNCHANGED <<depends, specs, activation, evidence, cut>>
  BY WorkAssumption DEF ReviseProjectGoal
<1>2. /\ item \in [Items -> [status: ItemStatus, version: Nat]]
      /\ assignment \in [Assignments -> AssignmentRecord]
      /\ pack \in [kind: {"none", "base", "phase3"}, brief: Nat, current: BOOLEAN]
      /\ brief \in Nat /\ pending \subseteq Nat /\ crashes \in Nat
  BY DEF LifecycleInvariant, WorkTypeOK, AssignmentRecord
<1>3. CASE Impact(affected) /\ UNCHANGED crashes
  <2>1. ASSUME NEW w \in Items
        PROVE  /\ ItemMoves(w)
               /\ item'[w] \in [status: ItemStatus, version: Nat]
               /\ ~Exists(w) => item'[w] = item[w]
    <3>1. CASE w \in affected /\ item[w].status \notin {"canceled", "superseded"}
      <4>1. Exists(w) /\ item'[w] = Moved(w, "stale")
        BY <1>1, <1>3, <3>1 DEF Impact
      <4> QED
        BY <4>1, MovesOn, ItemStatusIs
    <3>2. CASE item'[w] = item[w]
      BY <1>2, <3>2 DEF ItemMoves
    <3> QED
      BY <1>3, <3>1, <3>2 DEF Impact
  <2>2. ASSUME NEW a \in Assignments
        PROVE  Kept(a) /\ assignment'[a] \in AssignmentRecord
    <3>1. CASE assignment'[a] = assignment[a]
      BY <1>2, <3>1 DEF Kept, Active
    <3>2. CASE assignment'[a] = [assignment[a] EXCEPT !.status = "superseded"]
      <4>1. assignment[a] \in AssignmentRecord
        BY <1>2
      <4> QED
        BY <3>2, <4>1 DEF Kept, Active, AssignmentRecord, AssignmentStatus
    <3> QED
      BY <1>3, <3>1, <3>2 DEF Impact
  <2>3. /\ item' \in [Items -> [status: ItemStatus, version: Nat]]
        /\ assignment' \in [Assignments -> AssignmentRecord]
    BY <1>3, <2>1, <2>2 DEF Impact
  <2>4. pack'.current = FALSE /\ pack' \in [kind: {"none", "base", "phase3"}, brief: Nat, current: BOOLEAN]
    BY <1>2, <1>3 DEF Impact
  <2>5. WorkTypeOK'
    BY <1>1, <1>2, <1>3, <2>3, <2>4 DEF LifecycleInvariant, WorkTypeOK, AssignmentRecord, Impact
  <2>6. PackOfTheBrief'
    BY <2>4 DEF PackOfTheBrief
  <2> QED
    BY <1>1, <2>1, <2>2, <2>5, <2>6, QuietStep
<1>4. CASE /\ crashes' = crashes + 1
           /\ pending' = pending \cup {brief + 1}
           /\ UNCHANGED <<item, assignment, pack>>
  <2>1. WorkTypeOK'
    BY <1>1, <1>2, <1>4 DEF LifecycleInvariant, WorkTypeOK
  <2>2. PackOfTheBrief'
    BY <1>1, <1>4 DEF PackOfTheBrief
  <2> QED
    BY <1>1, <1>4, <2>1, <2>2, QuietStep, UnchangedAssignments, UnchangedItems
<1> QED
  BY <1>3, <1>4 DEF ReviseProjectGoal

\* Whatever the control plane's API does is a step of the lifecycle.
LEMMA WorkSteps ==
  ASSUME LifecycleInvariant, WorkNext
  PROVE  WorkTypeOK' /\ LifecycleStep
<1>1. ByHand \subseteq Items
  BY WorkAssumption
<1>2. CASE EnsureInitialWorkGraph
  BY <1>2, InitialGraphSteps
<1>3. CASE EnsurePlan
  BY <1>3, PlanSteps
<1>4. CASE RefreshDerivedReadiness
  BY <1>4, RefreshSteps
<1>5. CASE \E w \in ByHand : CreateContextSlice(w)
  BY <1>5, SliceSteps DEF CreateContextSlice
<1>6. CASE \E w \in Items, s \in OperatorMoves : TransitionWorkItem(w, s)
  BY <1>6, TransitionSteps
<1>7. CASE \E a \in FreshIds, w \in ByHand : CreateAssignment(a, w)
  <2>1. PICK a \in FreshIds, w \in ByHand : CreateAssignment(a, w)
    BY <1>7
  <2> QED
    BY <1>1, <2>1, CreateSteps DEF CreateAssignment, AssignmentStatus, LifecycleInvariant, WorkTypeOK
<1>8. CASE \E a \in Assignments : StartAssignment(a) \/ FinishAssignmentExecution(a)
  <2>1. PICK a \in Assignments : StartAssignment(a) \/ FinishAssignmentExecution(a)
    BY <1>8
  <2>2. CASE StartAssignment(a)
    BY <2>2, StatusSteps DEF StartAssignment, AssignmentStatus
  <2>3. CASE FinishAssignmentExecution(a)
    BY <2>3, StatusSteps DEF FinishAssignmentExecution, AssignmentStatus
  <2> QED
    BY <2>1, <2>2, <2>3
<1>9. CASE \E a \in Assignments : HandedToApi(a) /\ AddAssignmentEvidence(a)
  BY <1>9, EvidenceSteps
<1>10. CASE \E a \in Assignments, outcome \in {"passed", "failed"} : VerifyAssignment(a, outcome)
  BY <1>10, VerifySteps
<1>11. CASE \E affected \in Impacts : ReviseProjectGoal(affected)
  BY <1>11, RevisionSteps
<1> QED
  BY <1>2, <1>3, <1>4, <1>5, <1>6, <1>7, <1>8, <1>9, <1>10, <1>11 DEF WorkNext
=============================================================================
