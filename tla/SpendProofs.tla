----------------------------- MODULE SpendProofs -----------------------------
(***************************************************************************)
(* Proof that the envelope's amount is what was charged, for every set of  *)
(* routes and estimates and any number of loops, iterations and kills.     *)
(*                                                                         *)
(* A sum over a set is a fold.  What is needed of it is proved first: the  *)
(* sum does not depend on the order, so that one more charge adds one      *)
(* estimate.  The rest is that no two charges are of the same attempt.     *)
(***************************************************************************)
EXTENDS AutonomyProofs, WellFoundedInduction

-----------------------------------------------------------------------------
(***************************************************************************)
(* The cost of a set of attempts.  The fold looks up a table of the costs  *)
(* of all subsets, each the cost of the subset without one chosen member.  *)
(* Induction is out of reach, so each fact is proved of a smallest set for *)
(* which it would be wrong.                                                *)
(***************************************************************************)

Cost(S) == MapThenSumSet(LAMBDA t : Estimate[t.route], S)

First(S) == CHOOSE t \in S : TRUE
Rest(S) == S \ {First(S)}

Adds(costs, S) == IF S = {} THEN 0 ELSE Estimate[First(S).route] + costs[Rest(S)]

IsTable(costs, S) == costs = [T \in SUBSET S |-> Adds(costs, T)]

Table(S) == CHOOSE costs : IsTable(costs, S)

LEMMA CostIsOfTable == ASSUME NEW S PROVE Cost(S) = Table(S)[S]
  BY DEF Cost, MapThenSumSet, MapThenFoldSet, Table, IsTable, Adds, First, Rest

LEMMA RestIsSmaller ==
  ASSUME NEW S, S # {}
  PROVE  First(S) \in S /\ Rest(S) \subseteq S /\ Rest(S) # S
  BY DEF First, Rest

\* Of some subsets of a finite set one has none of the others as a proper subset.
LEMMA SmallestSubset ==
  ASSUME NEW S, IsFiniteSet(S), NEW Bad, Bad \subseteq SUBSET S, Bad # {}
  PROVE  \E T \in Bad : \A U \in Bad : U \subseteq T => U = T
<1>1. IsWellFoundedOn(StrictSubsetOrdering(S), SUBSET S)
  BY FS_StrictSubsetOrderingWellFounded, FS_FiniteSubsetsOfFinite
<1>2. PICK T \in Bad : \A U \in Bad : ~(<<U, T>> \in StrictSubsetOrdering(S))
  BY <1>1, WFMin
<1>3. ASSUME NEW U \in Bad, U \subseteq T, U # T PROVE FALSE
  BY <1>2, <1>3 DEF StrictSubsetOrdering
<1> QED
  BY <1>2, <1>3

\* Tables agree where they overlap.
LEMMA TablesAgree ==
  ASSUME NEW S, IsFiniteSet(S), NEW R, NEW f, IsTable(f, S), NEW g, IsTable(g, R)
  PROVE  \A T \in SUBSET (S \cap R) : f[T] = g[T]
<1> DEFINE Bad == {T \in SUBSET (S \cap R) : f[T] # g[T]}
<1> SUFFICES ASSUME Bad # {} PROVE FALSE
  OBVIOUS
<1>1. PICK T \in Bad : \A U \in Bad : U \subseteq T => U = T
  <2>1. Bad \subseteq SUBSET S
    OBVIOUS
  <2> HIDE DEF Bad
  <2> QED
    BY <2>1, SmallestSubset
<1>2. T \in SUBSET S /\ T \in SUBSET R
  OBVIOUS
<1>3. f[T] = Adds(f, T) /\ g[T] = Adds(g, T)
  BY <1>2 DEF IsTable
<1>4. T # {}
  BY <1>3 DEF Adds
<1>5. Rest(T) \subseteq T /\ Rest(T) # T
  BY <1>4, RestIsSmaller
<1>6. f[Rest(T)] = g[Rest(T)]
  BY <1>1, <1>5
<1> QED
  BY <1>1, <1>3, <1>6 DEF Adds

\* Every finite set has a table.
LEMMA TableExists ==
  ASSUME NEW S, IsFiniteSet(S)
  PROVE  \E f : IsTable(f, S)
<1> DEFINE Bad == {T \in SUBSET S : ~(\E f : IsTable(f, T))}
<1> SUFFICES ASSUME Bad # {} PROVE FALSE
  OBVIOUS
<1>1. PICK T \in Bad : \A U \in Bad : U \subseteq T => U = T
  <2>1. Bad \subseteq SUBSET S
    OBVIOUS
  <2> HIDE DEF Bad
  <2> QED
    BY <2>1, SmallestSubset
<1>2. ASSUME NEW U, U \subseteq T, U # T PROVE IsTable(Table(U), U) /\ IsFiniteSet(U)
  <2>1. \E f : IsTable(f, U)
    BY <1>1, <1>2
  <2>2. IsFiniteSet(U)
    BY <1>2, FS_Subset
  <2> QED
    BY <2>1, <2>2 DEF Table
<1> DEFINE h(U) == Table(Rest(U))
           f == [U \in SUBSET T |-> Adds(h(U), U)]
<1>3. ASSUME NEW U \in SUBSET T, U # {} PROVE f[Rest(U)] = h(U)[Rest(U)]
  <2> DEFINE V == Rest(U)
  <2>1. V \subseteq U /\ V # U /\ V \in SUBSET T /\ V # T
    BY <1>3, RestIsSmaller
  <2>2. IsTable(Table(V), V) /\ IsFiniteSet(V)
    BY <1>2, <2>1
  <2>3. Table(V)[V] = Adds(Table(V), V)
    <3> HIDE DEF V
    <3> QED
      BY <2>2 DEF IsTable
  <2>4. f[V] = Adds(h(V), V)
    BY <2>1
  <2>5. CASE V = {}
    BY <2>3, <2>4, <2>5 DEF Adds
  <2>6. CASE V # {}
    <3> DEFINE W == Rest(V)
    <3>1. W \subseteq V /\ W # V /\ W \subseteq T /\ W # T
      BY <2>1, <2>6, RestIsSmaller
    <3>2. IsTable(Table(W), W) /\ IsFiniteSet(W)
      BY <1>2, <3>1
    <3>3. Table(V)[W] = Table(W)[W]
      <4> HIDE DEF V, W
      <4>1. W \in SUBSET (V \cap W)
        BY <3>1
      <4> QED
        BY <2>2, <3>2, <4>1, TablesAgree
    <3> QED
      BY <2>3, <2>4, <2>6, <3>3 DEF Adds
  <2> QED
    BY <2>5, <2>6
<1>4. ASSUME NEW U \in SUBSET T PROVE f[U] = Adds(f, U)
  <2>1. f[U] = Adds(h(U), U)
    OBVIOUS
  <2> HIDE DEF f
  <2> QED
    BY <1>3, <2>1 DEF Adds
<1>5. IsTable(f, T)
  <2>1. f = [U \in SUBSET T |-> f[U]]
    OBVIOUS
  <2> HIDE DEF f
  <2> QED
    BY <1>4, <2>1 DEF IsTable
<1> QED
  BY <1>1, <1>5

LEMMA CostUnfolds ==
  ASSUME NEW S, IsFiniteSet(S)
  PROVE  Cost(S) = IF S = {} THEN 0 ELSE Estimate[First(S).route] + Cost(Rest(S))
<1>1. IsTable(Table(S), S)
  BY TableExists DEF Table
<1>2. Cost(S) = Adds(Table(S), S)
  BY <1>1, CostIsOfTable DEF IsTable
<1>3. CASE S = {}
  BY <1>2, <1>3 DEF Adds
<1>4. CASE S # {}
  <2>1. Rest(S) \subseteq S /\ IsFiniteSet(Rest(S))
    BY <1>4, RestIsSmaller, FS_Subset
  <2>2. IsTable(Table(Rest(S)), Rest(S))
    BY <2>1, TableExists DEF Table
  <2>3. Table(S)[Rest(S)] = Table(Rest(S))[Rest(S)]
    <3>1. Rest(S) \in SUBSET (S \cap Rest(S))
      BY <2>1
    <3> QED
      BY <1>1, <2>2, <3>1, TablesAgree
  <2> QED
    BY <1>2, <1>4, <2>3, CostIsOfTable DEF Adds
<1> QED
  BY <1>3, <1>4

LEMMA CostIsNatural ==
  ASSUME NEW S, IsFiniteSet(S), S \subseteq AttemptRecord
  PROVE  Cost(S) \in Nat
<1> DEFINE Bad == {T \in SUBSET S : Cost(T) \notin Nat}
<1> SUFFICES ASSUME Bad # {} PROVE FALSE
  OBVIOUS
<1>1. PICK T \in Bad : \A U \in Bad : U \subseteq T => U = T
  <2>1. Bad \subseteq SUBSET S
    OBVIOUS
  <2> HIDE DEF Bad
  <2> QED
    BY <2>1, SmallestSubset
<1>2. IsFiniteSet(T)
  BY FS_Subset
<1>3. T # {}
  BY <1>1, <1>2, CostUnfolds
<1>4. First(T) \in AttemptRecord /\ Rest(T) \subseteq T /\ Rest(T) # T
  BY <1>3, RestIsSmaller
<1>5. Cost(Rest(T)) \in Nat
  BY <1>1, <1>4
<1>6. Estimate[First(T).route] \in Nat
  BY <1>4, AutonomyAssumption DEF AttemptRecord
<1> QED
  BY <1>1, <1>2, <1>3, <1>5, <1>6, CostUnfolds

\* Whichever attempt is taken out of a set, the cost is less by its estimate.
LEMMA CostWithout ==
  ASSUME NEW S, IsFiniteSet(S), S \subseteq AttemptRecord
  PROVE  \A t \in S : Cost(S) = Estimate[t.route] + Cost(S \ {t})
<1> DEFINE Good(T) == \A t \in T : Cost(T) = Estimate[t.route] + Cost(T \ {t})
           Bad == {T \in SUBSET S : ~Good(T)}
<1> SUFFICES ASSUME Bad # {} PROVE FALSE
  OBVIOUS
<1>1. PICK T \in Bad : \A U \in Bad : U \subseteq T => U = T
  <2>1. Bad \subseteq SUBSET S
    OBVIOUS
  <2> HIDE DEF Bad
  <2> QED
    BY <2>1, SmallestSubset
<1>2. T \in SUBSET S /\ IsFiniteSet(T) /\ ~Good(T)
  BY <1>1, FS_Subset
<1>3. PICK t \in T : Cost(T) # Estimate[t.route] + Cost(T \ {t})
  BY <1>2
<1>4. ASSUME NEW U, U \subseteq T, U # T PROVE Good(U)
  BY <1>1, <1>4
<1> DEFINE x == First(T)
<1>5. x \in T /\ Cost(T) = Estimate[x.route] + Cost(T \ {x})
  BY <1>2, <1>3, RestIsSmaller, CostUnfolds DEF Rest
<1> HIDE DEF x
<1>6. x # t
  BY <1>3, <1>5
<1>7. Cost(T \ {x}) = Estimate[t.route] + Cost((T \ {x}) \ {t})
  BY <1>3, <1>4, <1>5, <1>6
<1>8. Cost(T \ {t}) = Estimate[x.route] + Cost((T \ {t}) \ {x})
  BY <1>3, <1>4, <1>5, <1>6
<1>9. (T \ {x}) \ {t} = (T \ {t}) \ {x}
  OBVIOUS
<1>10. /\ Estimate[t.route] \in Nat /\ Estimate[x.route] \in Nat
       /\ Cost((T \ {t}) \ {x}) \in Nat
  <2>1. t \in AttemptRecord /\ x \in AttemptRecord
    BY <1>2, <1>3, <1>5
  <2>2. (T \ {t}) \ {x} \subseteq AttemptRecord /\ IsFiniteSet((T \ {t}) \ {x})
    BY <1>2, FS_Subset
  <2> QED
    BY <2>1, <2>2, CostIsNatural, AutonomyAssumption DEF AttemptRecord
<1> QED
  BY <1>3, <1>5, <1>7, <1>8, <1>9, <1>10

LEMMA CostWith ==
  ASSUME NEW S, IsFiniteSet(S), S \subseteq AttemptRecord, NEW t \in AttemptRecord, t \notin S
  PROVE  Cost(S \cup {t}) = Cost(S) + Estimate[t.route]
<1>1. IsFiniteSet(S \cup {t}) /\ S \cup {t} \subseteq AttemptRecord /\ (S \cup {t}) \ {t} = S
  BY FS_AddElement
<1>2. Cost(S \cup {t}) = Estimate[t.route] + Cost(S)
  BY <1>1, CostWithout
<1>3. Cost(S) \in Nat /\ Estimate[t.route] \in Nat
  BY CostIsNatural, AutonomyAssumption DEF AttemptRecord
<1> QED
  BY <1>2, <1>3

-----------------------------------------------------------------------------
(***************************************************************************)
(* The accounts: what is spent is what was charged.  It takes that a       *)
(* charge is never of an attempt that was charged before, as attempts are  *)
(* told apart by loop, turn, purpose and route.                            *)
(***************************************************************************)

Charged(atts) == {t \in atts : t.charged}

\* The attempt that a loop L of assignment a awaits.
AwaitedBy(a, L) ==
  NewAttempt(a, L, IF L.awaits = "verifier" THEN "verifier" ELSE "worker",
             IF L.awaits \in {"worker", "primary"} THEN L.worker ELSE L.verifier)

\* Attempt t of a loop was made before the one that L awaits.
Earlier(t, L) ==
  \/ t.turn < L.turn
  \/ t.turn = L.turn /\ L.awaits = "verifier" /\ t.purpose = "worker"
  \/ t.turn = L.turn /\ L.awaits = "secondary" /\ t.route = L.worker

AttemptsAreItsOwn(a) ==
  /\ loop[a].status = "none" => \A t \in attempts : t.by # a
  /\ loop[a].awaits \in {"primary", "secondary"} => loop[a].worker # loop[a].verifier
  /\ loop[a].awaits \in Awaited => \A t \in attempts : t.by = a =>
       t = AwaitedBy(a, loop[a]) \/ (t.status = "succeeded" /\ Earlier(t, loop[a]))

AccountsInvariant ==
  /\ FreeFirstInvariant
  /\ \A t \in attempts : t.status = "running" => ~t.charged
  /\ \A a \in Assignments : AttemptsAreItsOwn(a)
  /\ spend.spent = spend.direct + Cost(Charged(attempts))

-----------------------------------------------------------------------------
(* What a step does to the other loops, and to its own *)

\* A loop is left alone, or awaits nothing any more.
Ends(b) ==
  \/ loop'[b] = loop[b]
  \/ loop[b].status # "none" /\ loop'[b].status # "none" /\ loop'[b].awaits \notin Awaited

\* M, a later state of the loop L, awaits another attempt.
Later(M, L) ==
  \/ M.awaits \in {"worker", "verifier"} /\ M.turn > L.turn
  \/ M.awaits = "verifier" /\ L.awaits = "worker" /\ M.turn = L.turn
  \/ L.awaits = "primary" /\ M = [L EXCEPT !.awaits = "secondary"]

\* Once its attempts are atts, the loop of a awaits another, or ends.
Continues(a, atts) ==
  /\ \A b \in Assignments : b # a => Ends(b)
  /\ loop'[a].status # "none"
  /\ \/ /\ Later(loop'[a], loop[a])
        /\ attempts' = atts \cup {AwaitedBy(a, loop'[a])}
     \/ /\ loop'[a].awaits \notin Awaited
        /\ attempts' \in {atts, Surviving(TRUE, atts)}

LEMMA SurvivesOrNot ==
  ASSUME NEW killed \in BOOLEAN, NEW atts
  PROVE  Surviving(killed, atts) \in {atts, Surviving(TRUE, atts)}
  BY DEF Surviving

\* A kill ends the loops that it finds awaiting.
LEMMA OthersEnd ==
  ASSUME LoopsInvariant, NEW a \in Assignments, NEW M \in LoopRecord, NEW killed \in BOOLEAN,
         loop' = LoopsAfter(killed, [loop EXCEPT ![a] = M]), killed => M.awaits \notin Awaited
  PROVE  loop'[a] = M /\ \A b \in Assignments : b # a => Ends(b)
<1> DEFINE lp == [loop EXCEPT ![a] = M]
<1>1. /\ lp \in [Assignments -> LoopRecord] /\ lp[a] = M
      /\ \A b \in Assignments : b # a => lp[b] = loop[b]
  BY KernelTypes DEF LoopsInvariant
<1> HIDE DEF lp
<1>2. \A b \in Assignments :
        \/ loop'[b] = lp[b]
        \/ killed /\ lp[b].awaits \in Awaited /\ loop'[b] = Over(lp[b], lp[b].status, "lost")
  BY <1>1, AfterKill DEF lp
<1>3. ASSUME NEW b \in Assignments, b # a, loop'[b] # loop[b] PROVE Ends(b)
  <2>1. loop[b].awaits \in Awaited /\ loop'[b] = Over(loop[b], loop[b].status, "lost")
    BY <1>1, <1>2, <1>3
  <2>2. loop[b] \in LoopRecord /\ loop[b].status # "none"
    BY <2>1, KernelTypes DEF LoopsInvariant, LoopHolds, NoLoop, Awaited
  <2>3. loop[b].status \in {"running", "passed", "exhausted", "blocked", "failed", "drill"}
    BY <2>2 DEF LoopRecord
  <2> QED
    BY <2>1, <2>2, <2>3, OverIsOne DEF Ends, Awaited
<1>4. \A b \in Assignments : b # a => Ends(b)
  BY <1>3 DEF Ends
<1> QED
  BY <1>1, <1>2, <1>4

\* The same of a step that kills or spares all loops alike.
LEMMA AllEnd ==
  ASSUME LoopsInvariant, NEW killed \in BOOLEAN, loop' = LoopsAfter(killed, loop)
  PROVE  \A b \in Assignments : Ends(b)
<1>1. loop \in [Assignments -> LoopRecord]
  BY KernelTypes DEF LoopsInvariant
<1>2. ASSUME NEW b \in Assignments, loop'[b] # loop[b] PROVE Ends(b)
  <2>1. loop[b].awaits \in Awaited /\ loop'[b] = Over(loop[b], loop[b].status, "lost")
    BY <1>1, <1>2, AfterKill
  <2>2. loop[b] \in LoopRecord /\ loop[b].status # "none"
    BY <1>1, <2>1 DEF LoopsInvariant, LoopHolds, NoLoop, Awaited
  <2>3. loop[b].status \in {"running", "passed", "exhausted", "blocked", "failed", "drill"}
    BY <2>2 DEF LoopRecord
  <2> QED
    BY <2>1, <2>2, <2>3, OverIsOne DEF Ends, Awaited
<1> QED
  BY <1>2 DEF Ends

-----------------------------------------------------------------------------
(* Whatever a loop does next, it goes on to a later attempt or ends *)

LEMMA AwaitContinues ==
  ASSUME LoopsInvariant, NEW a \in Assignments, NEW L, Acting(a, L), NEW atts,
         NEW purpose \in {"worker", "verifier"}, NEW r,
         r = IF purpose = "worker" THEN L.worker ELSE L.verifier,
         \/ L.turn > loop[a].turn
         \/ purpose = "verifier" /\ loop[a].awaits = "worker" /\ L.turn = loop[a].turn,
         Await(a, L, purpose, r, atts)
  PROVE  Continues(a, atts)
<1> DEFINE M == [L EXCEPT !.awaits = purpose]
<1>1. loop' = [loop EXCEPT ![a] = M] /\ attempts' = atts \cup {NewAttempt(a, L, purpose, r)}
  BY DEF Await
<1>2. /\ M \in LoopRecord /\ M.status = "running" /\ M.awaits = purpose
      /\ M.turn = L.turn /\ M.worker = L.worker /\ M.verifier = L.verifier
  BY DEF Acting, LoopRecord, Awaited
<1>3. AwaitedBy(a, M) = NewAttempt(a, L, purpose, r)
  BY <1>2 DEF AwaitedBy, NewAttempt
<1>4. Later(M, loop[a])
  BY <1>2 DEF Later
<1> HIDE DEF M
<1>5. loop'[a] = M /\ \A b \in Assignments : b # a => Ends(b)
  BY <1>1, <1>2, KernelTypes DEF LoopsInvariant, Ends
<1> QED
  BY <1>1, <1>2, <1>3, <1>4, <1>5 DEF Continues

LEMMA StopContinues ==
  ASSUME LoopsInvariant, NEW a \in Assignments, NEW L, Acting(a, L), NEW atts,
         NEW status \in {"failed", "blocked"}, Stop(a, L, status, atts)
  PROVE  Continues(a, atts)
<1> DEFINE M == Over(L, status, "nothing")
<1>1. loop' = [loop EXCEPT ![a] = M] /\ attempts' = atts
  BY DEF Stop
<1>2. M \in LoopRecord /\ M.status = status /\ M.awaits = "nothing"
  BY OverIsOne DEF Acting
<1> HIDE DEF M
<1>3. loop'[a] = M /\ \A b \in Assignments : b # a => Ends(b)
  BY <1>1, <1>2, KernelTypes DEF LoopsInvariant, Ends
<1> QED
  BY <1>1, <1>2, <1>3 DEF Continues, Awaited

LEMMA SettleContinues ==
  ASSUME LoopsInvariant, NEW a \in Assignments, NEW L, Acting(a, L), NEW atts, NEW outcome,
         NEW status \in {"passed", "exhausted"}, Settle(a, L, outcome, status, atts)
  PROVE  Continues(a, atts)
<1> DEFINE holds == assignment[a].status = "running" /\ Current(a)
<1>1. PICK k \in IF holds THEN StatementsOf(4) ELSE {4} :
        /\ attempts' = Surviving(k < 4, atts)
        /\ loop' = LoopsAfter(k < 4, [loop EXCEPT ![a] =
             Over(L, IF holds /\ k = 4 THEN status ELSE L.status, IF k < 4 THEN "lost" ELSE "nothing")])
  BY DEF Settle
<1> DEFINE killed == k < 4
           s == IF holds /\ k = 4 THEN status ELSE L.status
           awaits == IF killed THEN "lost" ELSE "nothing"
           M == Over(L, s, awaits)
<1>2. killed \in BOOLEAN
  OBVIOUS
<1>3. s \in {"running", "passed", "exhausted"} /\ awaits \in {"lost", "nothing"}
  BY DEF Acting
<1>4. attempts' = Surviving(killed, atts) /\ loop' = LoopsAfter(killed, [loop EXCEPT ![a] = M])
  BY <1>1
<1> HIDE DEF killed, s, awaits
<1>5. M \in LoopRecord /\ M.status = s /\ M.awaits = awaits
  BY <1>3, OverIsOne DEF Acting
<1> HIDE DEF M
<1>6. M.awaits \notin Awaited
  BY <1>3, <1>5 DEF Awaited
<1>7. loop'[a] = M /\ \A b \in Assignments : b # a => Ends(b)
  BY <1>2, <1>4, <1>5, <1>6, OthersEnd
<1> QED
  BY <1>2, <1>3, <1>4, <1>5, <1>6, <1>7, SurvivesOrNot DEF Continues

LEMMA NextTurnContinues ==
  ASSUME LoopsInvariant, NEW a \in Assignments, NEW w, NEW L, Acting(a, L), L.turn = loop[a].turn,
         NEW atts, NEW sp, NextTurn(a, w, L, atts, sp)
  PROVE  Continues(a, atts)
<1>1. CASE Settle(a, L, "failed", "exhausted", atts)
  BY <1>1, SettleContinues
<1>2. CASE Stop(a, L, "blocked", atts)
  BY <1>2, StopContinues
<1>3. CASE L.turn < MaxIterations /\ ~(Stop(a, L, "blocked", atts))
           /\ ~(Settle(a, L, "failed", "exhausted", atts))
  <2> DEFINE M == [L EXCEPT !.turn = @ + 1]
  <2>1. Acting(a, M) /\ M.turn > loop[a].turn
    BY <1>3, AutonomyAssumption DEF Acting, LoopRecord, Independent
  <2>2. Await(a, M, "worker", M.worker, atts) \/ Stop(a, M, "failed", atts)
    BY <1>3 DEF NextTurn
  <2> HIDE DEF M
  <2> QED
    BY <2>1, <2>2, AwaitContinues, StopContinues
<1> QED
  BY <1>1, <1>2, <1>3 DEF NextTurn

LEMMA ReplaceWorkerContinues ==
  ASSUME LoopsInvariant, NEW a \in Assignments, NEW w, NEW L, Acting(a, L), L.turn = loop[a].turn,
         NEW atts, ReplaceWorker(a, w, L, atts)
  PROVE  Continues(a, atts)
<1> DEFINE M == [L EXCEPT !.failedWorkers = @ \cup {L.worker}]
           others == Eligibles(enabled, "worker", L.terms, w, M.failedWorkers, {}, spend)
<1>1. Acting(a, M) /\ M.failedWorkers # {} /\ M.turn = loop[a].turn
  BY DEF Acting, LoopRecord, Independent
<1>2. others \subseteq Routes
  BY DEF Eligibles, LoopsInvariant, KernelTypeOK
<1>3. Stop(a, M, "failed", atts) \/ \E r \in others : NextTurn(a, w, [M EXCEPT !.worker = r], atts, spend)
  BY DEF ReplaceWorker
<1> HIDE DEF M, others
<1>4. \A r \in others : Acting(a, [M EXCEPT !.worker = r]) /\ [M EXCEPT !.worker = r].turn = loop[a].turn
  BY <1>1, <1>2 DEF Acting, LoopRecord, Independent
<1> QED
  BY <1>1, <1>3, <1>4, StopContinues, NextTurnContinues

LEMMA ReplaceVerifierContinues ==
  ASSUME LoopsInvariant, NEW a \in Assignments, NEW w, NEW L, Acting(a, L), L.turn = loop[a].turn,
         L.verifier \in Routes, NEW atts, NEW sp,
         ReplaceVerifier(a, w, L, atts, sp)
  PROVE  Continues(a, atts)
<1> DEFINE M == [L EXCEPT !.failedVerifiers = @ \cup {L.verifier}]
           others == Eligibles(enabled, "verifier", L.terms, w, M.failedVerifiers,
                               GroupsBeside(L.terms, L.worker), sp)
<1>1. Acting(a, M) /\ M.terms = L.terms /\ M.worker = L.worker /\ M.turn = loop[a].turn
  BY DEF Acting, LoopRecord, Independent
<1>2. \A r \in others : r \in Routes /\ (L.terms.independent => Group[r] # Group[L.worker])
  BY DEF Eligibles, GroupsBeside, LoopsInvariant, KernelTypeOK
<1>3. \/ Stop(a, M, "blocked", atts)
      \/ \E r \in others : NextTurn(a, w, [M EXCEPT !.verifier = r], atts, sp)
  BY DEF ReplaceVerifier
<1> HIDE DEF M, others
<1>4. \A r \in others :
        Acting(a, [M EXCEPT !.verifier = r]) /\ [M EXCEPT !.verifier = r].turn = loop[a].turn
  BY <1>1, <1>2 DEF Acting, LoopRecord, Independent
<1> QED
  BY <1>1, <1>3, <1>4, StopContinues, NextTurnContinues

LEMMA VerifyContinues ==
  ASSUME LoopsInvariant, NEW a \in Assignments, NEW w, NEW L, Acting(a, L), L.turn = loop[a].turn,
         loop[a].awaits = "worker", NEW atts, NEW sp, Verify(a, w, L, atts, sp)
  PROVE  Continues(a, atts)
<1>1. CASE L.verifier = None
  BY <1>1, StopContinues DEF Verify
<1>2. CASE L.verifier # None
  <2>1. L.verifier \in Routes
    BY <1>2 DEF Acting, LoopRecord
  <2>2. Await(a, L, "verifier", L.verifier, atts) \/ ReplaceVerifier(a, w, L, atts, sp)
    BY <1>2 DEF Verify
  <2> QED
    BY <2>1, <2>2, AwaitContinues, ReplaceVerifierContinues
<1> QED
  BY <1>1, <1>2

\* The one that awaited the drill's first answer awaits the second, or the drill is over.
LEMMA DrillContinues ==
  ASSUME LoopsInvariant, NEW a \in Assignments, DrillReturns(a)
  PROVE  (UNCHANGED spend /\ Continues(a, Failed(a))) \/
           (AttemptSucceeds(a, loop[a], assignment[a].item) /\ Continues(a, Succeeded(a)))
<1> DEFINE L == loop[a]
           N == Over(L, "drill", "nothing")
           M == [L EXCEPT !.awaits = "secondary"]
<1>1. /\ loop \in [Assignments -> LoopRecord] /\ L \in LoopRecord
      /\ L.awaits \in {"primary", "secondary"} /\ L.status = "drill"
  BY KernelTypes DEF DrillReturns, LoopsInvariant, LoopHolds, GoesOn, Awaited
<1>2. N \in LoopRecord /\ N.status = "drill" /\ N.awaits = "nothing"
  BY <1>1, OverIsOne
<1>3. ASSUME NEW atts, loop' = [loop EXCEPT ![a] = N], attempts' = atts PROVE Continues(a, atts)
  <2> HIDE DEF N
  <2>1. loop'[a] = N /\ \A b \in Assignments : b # a => Ends(b)
    BY <1>1, <1>3 DEF Ends
  <2> QED
    BY <1>2, <1>3, <2>1 DEF Continues, Awaited
<1>4. ASSUME L.awaits = "primary", NEW atts,
             loop' = [loop EXCEPT ![a].awaits = "secondary"],
             attempts' = atts \cup {NewAttempt(a, L, "worker", L.verifier)}
      PROVE  Continues(a, atts)
  <2>1. loop'[a] = M /\ \A b \in Assignments : b # a => Ends(b)
    BY <1>1, <1>4 DEF Ends
  <2>2. M.status = "drill" /\ M.awaits = "secondary" /\ M.turn = L.turn /\ M.verifier = L.verifier
    BY <1>1 DEF LoopRecord, Awaited
  <2>3. AwaitedBy(a, M) = NewAttempt(a, L, "worker", L.verifier)
    BY <2>2 DEF AwaitedBy, NewAttempt
  <2>4. Later(M, L)
    BY <1>4 DEF Later
  <2> QED
    BY <1>4, <2>1, <2>2, <2>3, <2>4 DEF Continues
<1>5. CASE UNCHANGED spend /\ Overwrite(a, L, "failed", Failed(a))
  BY <1>3, <1>5 DEF Overwrite
<1>6. CASE /\ AttemptSucceeds(a, L, assignment[a].item)
           /\ \/ \E s \in {"canceled", "failed"} : Overwrite(a, L, s, Succeeded(a))
              \/ /\ L.awaits = "primary"
                 /\ loop' = [loop EXCEPT ![a].awaits = "secondary"]
                 /\ attempts' = Succeeded(a) \cup {NewAttempt(a, L, "worker", L.verifier)}
  BY <1>3, <1>4, <1>6 DEF Overwrite
<1> QED
  BY <1>1, <1>5, <1>6 DEF DrillReturns

-----------------------------------------------------------------------------
(* What the end of an attempt does to the accounts *)

LEMMA Facts ==
  ASSUME AccountsInvariant
  PROVE  /\ LoopsInvariant /\ IsFiniteSet(attempts) /\ attempts \subseteq AttemptRecord
         /\ loop \in [Assignments -> LoopRecord]
         /\ spend \in SpendRecord
         /\ IsFiniteSet(Charged(attempts)) /\ Charged(attempts) \subseteq AttemptRecord
<1>1. /\ LoopsInvariant /\ IsFiniteSet(attempts) /\ attempts \subseteq AttemptRecord
      /\ loop \in [Assignments -> LoopRecord] /\ spend \in SpendRecord
  BY KernelTypes DEF AccountsInvariant, FreeFirstInvariant, LoopsInvariant, SpendRecord
<1> QED
  BY <1>1, FS_Subset DEF Charged

\* The attempt a loop awaits is the one its state says, not charged so far.
LEMMA RunningIsAwaited ==
  ASSUME AccountsInvariant, NEW a \in Assignments, loop[a].awaits \in Awaited
  PROVE  /\ Running(a) \in attempts /\ Running(a) \in AttemptRecord
         /\ Running(a) = AwaitedBy(a, loop[a])
         /\ ~Running(a).charged
         /\ \A t \in Failed(a) : t.by = a => t.status = "succeeded" /\ Earlier(t, loop[a])
<1>1. /\ Running(a) \in attempts /\ Running(a) \in AttemptRecord
      /\ Running(a).by = a /\ Running(a).status = "running"
  BY Facts, RunningIs
<1>2. AttemptsAreItsOwn(a)
  BY DEF AccountsInvariant
<1>3. Running(a) = AwaitedBy(a, loop[a])
  BY <1>1, <1>2 DEF AttemptsAreItsOwn
<1> QED
  BY <1>1, <1>2, <1>3 DEF AttemptsAreItsOwn, AccountsInvariant, Failed

\* No attempt with the turn, purpose and route of the awaited one has succeeded before.
LEMMA NotChargedBefore ==
  ASSUME AccountsInvariant, NEW a \in Assignments, loop[a].awaits \in Awaited,
         NEW t \in attempts, t.status = "succeeded", t.by = a,
         t.turn = Running(a).turn, t.purpose = Running(a).purpose, t.route = Running(a).route
  PROVE  FALSE
<1> DEFINE L == loop[a]
<1>1. L \in LoopRecord /\ L.turn \in Nat
  BY Facts, AutonomyAssumption DEF LoopRecord
<1>2. Running(a) = AwaitedBy(a, L)
  BY RunningIsAwaited
<1>3. /\ t.turn = L.turn
      /\ t.purpose = IF L.awaits = "verifier" THEN "verifier" ELSE "worker"
      /\ t.route = IF L.awaits \in {"worker", "primary"} THEN L.worker ELSE L.verifier
  BY <1>2 DEF AwaitedBy, NewAttempt
<1>4. t # AwaitedBy(a, L)
  BY DEF AwaitedBy, NewAttempt
<1>5. Earlier(t, L) /\ (L.awaits = "secondary" => L.worker # L.verifier)
  BY <1>4 DEF AccountsInvariant, AttemptsAreItsOwn
<1> QED
  BY <1>1, <1>3, <1>5 DEF Earlier

\* A failed attempt was not charged; one that succeeded adds its estimate if metered.
LEMMA CostAfter ==
  ASSUME AccountsInvariant, NEW a \in Assignments, loop[a].awaits \in Awaited
  PROVE  /\ Cost(Charged(Failed(a))) = Cost(Charged(attempts))
         /\ Cost(Charged(Succeeded(a))) = Cost(Charged(attempts)) +
              (IF Running(a).route \in Metered THEN Estimate[Running(a).route] ELSE 0)
<1> DEFINE R == Running(a)
           metered == R.route \in Metered
           t == [R EXCEPT !.status = "succeeded", !.charged = metered]
<1>1. R \in attempts /\ R \in AttemptRecord /\ ~R.charged /\ R.by = a
  BY RunningIsAwaited, RunningIs, Facts
<1>2. Charged(Failed(a)) = Charged(attempts)
  BY <1>1 DEF Charged, Failed
<1>3. metered \in BOOLEAN
  OBVIOUS
<1>4. Succeeded(a) = Failed(a) \cup {t}
  BY DEF Succeeded
<1> HIDE DEF metered
<1>5. /\ t \in AttemptRecord /\ t.status = "succeeded" /\ t.charged = metered /\ t.by = a
      /\ t.turn = R.turn /\ t.purpose = R.purpose /\ t.route = R.route
  BY <1>1, <1>3 DEF AttemptRecord
<1>6. t \notin attempts
  <2> HIDE DEF t
  <2> QED
    BY <1>5, NotChargedBefore
<1> HIDE DEF t
<1>7. CASE metered
  <2>1. Charged(Succeeded(a)) = Charged(attempts) \cup {t}
    BY <1>2, <1>4, <1>5, <1>7 DEF Charged
  <2>2. t \notin Charged(attempts)
    BY <1>6 DEF Charged
  <2>3. Cost(Charged(attempts) \cup {t}) = Cost(Charged(attempts)) + Estimate[t.route]
    BY <1>5, <2>2, Facts, CostWith
  <2> QED
    BY <1>2, <1>5, <1>7, <2>1, <2>3 DEF metered
<1>8. CASE ~metered
  <2>1. Charged(Succeeded(a)) = Charged(attempts)
    BY <1>2, <1>4, <1>5, <1>8 DEF Charged
  <2>2. Cost(Charged(attempts)) \in Nat
    BY Facts, CostIsNatural
  <2> QED
    BY <1>2, <1>8, <2>1, <2>2 DEF metered
<1> QED
  BY <1>7, <1>8

LEMMA SpendAfterSuccess ==
  ASSUME NEW sp \in SpendRecord, NEW r \in Routes
  PROVE  /\ SpendAfter(r, sp).direct = sp.direct
         /\ SpendAfter(r, sp).spent = sp.spent + (IF r \in Metered THEN Estimate[r] ELSE 0)
<1>1. Estimate[r] \in Nat
  BY AutonomyAssumption
<1> QED
  BY <1>1 DEF SpendAfter, Spent, SpendRecord

-----------------------------------------------------------------------------
(* Every step keeps the accounts *)

\* Of any step: the attempts of a loop that the step leaves alone, or ends.
LEMMA OthersKeepTheirs ==
  ASSUME AccountsInvariant, NEW b \in Assignments, Ends(b),
         \A t \in attempts' : t.by = b => t \in attempts \/ (loop[b].awaits \in Awaited /\ loop'[b] # loop[b])
  PROVE  AttemptsAreItsOwn(b)'
<1>1. AttemptsAreItsOwn(b) /\ LoopHolds(b)
  BY Facts DEF AccountsInvariant, LoopsInvariant
<1>2. CASE loop'[b] = loop[b]
  BY <1>1, <1>2 DEF AttemptsAreItsOwn
<1>3. CASE loop'[b].status # "none" /\ loop'[b].awaits \notin Awaited
  BY <1>3 DEF AttemptsAreItsOwn, Awaited
<1> QED
  BY <1>2, <1>3 DEF Ends

LEMMA RunningOnesDoNotCount ==
  ASSUME NEW atts, \A t \in atts : t.status = "running" => ~t.charged, atts \subseteq AttemptRecord
  PROVE  Charged(Surviving(TRUE, atts)) = Charged(atts)
  BY DEF Charged, Surviving, AttemptRecord

\* A step that at most kills.
LEMMA KillsKeep ==
  ASSUME AccountsInvariant, FreeFirstInvariant', NEW killed \in BOOLEAN,
         loop' = LoopsAfter(killed, loop), attempts' = Surviving(killed, attempts), UNCHANGED spend
  PROVE  AccountsInvariant'
<1>1. attempts' \in {attempts, Surviving(TRUE, attempts)}
  BY SurvivesOrNot
<1>2. \A b \in Assignments : Ends(b)
  BY Facts, AllEnd
<1>3. attempts' \subseteq attempts
  BY <1>1 DEF Surviving
<1>4. \A b \in Assignments : AttemptsAreItsOwn(b)'
  BY <1>2, <1>3, OthersKeepTheirs
<1>5. \A t \in attempts' : t.status = "running" => ~t.charged
  BY <1>3 DEF AccountsInvariant
<1>6. Charged(attempts)' = Charged(attempts)
  BY <1>1, Facts, RunningOnesDoNotCount DEF AccountsInvariant, Charged
<1> QED
  BY <1>4, <1>5, <1>6 DEF AccountsInvariant

LEMMA SpendOnlyKeeps ==
  ASSUME AccountsInvariant, FreeFirstInvariant', UNCHANGED <<loop, attempts>>,
         spend'.spent - spend'.direct = spend.spent - spend.direct
  PROVE  AccountsInvariant'
<1>1. \A b \in Assignments : AttemptsAreItsOwn(b)'
  BY DEF AccountsInvariant, AttemptsAreItsOwn
<1>2. Cost(Charged(attempts)) \in Nat /\ Cost(Charged(attempts))' = Cost(Charged(attempts))
  BY Facts, CostIsNatural DEF Charged
<1>3. /\ spend.spent \in Nat /\ spend.direct \in Nat
      /\ spend'.spent \in Nat /\ spend'.direct \in Nat
  BY Facts, KernelTypes DEF SpendRecord, FreeFirstInvariant, LoopsInvariant, KernelTypeOK
<1> QED
  BY <1>1, <1>2, <1>3 DEF AccountsInvariant

\* An attempt that was made before the one a loop awaits is earlier than any later one.
LEMMA EarlierLasts ==
  ASSUME NEW L \in LoopRecord, NEW M \in LoopRecord, Later(M, L),
         NEW t \in AttemptRecord, Earlier(t, L) \/
           (/\ t.turn = L.turn
            /\ t.purpose = IF L.awaits = "verifier" THEN "verifier" ELSE "worker"
            /\ L.awaits = "primary" => t.route = L.worker)
  PROVE  Earlier(t, M)
<1>1. L.turn \in Nat /\ M.turn \in Nat /\ t.turn \in Nat
  BY AutonomyAssumption DEF LoopRecord, AttemptRecord
<1>2. CASE M.awaits \in {"worker", "verifier"} /\ M.turn > L.turn
  BY <1>1, <1>2 DEF Earlier
<1>3. CASE M.awaits = "verifier" /\ L.awaits = "worker" /\ M.turn = L.turn
  BY <1>1, <1>3 DEF Earlier
<1>4. CASE L.awaits = "primary" /\ M = [L EXCEPT !.awaits = "secondary"]
  <2>1. M.awaits = "secondary" /\ M.turn = L.turn /\ M.worker = L.worker
    BY <1>4 DEF LoopRecord, Awaited
  <2> QED
    BY <1>1, <1>4, <2>1 DEF Earlier
<1> QED
  BY <1>2, <1>3, <1>4 DEF Later

\* A loop goes on, or ends, after its attempt failed or succeeded.
LEMMA ContinuingKeeps ==
  ASSUME AccountsInvariant, FreeFirstInvariant', NEW a \in Assignments, loop[a].awaits \in Awaited,
         NEW atts, Continues(a, atts),
         \/ atts = Failed(a) /\ UNCHANGED spend
         \/ atts = Succeeded(a) /\ AttemptSucceeds(a, loop[a], assignment[a].item)
  PROVE  AccountsInvariant'
<1> DEFINE L == loop[a]
           M == loop'[a]
           R == Running(a)
           N == AwaitedBy(a, M)
           metered == R.route \in Metered
           done == [R EXCEPT !.status = "succeeded", !.charged = metered]
<1>1. /\ L \in LoopRecord /\ M \in LoopRecord /\ attempts \subseteq AttemptRecord
      /\ attempts' \subseteq AttemptRecord
  BY Facts, KernelTypes DEF FreeFirstInvariant, LoopsInvariant, KernelTypeOK, LoopRecord, AttemptRecord
<1>2. /\ R \in attempts /\ R \in AttemptRecord /\ R = AwaitedBy(a, L)
      /\ \A t \in Failed(a) : t.by = a => t.status = "succeeded" /\ Earlier(t, L)
  BY RunningIsAwaited
<1>3. metered \in BOOLEAN
  OBVIOUS
<1>4. Succeeded(a) = Failed(a) \cup {done}
  BY DEF Succeeded
<1>5. /\ R.by = a /\ R.turn = L.turn
      /\ R.purpose = IF L.awaits = "verifier" THEN "verifier" ELSE "worker"
      /\ L.awaits = "primary" => R.route = L.worker
  BY <1>2 DEF AwaitedBy, NewAttempt
<1> HIDE DEF metered
<1>6. /\ done \in AttemptRecord /\ done.status = "succeeded" /\ done.by = a
      /\ done.turn = R.turn /\ done.purpose = R.purpose /\ done.route = R.route
  BY <1>2, <1>3, <1>5 DEF AttemptRecord
<1> HIDE DEF done
<1>7. /\ \A t \in atts : t \in attempts \/ t = done
      /\ atts \subseteq AttemptRecord
      /\ \A t \in atts : t.status = "running" => ~t.charged
  BY <1>1, <1>4, <1>6 DEF Failed, AccountsInvariant
<1>8. N.by = a /\ N.status = "running" /\ ~N.charged
  BY DEF AwaitedBy, NewAttempt
<1> HIDE DEF R, N
<1>9. /\ \A t \in attempts' : t \in atts \/ (t = N /\ Later(M, L))
      /\ Charged(attempts') = Charged(atts)
  <2>1. CASE Later(M, L) /\ attempts' = atts \cup {N}
    BY <1>8, <2>1 DEF Charged
  <2>2. CASE attempts' \in {atts, Surviving(TRUE, atts)}
    BY <1>7, <2>2, RunningOnesDoNotCount DEF Surviving
  <2> QED
    BY <2>1, <2>2 DEF Continues, N
<1>10. \A t \in attempts' : t.status = "running" => ~t.charged
  BY <1>7, <1>8, <1>9
<1>11. ASSUME NEW b \in Assignments, b # a PROVE AttemptsAreItsOwn(b)'
  <2>1. \A t \in attempts' : t.by = b => t \in attempts
    BY <1>6, <1>7, <1>8, <1>9, <1>11
  <2> QED
    BY <1>11, <2>1, OthersKeepTheirs DEF Continues
<1>12. AttemptsAreItsOwn(a)'
  <2>1. CASE Later(M, L)
    <3>1. ASSUME NEW t \in atts, t.by = a PROVE t.status = "succeeded" /\ Earlier(t, M)
      <4>1. t \in Failed(a) \/ t = done
        BY <1>4, <3>1
      <4>2. t \in AttemptRecord /\ t.status = "succeeded"
        BY <1>2, <1>6, <1>7, <3>1, <4>1
      <4>3. Earlier(t, L) \/ (/\ t.turn = L.turn
                              /\ t.purpose = IF L.awaits = "verifier" THEN "verifier" ELSE "worker"
                              /\ L.awaits = "primary" => t.route = L.worker)
        BY <1>2, <1>5, <1>6, <3>1, <4>1
      <4> QED
        BY <1>1, <2>1, <4>2, <4>3, EarlierLasts
    <3>2. M.awaits \in {"primary", "secondary"} => M.worker # M.verifier
      <4>1. L.awaits = "primary" => L.worker # L.verifier
        BY DEF AccountsInvariant, AttemptsAreItsOwn
      <4> QED
        BY <1>1, <2>1, <4>1 DEF Later, LoopRecord, Awaited
    <3> QED
      BY <1>9, <3>1, <3>2 DEF AttemptsAreItsOwn, Continues, N
  <2>2. CASE M.awaits \notin Awaited
    BY <2>2 DEF AttemptsAreItsOwn, Continues, Awaited
  <2> QED
    BY <2>1, <2>2 DEF Continues
<1>13. spend'.spent = spend'.direct + Cost(Charged(atts))
  <2>1. Cost(Charged(attempts)) \in Nat /\ spend \in SpendRecord /\ R.route \in Routes
    BY <1>2, Facts, CostIsNatural DEF AttemptRecord
  <2>2. /\ spend.spent = spend.direct + Cost(Charged(attempts))
        /\ spend.spent \in Nat /\ spend.direct \in Nat
    BY <2>1 DEF AccountsInvariant, SpendRecord
  <2>3. CASE atts = Failed(a) /\ UNCHANGED spend
    BY <2>2, <2>3, CostAfter
  <2>4. CASE atts = Succeeded(a) /\ AttemptSucceeds(a, L, assignment[a].item)
    <3>1. spend' = SpendAfter(R.route, spend)
      BY <2>4 DEF AttemptSucceeds, R
    <3>2. /\ spend'.direct = spend.direct
          /\ spend'.spent = spend.spent + (IF R.route \in Metered THEN Estimate[R.route] ELSE 0)
      BY <2>1, <3>1, SpendAfterSuccess
    <3>3. Cost(Charged(atts)) =
            Cost(Charged(attempts)) + (IF R.route \in Metered THEN Estimate[R.route] ELSE 0)
      BY <2>4, CostAfter DEF R
    <3>4. (IF R.route \in Metered THEN Estimate[R.route] ELSE 0) \in Nat
      BY <2>1, AutonomyAssumption
    <3> QED
      BY <2>1, <2>2, <3>2, <3>3, <3>4
  <2> QED
    BY <2>3, <2>4
<1>14. Cost(Charged(attempts))' = Cost(Charged(atts))
  BY <1>9 DEF Charged
<1> QED
  BY <1>10, <1>11, <1>12, <1>13, <1>14 DEF AccountsInvariant

LEMMA ReturnsContinue ==
  ASSUME LoopsInvariant, NEW a \in Assignments, Returns(a)
  PROVE  /\ loop[a].awaits \in Awaited
         /\ \/ UNCHANGED spend /\ Continues(a, Failed(a))
            \/ AttemptSucceeds(a, loop[a], assignment[a].item) /\ Continues(a, Succeeded(a))
<1> DEFINE w == assignment[a].item
<1>1. CASE WorkerReturns(a)
  <2>1. loop[a].awaits = "worker" /\ loop[a].awaits \in Awaited /\ Acting(a, loop[a])
    BY <1>1, ReturnsActing DEF WorkerReturns
  <2>2. \/ UNCHANGED spend /\ ReplaceWorker(a, w, loop[a], Failed(a))
        \/ AttemptSucceeds(a, loop[a], w) /\ Verify(a, w, loop[a], Succeeded(a), spend')
    BY <1>1 DEF WorkerReturns
  <2> QED
    BY <2>1, <2>2, ReplaceWorkerContinues, VerifyContinues
<1>2. CASE VerifierReturns(a)
  <2>1. /\ loop[a].awaits \in Awaited /\ Acting(a, loop[a])
        /\ loop[a].verifier \in Routes
    BY <1>2, ReturnsActing DEF VerifierReturns
  <2>2. \/ UNCHANGED spend /\ ReplaceVerifier(a, w, loop[a], Failed(a), spend)
        \/ /\ AttemptSucceeds(a, loop[a], w)
           /\ \/ Settle(a, loop[a], "passed", "passed", Succeeded(a))
              \/ NextTurn(a, w, loop[a], Succeeded(a), spend')
    BY <1>2 DEF VerifierReturns
  <2> QED
    BY <2>1, <2>2, ReplaceVerifierContinues, SettleContinues, NextTurnContinues
<1>3. CASE DrillReturns(a)
  <2>1. loop[a].awaits \in Awaited
    BY <1>3 DEF DrillReturns, Awaited
  <2> QED
    BY <1>3, <2>1, DrillContinues
<1> QED
  BY <1>1, <1>2, <1>3 DEF Returns

LEMMA ReturnsKeepAccounts ==
  ASSUME AccountsInvariant, FreeFirstInvariant', NEW a \in Assignments, Returns(a)
  PROVE  AccountsInvariant'
BY Facts, ReturnsContinue, ContinuingKeeps

\* The one attempt of the killed loop that stays was not charged, and is its last.
LEMMA KilledBeforeChargeKeeps ==
  ASSUME AccountsInvariant, FreeFirstInvariant', NEW a \in Assignments, KilledBeforeCharge(a)
  PROVE  AccountsInvariant'
<1> DEFINE t == [Running(a) EXCEPT !.status = "succeeded"]
<1>1. /\ loop[a].awaits \in Awaited /\ UNCHANGED spend
      /\ attempts' = Surviving(TRUE, Failed(a)) \cup {t}
      /\ loop' = LoopsAfter(TRUE, loop)
  BY DEF KilledBeforeCharge
<1>2. Running(a) \in attempts /\ Running(a) \in AttemptRecord /\ ~Running(a).charged /\ Running(a).by = a
  BY <1>1, RunningIsAwaited, RunningIs, Facts
<1>3. t \in AttemptRecord /\ t.status = "succeeded" /\ ~t.charged /\ t.by = a
  BY <1>2 DEF AttemptRecord
<1> HIDE DEF t
<1>4. \A s \in attempts' : s = t \/ (s \in attempts /\ s.status = "succeeded")
  BY <1>1 DEF Surviving, Failed
<1>5. \A b \in Assignments : Ends(b)
  BY <1>1, Facts, AllEnd
<1>6. loop'[a] # loop[a]
  <2>1. loop'[a].awaits = "lost"
    BY <1>1, Facts, AfterKill
  <2> QED
    BY <1>1, <2>1 DEF Awaited
<1>7. \A b \in Assignments : AttemptsAreItsOwn(b)'
  BY <1>1, <1>3, <1>4, <1>5, <1>6, OthersKeepTheirs
<1>8. Charged(attempts') = Charged(attempts)
  <2>1. Charged(attempts') = Charged(Surviving(TRUE, Failed(a)))
    BY <1>1, <1>3 DEF Charged
  <2>2. Charged(Surviving(TRUE, Failed(a))) = Charged(Failed(a))
    BY Facts, RunningOnesDoNotCount DEF Failed, AccountsInvariant
  <2>3. Charged(Failed(a)) = Charged(attempts)
    BY <1>2 DEF Charged, Failed
  <2> QED
    BY <2>1, <2>2, <2>3
<1>9. Cost(Charged(attempts))' = Cost(Charged(attempts))
  BY <1>8 DEF Charged
<1>10. \A s \in attempts' : s.status = "running" => ~s.charged
  BY <1>3, <1>4
<1> QED
  BY <1>1, <1>7, <1>9, <1>10 DEF AccountsInvariant

-----------------------------------------------------------------------------
(* A loop that begins *)

Begins(a) ==
  /\ \A b \in Assignments : b # a => Ends(b)
  /\ \/ /\ loop'[a].awaits \in {"worker", "primary"}
        /\ loop'[a].status # "none"
        /\ loop'[a].awaits = "primary" => loop'[a].worker # loop'[a].verifier
        /\ attempts' = attempts \cup {AwaitedBy(a, loop'[a])}
     \/ /\ loop'[a].awaits \notin Awaited
        /\ attempts' \in {attempts, Surviving(TRUE, attempts)}

LEMMA BeginningKeeps ==
  ASSUME AccountsInvariant, FreeFirstInvariant', NEW a \in Assignments, loop[a] = NoLoop, Begins(a),
         UNCHANGED spend
  PROVE  AccountsInvariant'
<1> DEFINE N == AwaitedBy(a, loop'[a])
<1>1. N.by = a /\ N.status = "running" /\ ~N.charged
  BY DEF AwaitedBy, NewAttempt
<1>2. \A t \in attempts : t.by # a
  BY DEF AccountsInvariant, AttemptsAreItsOwn, NoLoop
<1> HIDE DEF N
<1>3. /\ \A t \in attempts' : t \in attempts \/ (t = N /\ loop'[a].awaits \in Awaited /\ loop'[a].status # "none")
      /\ Charged(attempts') = Charged(attempts)
  <2>1. CASE attempts' = attempts \cup {N} /\ loop'[a].awaits \in Awaited /\ loop'[a].status # "none"
    BY <1>1, <2>1 DEF Charged
  <2>2. CASE attempts' \in {attempts, Surviving(TRUE, attempts)}
    BY <2>2, Facts, RunningOnesDoNotCount DEF Surviving, AccountsInvariant
  <2> QED
    BY <2>1, <2>2 DEF Begins, N, Awaited
<1>4. ASSUME NEW b \in Assignments, b # a PROVE AttemptsAreItsOwn(b)'
  <2>1. \A t \in attempts' : t.by = b => t \in attempts
    BY <1>1, <1>3, <1>4
  <2> QED
    BY <1>4, <2>1, OthersKeepTheirs DEF Begins
<1>5. AttemptsAreItsOwn(a)'
  <2>1. \A t \in attempts' : t.by = a => t = N /\ loop'[a].status # "none"
    BY <1>2, <1>3
  <2>2. loop'[a].awaits \in {"primary", "secondary"} => loop'[a].worker # loop'[a].verifier
    BY DEF Begins, Awaited
  <2> QED
    BY <2>1, <2>2 DEF AttemptsAreItsOwn, N
<1>6. \A t \in attempts' : t.status = "running" => ~t.charged
  BY <1>1, <1>3 DEF AccountsInvariant
<1>7. Cost(Charged(attempts))' = Cost(Charged(attempts))
  BY <1>3 DEF Charged
<1> QED
  BY <1>4, <1>5, <1>6, <1>7 DEF AccountsInvariant

LEMMA RunWorkItemBegins ==
  ASSUME LoopsInvariant, NEW a \in FreshIds, NEW w \in Items, NEW terms \in TermsRecord,
         NEW en \in SUBSET Routes, RunWorkItem(a, w, terms, en)
  PROVE  Begins(a)
<1>1. a \in Assignments /\ loop[a] = NoLoop /\ loop \in [Assignments -> LoopRecord]
  BY FreshLoop, KernelTypes DEF LoopsInvariant
<1>2. PICK r \in Eligibles(en, "worker", terms, w, {}, {}, spend) :
        LET verifiers == Eligibles(en, "verifier", terms, w, {}, GroupsBeside(terms, r), spend) IN
        \/ UNCHANGED <<loop, attempts>>
        \/ \E v \in IF verifiers = {} THEN {None} ELSE verifiers, k \in StatementsOf(4) \ {0} :
             LET L == FirstTurn(terms, r, v)
                 begins == MayBegin(a, w, L, r, attempts, spend)
             IN /\ loop' = LoopsAfter(k < 4, IF k < 3 THEN loop ELSE [loop EXCEPT ![a] =
                     IF k = 3 THEN Over(L, "running", "lost")
                     ELSE IF begins THEN [L EXCEPT !.awaits = "worker"]
                     ELSE Over(L, "failed", "nothing")])
                /\ attempts' = IF k = 4 /\ begins THEN attempts \cup {NewAttempt(a, L, "worker", r)}
                               ELSE Surviving(k < 4, attempts)
  BY DEF RunWorkItem
<1>3. CASE UNCHANGED <<loop, attempts>>
  BY <1>1, <1>3 DEF Begins, Ends, NoLoop, Awaited
<1>4. CASE ~UNCHANGED <<loop, attempts>>
  <2> DEFINE verifiers == Eligibles(en, "verifier", terms, w, {}, GroupsBeside(terms, r), spend)
  <2>1. PICK v \in IF verifiers = {} THEN {None} ELSE verifiers, k \in StatementsOf(4) \ {0} :
          LET L == FirstTurn(terms, r, v)
              begins == MayBegin(a, w, L, r, attempts, spend)
          IN /\ loop' = LoopsAfter(k < 4, IF k < 3 THEN loop ELSE [loop EXCEPT ![a] =
                  IF k = 3 THEN Over(L, "running", "lost")
                  ELSE IF begins THEN [L EXCEPT !.awaits = "worker"]
                  ELSE Over(L, "failed", "nothing")])
             /\ attempts' = IF k = 4 /\ begins THEN attempts \cup {NewAttempt(a, L, "worker", r)}
                            ELSE Surviving(k < 4, attempts)
    BY <1>2, <1>4
  <2> DEFINE L == FirstTurn(terms, r, v)
             begins == MayBegin(a, w, L, r, attempts, spend)
             killed == k < 4
             new == NewAttempt(a, L, "worker", r)
  <2>2. /\ loop' = LoopsAfter(killed, IF k < 3 THEN loop ELSE [loop EXCEPT ![a] =
             IF k = 3 THEN Over(L, "running", "lost")
             ELSE IF begins THEN [L EXCEPT !.awaits = "worker"]
             ELSE Over(L, "failed", "nothing")])
        /\ attempts' = IF k = 4 /\ begins THEN attempts \cup {new} ELSE Surviving(killed, attempts)
    BY <2>1
  <2>3. k \in 1..4 /\ killed \in BOOLEAN /\ (killed <=> k # 4)
    BY <2>1, Statements DEF LoopsInvariant, LifecycleInvariant
  <2>4. L \in LoopRecord /\ L.status = "running" /\ L.turn = 1 /\ L.worker = r
    <3>1. v \in Routes \cup {None} /\ r \in Routes
      BY <2>1 DEF Eligibles
    <3> QED
      BY <3>1, FirstTurnIs
  <2>5. Surviving(killed, attempts) \in {attempts, Surviving(TRUE, attempts)}
    BY <2>3, SurvivesOrNot
  <2> HIDE DEF killed, L, begins
  <2>6. CASE k < 3
    <3>1. loop' = LoopsAfter(killed, loop) /\ attempts' = Surviving(killed, attempts)
      BY <2>2, <2>3, <2>6
    <3>2. \A b \in Assignments : Ends(b)
      BY <2>3, <3>1, AllEnd
    <3>3. loop'[a].awaits \notin Awaited
      BY <1>1, <3>2 DEF Ends, NoLoop, Awaited
    <3> QED
      BY <2>5, <3>1, <3>2, <3>3 DEF Begins
  <2>7. CASE k = 3
    <3> DEFINE M == Over(L, "running", "lost")
    <3>1. M \in LoopRecord /\ M.awaits = "lost"
      BY <2>4, OverIsOne
    <3>2. loop' = LoopsAfter(killed, [loop EXCEPT ![a] = M]) /\ attempts' = Surviving(killed, attempts)
      BY <2>2, <2>3, <2>7
    <3> HIDE DEF M
    <3>3. loop'[a] = M /\ \A b \in Assignments : b # a => Ends(b)
      BY <1>1, <2>3, <3>1, <3>2, OthersEnd DEF Awaited
    <3> QED
      BY <2>5, <3>1, <3>2, <3>3 DEF Begins, Awaited
  <2>8. CASE k = 4 /\ begins
    <3> DEFINE M == [L EXCEPT !.awaits = "worker"]
    <3>1. /\ M \in LoopRecord /\ M.awaits = "worker" /\ M.status = "running"
          /\ M.worker = r /\ M.turn = L.turn
      BY <2>4 DEF LoopRecord, Awaited
    <3>2. loop' = LoopsAfter(killed, [loop EXCEPT ![a] = M]) /\ attempts' = attempts \cup {new}
      BY <2>2, <2>3, <2>8
    <3> HIDE DEF M
    <3>3. loop'[a] = M /\ \A b \in Assignments : b # a => Ends(b)
      BY <1>1, <2>3, <2>8, <3>1, <3>2, OthersEnd
    <3>4. AwaitedBy(a, M) = new
      BY <3>1 DEF AwaitedBy, NewAttempt
    <3> HIDE DEF new
    <3> QED
      BY <3>1, <3>2, <3>3, <3>4 DEF Begins
  <2>9. CASE k = 4 /\ ~begins
    <3> DEFINE M == Over(L, "failed", "nothing")
    <3>1. M \in LoopRecord /\ M.awaits = "nothing"
      BY <2>4, OverIsOne
    <3>2. loop' = LoopsAfter(killed, [loop EXCEPT ![a] = M]) /\ attempts' = Surviving(killed, attempts)
      BY <2>2, <2>3, <2>9
    <3> HIDE DEF M
    <3>3. loop'[a] = M /\ \A b \in Assignments : b # a => Ends(b)
      BY <1>1, <2>3, <2>9, <3>1, <3>2, OthersEnd
    <3> QED
      BY <2>5, <3>1, <3>2, <3>3 DEF Begins, Awaited
  <2> QED
    BY <2>3, <2>6, <2>7, <2>8, <2>9
<1> QED
  BY <1>3, <1>4

LEMMA DrillBegins ==
  ASSUME LoopsInvariant, NEW a \in FreshIds, NEW w \in Items, NEW d \in Drills,
         RunPortabilityDrill(a, w, d[1], d[2])
  PROVE  Begins(a)
<1> DEFINE p == d[1]
           v == d[2]
           L == [FirstTurn(DrillTerms(p, v), p, v) EXCEPT !.status = "drill"]
           M == [L EXCEPT !.awaits = "primary"]
           N == Over(L, "drill", "nothing")
           new == NewAttempt(a, L, "worker", p)
<1>1. a \in Assignments /\ loop[a] = NoLoop /\ loop \in [Assignments -> LoopRecord]
  BY FreshLoop, KernelTypes DEF LoopsInvariant
<1>2. p \in Routes /\ v \in Routes /\ Group[p] # Group[v]
  BY AutonomyAssumption DEF RunPortabilityDrill
<1>3. \/ loop' = [loop EXCEPT ![a] = M] /\ attempts' = attempts \cup {new}
      \/ loop' = [loop EXCEPT ![a] = N] /\ UNCHANGED attempts
  BY DEF RunPortabilityDrill
<1>4. DrillTerms(p, v) \in TermsRecord
  BY <1>2, AutonomyAssumption DEF DrillTerms, TermsRecord
<1> HIDE DEF p, v
<1>5. L \in LoopRecord /\ L.status = "drill" /\ L.worker = p /\ L.verifier = v
  BY <1>2, <1>4, FirstTurnIs DEF LoopRecord
<1> HIDE DEF L
<1>6. /\ M \in LoopRecord /\ M.status = "drill" /\ M.awaits = "primary" /\ M.turn = L.turn
      /\ M.worker = p /\ M.verifier = v
  BY <1>5 DEF LoopRecord, Awaited
<1>7. N \in LoopRecord /\ N.awaits = "nothing"
  BY <1>5, OverIsOne
<1>8. AwaitedBy(a, M) = new
  BY <1>6 DEF AwaitedBy, NewAttempt
<1> HIDE DEF M, N, new
<1>9. \A b \in Assignments : b # a => Ends(b)
  BY <1>1, <1>3 DEF Ends
<1>10. \/ loop'[a] = M /\ attempts' = attempts \cup {new}
       \/ loop'[a] = N /\ UNCHANGED attempts
  BY <1>1, <1>3
<1> QED
  BY <1>2, <1>6, <1>7, <1>8, <1>9, <1>10 DEF Begins, Awaited

LEMMA StartsBegin ==
  ASSUME FreeFirstInvariant, FreeFirstInvariant', LoopStarts
  PROVE  \E a \in Assignments : loop[a] = NoLoop /\ Begins(a) /\ UNCHANGED spend
<1>0. LoopsInvariant /\ LoopsInvariant'
  BY DEF FreeFirstInvariant
<1>1. PICK a \in FreshIds, w \in Items :
        \/ \E terms \in Terms : RunWorkItem(a, w, terms, enabled)
        \/ \E d \in Drills : RunPortabilityDrill(a, w, d[1], d[2])
        \/ RunFreeFirstWorkItem(a, w)
  BY DEF LoopStarts
<1>2. enabled \in SUBSET Routes /\ enabled' \in SUBSET Routes
  BY <1>0 DEF LoopsInvariant, KernelTypeOK
<1>3. a \in Assignments /\ loop[a] = NoLoop
  BY <1>0, FreshLoop
<1>4. CASE \E terms \in Terms : RunWorkItem(a, w, terms, enabled)
  <2>1. PICK terms \in TermsRecord : RunWorkItem(a, w, terms, enabled)
    BY <1>4, AutonomyAssumption DEF TermsRecord
  <2>2. Begins(a)
    BY <1>0, <1>2, <2>1, RunWorkItemBegins
  <2>3. UNCHANGED spend
    BY <2>1 DEF RunWorkItem
  <2> QED
    BY <1>3, <2>2, <2>3
<1>5. CASE \E d \in Drills : RunPortabilityDrill(a, w, d[1], d[2])
  <2>1. PICK d \in Drills : RunPortabilityDrill(a, w, d[1], d[2])
    BY <1>5
  <2>2. Begins(a)
    BY <1>0, <2>1, DrillBegins
  <2>3. UNCHANGED spend
    BY <2>1 DEF RunPortabilityDrill
  <2> QED
    BY <1>3, <2>2, <2>3
<1>6. CASE RunFreeFirstWorkItem(a, w)
  <2>1. RunWorkItem(a, w, FreeTerms, enabled') /\ FreeTerms \in TermsRecord
    BY <1>6 DEF RunFreeFirstWorkItem, FreeTerms, TermsRecord
  <2>2. Begins(a)
    BY <1>0, <1>2, <2>1, RunWorkItemBegins
  <2>3. UNCHANGED spend
    BY <2>1 DEF RunWorkItem
  <2> QED
    BY <1>3, <2>2, <2>3
<1> QED
  BY <1>1, <1>4, <1>5, <1>6

LEMMA StartsKeepAccounts ==
  ASSUME AccountsInvariant, FreeFirstInvariant', LoopStarts
  PROVE  AccountsInvariant'
BY StartsBegin, BeginningKeeps DEF AccountsInvariant

-----------------------------------------------------------------------------
(* The theorem *)

LEMMA SpendStepKeepsAccounts ==
  ASSUME AccountsInvariant, FreeFirstInvariant', SpendStep
  PROVE  AccountsInvariant'
<1>1. spend \in SpendRecord /\ UNCHANGED <<loop, attempts>>
  BY Facts, SpendStepKeeps DEF AccountsInvariant
<1>2. CASE \E amount \in Amounts : ExecuteMeteredAction(amount)
  <2>1. PICK amount \in Amounts : spend' = [Spent(spend, amount) EXCEPT !.direct = @ + amount]
    BY <1>2 DEF ExecuteMeteredAction
  <2>2. amount \in Nat /\ spend.spent \in Nat /\ spend.direct \in Nat
    BY <1>1, AutonomyAssumption DEF SpendRecord
  <2>3. spend'.spent = spend.spent + amount /\ spend'.direct = spend.direct + amount
    BY <1>1, <2>1 DEF SpendRecord, Spent
  <2>4. spend'.spent - spend'.direct = spend.spent - spend.direct
    BY <2>2, <2>3
  <2> QED
    BY <1>1, <2>4, SpendOnlyKeeps
<1>3. CASE ~(\E amount \in Amounts : ExecuteMeteredAction(amount))
  <2>1. ASSUME NEW w \in Items, RequestSpend(w)
        PROVE  spend'.spent = spend.spent /\ spend'.direct = spend.direct
    BY <1>1, <2>1 DEF RequestSpend, SpendRecord
  <2>2. ASSUME NEW decision, ResolveApproval(decision) \/ ResolveSpendRequest(decision)
        PROVE  spend'.spent = spend.spent /\ spend'.direct = spend.direct
    BY <1>1, <2>2 DEF ResolveApproval, ResolveSpendRequest, SpendRecord
  <2>3. spend'.spent = spend.spent /\ spend'.direct = spend.direct
    BY <1>3, <2>1, <2>2 DEF SpendStep
  <2> QED
    BY <1>1, <2>3, SpendOnlyKeeps
<1> QED
  BY <1>2, <1>3

LEMMA NextKeepsAccounts ==
  ASSUME AccountsInvariant, [Next]_vars
  PROVE  AccountsInvariant'
<1>1. FreeFirstInvariant'
  BY NextKeeps DEF AccountsInvariant
<1>2. CASE ApiStep
  <2> DEFINE killed == crashes' > crashes
  <2>1. killed \in BOOLEAN
    OBVIOUS
  <2>2. loop' = LoopsAfter(killed, loop) /\ attempts' = Surviving(killed, attempts) /\ UNCHANGED spend
    BY <1>2 DEF ApiStep
  <2> HIDE DEF killed
  <2> QED
    BY <1>1, <2>1, <2>2, KillsKeep
<1>3. CASE SpendStep
  BY <1>1, <1>3, SpendStepKeepsAccounts
<1>4. CASE LoopStarts
  BY <1>1, <1>4, StartsKeepAccounts
<1>5. CASE \E a \in Assignments : Returns(a)
  BY <1>1, <1>5, ReturnsKeepAccounts
<1>6. CASE \E a \in Assignments : KilledBeforeCharge(a) /\ UNCHANGED quotaVars
  BY <1>1, <1>6, KilledBeforeChargeKeeps
<1>7. CASE KilledInSync \/ Crash
  <2>1. loop' = LoopsAfter(TRUE, loop) /\ attempts' = Surviving(TRUE, attempts) /\ UNCHANGED spend
    BY <1>7 DEF KilledInSync, Crash
  <2> QED
    BY <1>1, <2>1, KillsKeep
<1>8. CASE SyncUsageFromAttempts \/ ApplyPolicy \/ ProvisionFreeRoutes \/ UNCHANGED vars
  <2>1. UNCHANGED <<loop, attempts, spend>>
    BY <1>8 DEF SyncUsageFromAttempts, ApplyPolicy, ProvisionFreeRoutes, vars, kernelVars
  <2> QED
    BY <1>1, <2>1, SpendOnlyKeeps
<1> QED
  BY <1>2, <1>3, <1>4, <1>5, <1>6, <1>7, <1>8 DEF Next

LEMMA InitialAccounts == Init => AccountsInvariant
<1> SUFFICES ASSUME Init PROVE AccountsInvariant
  OBVIOUS
<1>1. /\ loop = [a \in Assignments |-> NoLoop] /\ attempts = {}
      /\ spend.spent = 0 /\ spend.direct = 0
  BY DEF Init, KernelInit, NoSpend
<1>2. Charged(attempts) = {} /\ Cost({}) = 0
  BY <1>1, CostUnfolds, FS_EmptySet DEF Charged
<1>3. \A a \in Assignments : AttemptsAreItsOwn(a)
  BY <1>1 DEF AttemptsAreItsOwn, NoLoop, Awaited
<1> QED
  BY <1>1, <1>2, <1>3, InitHolds DEF AccountsInvariant

\* The inductive invariant of the accounts: every loop's attempts are told apart, and
\* the envelope's amount is what metered actions and charged attempts cost.
THEOREM AccountsHold == Spec => []AccountsInvariant
<1>1. AccountsInvariant /\ [Next]_vars => AccountsInvariant'
  BY NextKeepsAccounts
<1> QED
  BY <1>1, InitialAccounts, PTL DEF Spec

\* Whatever loops, drills and metered actions do between the check of the envelope and
\* the charge, its amount is the sum of what was charged and within what was approved;
\* and unless the process was killed, every metered success was charged.
THEOREM SpendIsWhatWasCharged == Spec => []SpendIsAccounted
<1>1. AccountsInvariant => SpendIsAccounted
  <2> SUFFICES ASSUME AccountsInvariant PROVE SpendIsAccounted
    OBVIOUS
  <2>1. WithinApproval
    BY DEF AccountsInvariant, FreeFirstInvariant
  <2>2. spend.spent = spend.direct + MapThenSumSet(LAMBDA t : Estimate[t.route], {t \in attempts : t.charged})
    BY DEF AccountsInvariant, Cost, Charged
  <2> QED
    BY <2>1, <2>2 DEF SpendIsAccounted, WithinApproval
<1> QED
  BY <1>1, AccountsHold, PTL

-----------------------------------------------------------------------------
(***************************************************************************)
(* What makes a loop end.  That it does takes fairness, which is left to   *)
(* TLC; what fairness is applied to is proved here.                        *)
(***************************************************************************)

\* How many attempts, at most, a loop has left: a worker's and a verifier's in each
\* iteration, and in a drill the first route's and the second's.
AttemptsLeft(L) ==
  IF L.awaits \notin Awaited THEN 0
  ELSE 2 * (MaxIterations - L.turn) + (IF L.awaits \in {"worker", "primary"} THEN 2 ELSE 1)

Fewer(a) == AttemptsLeft(loop'[a]) < AttemptsLeft(loop[a])

LEMMA LaterHasFewer ==
  ASSUME LoopsInvariant, LoopsInvariant', NEW a \in Assignments, loop[a].awaits \in Awaited,
         loop'[a].awaits \notin Awaited \/ Later(loop'[a], loop[a])
  PROVE  Fewer(a)
<1> DEFINE L == loop[a]
           M == loop'[a]
<1>1. L \in LoopRecord /\ L.turn \in 1..MaxIterations /\ MaxIterations \in Nat
  BY KernelTypes, AutonomyAssumption DEF LoopsInvariant, LoopHolds, GoesOn
<1>2. AttemptsLeft(L) = 2 * (MaxIterations - L.turn) + (IF L.awaits \in {"worker", "primary"} THEN 2 ELSE 1)
  BY DEF AttemptsLeft
<1>3. CASE M.awaits \notin Awaited
  BY <1>1, <1>2, <1>3 DEF AttemptsLeft, Fewer
<1>4. CASE M.awaits \in Awaited
  <2>1. M.turn \in 1..MaxIterations
    BY <1>4 DEF LoopsInvariant, LoopHolds, GoesOn
  <2>2. AttemptsLeft(M) = 2 * (MaxIterations - M.turn) + (IF M.awaits \in {"worker", "primary"} THEN 2 ELSE 1)
    BY <1>4 DEF AttemptsLeft
  <2>3. CASE M.turn > L.turn
    BY <1>1, <1>2, <2>1, <2>2, <2>3 DEF Fewer
  <2>4. CASE M.turn = L.turn /\ M.awaits \in {"verifier", "secondary"} /\ L.awaits \in {"worker", "primary"}
    BY <1>1, <1>2, <2>1, <2>2, <2>4 DEF Fewer
  <2>5. (M = [L EXCEPT !.awaits = "secondary"]) => M.turn = L.turn /\ M.awaits = "secondary"
    BY <1>1 DEF LoopRecord
  <2> QED
    BY <1>4, <2>3, <2>4, <2>5 DEF Later
<1> QED
  BY <1>3, <1>4

\* No step but its own moves a loop that awaits, unless it ends it.
LEMMA OnlyReturnsContinue ==
  ASSUME FreeFirstInvariant, FreeFirstInvariant', [Next]_vars, NEW b \in Assignments,
         loop[b].awaits \in Awaited, ~Returns(b)
  PROVE  loop'[b] = loop[b] \/ loop'[b].awaits \notin Awaited
<1>0. LoopsInvariant
  BY DEF FreeFirstInvariant
<1>1. CASE ApiStep
  <2> DEFINE killed == crashes' > crashes
  <2>1. killed \in BOOLEAN
    OBVIOUS
  <2>2. loop' = LoopsAfter(killed, loop)
    BY <1>1 DEF ApiStep
  <2> HIDE DEF killed
  <2> QED
    BY <1>0, <2>1, <2>2, AllEnd DEF Ends
<1>2. CASE SpendStep
  BY <1>2, SpendStepKeeps DEF FreeFirstInvariant
<1>3. CASE LoopStarts
  <2>1. PICK a \in Assignments : loop[a] = NoLoop /\ Begins(a)
    BY <1>3, StartsBegin
  <2> QED
    BY <2>1 DEF Begins, Ends, NoLoop, Awaited
<1>4. CASE \E a \in Assignments : Returns(a)
  BY <1>0, <1>4, ReturnsContinue DEF Continues, Ends
<1>5. CASE (\E a \in Assignments : KilledBeforeCharge(a)) \/ KilledInSync \/ Crash
  <2>1. loop' = LoopsAfter(TRUE, loop)
    BY <1>5 DEF KilledBeforeCharge, KilledInSync, Crash
  <2> QED
    BY <1>0, <2>1, AllEnd DEF Ends
<1>6. CASE SyncUsageFromAttempts \/ ApplyPolicy \/ ProvisionFreeRoutes \/ UNCHANGED vars
  BY <1>6 DEF SyncUsageFromAttempts, ApplyPolicy, ProvisionFreeRoutes, vars, kernelVars
<1> QED
  BY <1>1, <1>2, <1>3, <1>4, <1>5, <1>6 DEF Next

\* Each time the provider of a loop returns the loop has fewer attempts left, and
\* nothing else that happens gives it more: no sequence of failures, replacements and
\* repairs makes more than two attempts an iteration.
LoopsComeToAnEnd ==
  [][\A a \in Assignments :
       /\ Returns(a) => Fewer(a)
       /\ loop[a].awaits \in Awaited /\ loop'[a] # loop[a] => Fewer(a)]_vars

\* A loop has a bounded number of attempts, however its routes fail or are replaced.
THEOREM LoopsAreBounded == Spec => LoopsComeToAnEnd
<1> DEFINE Forward ==
      \A a \in Assignments :
        /\ Returns(a) => Fewer(a)
        /\ loop[a].awaits \in Awaited /\ loop'[a] # loop[a] => Fewer(a)
<1>1. ASSUME FreeFirstInvariant, FreeFirstInvariant', [Next]_vars, NEW a \in Assignments
      PROVE  /\ Returns(a) => Fewer(a)
             /\ loop[a].awaits \in Awaited /\ loop'[a] # loop[a] => Fewer(a)
  <2>1. LoopsInvariant /\ LoopsInvariant'
    BY <1>1 DEF FreeFirstInvariant
  <2>2. Returns(a) => Fewer(a)
    BY <2>1, ReturnsContinue, LaterHasFewer DEF Continues
  <2>3. loop[a].awaits \in Awaited /\ loop'[a] # loop[a] => Fewer(a)
    BY <1>1, <2>1, <2>2, OnlyReturnsContinue, LaterHasFewer
  <2> QED
    BY <2>2, <2>3
<1>2. FreeFirstInvariant /\ FreeFirstInvariant' /\ [Next]_vars => [Forward]_vars
  BY <1>1
<1> QED
  BY <1>2, FreeFirstInvariantHolds, PTL DEF Spec, LoopsComeToAnEnd
=============================================================================
