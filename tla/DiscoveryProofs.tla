--------------------------- MODULE DiscoveryProofs ---------------------------
(***************************************************************************)
(* Proofs about Discovery, for every number of rounds and every set of     *)
(* question keys: the inductive invariant and what follows from it.        *)
(***************************************************************************)
EXTENDS Discovery, SequenceTheorems, TLAPS

\* A step that rewrites rounds without starting one keeps their number.
LEMMA Rewritten ==
  ASSUME TypeOK, NEW f \in [Rounds -> Run]
  PROVE  f \in Seq(Run) /\ Len(f) = Len(runs)
<1>1. Len(runs) \in Nat
  BY LenProperties DEF TypeOK
<1>2. f \in Seq(Run)
  BY <1>1, SeqDef DEF Rounds
<1>3. DOMAIN f = 1..Len(f) /\ Len(f) \in Nat
  BY <1>2, LenProperties
<1> QED
  BY <1>1, <1>2, <1>3 DEF Rounds

LEMMA RoundsAreRuns == TypeOK => runs \in [Rounds -> Run] /\ Len(runs) \in Nat
  BY LenProperties DEF TypeOK, Rounds

\* Before the first round nothing is live, heard or accepted.
LEMMA InitInvariant == Init => DiscoveryInvariant
<1> SUFFICES ASSUME Init PROVE DiscoveryInvariant
  OBVIOUS
<1>1. runs = << >> /\ << >> \in Seq(Run) /\ Len(<< >>) = 0
  BY EmptySeq DEF Init
<1>2. TypeOK
  <2>1. runs \in Seq(Run) /\ Len(runs) = 0
    BY <1>1
  <2>2. Len(runs) <= MaxRounds /\ 0 \in 0..Len(runs) /\ 0 \in 0..MaxBriefs
    BY <2>1, RoundsAssumption, BriefsAssumption
  <2> QED
    BY <2>1, <2>2 DEF TypeOK, Init
<1>3. Rounds = {}
  BY <1>1 DEF Rounds
<1> QED
  BY <1>2, <1>3 DEF DiscoveryInvariant, Init, AwaitedRunning, OneLiveAnalysis, AnswersAreHeard,
                    ProvenanceHeld

\* A new round is not live, and has heard every answer given so far.
LEMMA AnalysisStartsPreserves ==
  ASSUME DiscoveryInvariant, AnalysisStarts
  PROVE  DiscoveryInvariant'
<1> DEFINE new == [status |-> "running", question |-> [k \in Keys |-> "none"],
                   findings |-> "none", research |-> FALSE, decision |-> "none",
                   recommendation |-> "none", heard |-> Closed]
<1>1. TypeOK /\ Len(runs) \in Nat
  BY RoundsAreRuns DEF DiscoveryInvariant
<1>2. new \in Run
  <2>1. Closed \in SUBSET (Nat \X Keys)
    BY <1>1 DEF Closed, Rounds
  <2> QED
    BY <2>1 DEF Run, QuestionStatus, ProposalStatus
<1>3. /\ runs' \in Seq(Run)
      /\ Len(runs') = Len(runs) + 1
      /\ \A n \in Rounds : runs'[n] = runs[n]
      /\ runs'[Len(runs) + 1] = new
  BY <1>1, <1>2 DEF AnalysisStarts, TypeOK, Rounds
<1>4. Rounds' = Rounds \cup {Len(runs) + 1} /\ Len(runs) + 1 \notin Rounds
  BY <1>1, <1>3 DEF Rounds
<1>5. TypeOK'
  <2>1. Len(runs') <= MaxRounds
    BY <1>3 DEF AnalysisStarts, Startable
  <2>2. awaited' \subseteq 1..Len(runs') /\ provenance' \in 0..Len(runs')
    <3>1. provenance' = provenance /\ awaited' = awaited \cup {Len(runs) + 1}
      BY DEF AnalysisStarts, canonical
    <3>2. awaited \subseteq 1..Len(runs) /\ provenance \in 0..Len(runs)
      BY <1>1 DEF TypeOK
    <3>3. PICK last \in Nat : last = Len(runs)
      BY <1>1
    <3>4. Len(runs') = last + 1
      BY <1>3, <3>3
    <3>5. awaited' \subseteq 1..(last + 1)
      <4>1. \A n \in awaited : n \in 1..last
        BY <3>2, <3>3
      <4>2. \A n \in 1..last : n \in 1..(last + 1)
        OBVIOUS
      <4>3. last + 1 \in 1..(last + 1)
        OBVIOUS
      <4>4. awaited' = awaited \cup {last + 1}
        BY <3>1, <3>3
      <4> QED
        BY <4>1, <4>2, <4>3, <4>4
    <3>6. provenance' \in 0..last + 1
      BY <3>1, <3>2, <3>3
    <3> QED
      BY <3>4, <3>5, <3>6
  <2> QED
    BY <1>1, <1>3, <2>1, <2>2 DEF TypeOK, AnalysisStarts, Startable, canonical
<1>6. AwaitedRunning'
  BY <1>1, <1>3 DEF DiscoveryInvariant, AwaitedRunning, AnalysisStarts, TypeOK, Rounds
<1>7. OneLiveAnalysis'
  <2>1. \A n \in Rounds : Live(n)' <=> Live(n)
    BY <1>3 DEF Live, Proposes, Open
  <2>2. PICK last \in Nat : last = Len(runs) + 1
    BY <1>1
  <2>3. ~Live(last)'
    BY <2>2, <1>3 DEF Live, Proposes, Open
  <2> QED
    BY <2>1, <2>2, <2>3, <1>4 DEF DiscoveryInvariant, OneLiveAnalysis
<1>8. AnswersAreHeard'
  <2> SUFFICES ASSUME NEW n \in Rounds', NEW m \in Rounds', n < m, NEW k \in Keys,
                      runs'[n].question[k] = "closed"
               PROVE  <<n, k>> \in runs'[m].heard
    BY DEF AnswersAreHeard
  <2>1. n \in Rounds /\ runs'[n] = runs[n]
    BY <1>1, <1>3, <1>4 DEF Rounds
  <2>2. CASE m \in Rounds
    BY <2>1, <2>2, <1>3 DEF DiscoveryInvariant, AnswersAreHeard
  <2>3. CASE m = Len(runs) + 1
    BY <2>1, <2>3, <1>3 DEF Closed
  <2> QED
    BY <2>2, <2>3, <1>4
<1>9. ProvenanceHeld'
  BY <1>1, <1>3 DEF DiscoveryInvariant, ProvenanceHeld, AnalysisStarts, canonical, TypeOK, Rounds,
                    Asked
<1> QED
  BY <1>5, <1>6, <1>7, <1>8, <1>9 DEF DiscoveryInvariant

\* A round that succeeds becomes the only live one.  It was running, so it is
\* not the round an accepted brief names.
LEMMA AnalysisSucceedsPreserves ==
  ASSUME DiscoveryInvariant, NEW n \in awaited, NEW asked \in SUBSET Keys,
         NEW research \in BOOLEAN, AnalysisSucceeds(n, asked, research)
  PROVE  DiscoveryInvariant'
<1>1. TypeOK /\ runs \in [Rounds -> Run] /\ n \in Rounds
  BY RoundsAreRuns DEF DiscoveryInvariant, TypeOK, Rounds
<1>2. ASSUME NEW m \in Rounds, m # n
      PROVE  /\ runs'[m] = Superseded(m, n)
             /\ runs'[m] \in Run
             /\ runs'[m].status = runs[m].status
             /\ runs'[m].research = runs[m].research
             /\ runs'[m].heard = runs[m].heard
             /\ runs'[m].findings = Replaced(runs[m].findings)
             /\ runs'[m].decision = Replaced(runs[m].decision)
             /\ runs'[m].recommendation = Replaced(runs[m].recommendation)
             /\ \A k \in Keys : runs'[m].question[k] =
                  IF runs[m].question[k] = "open" THEN "superseded" ELSE runs[m].question[k]
  <2>1. runs[m] \in Run /\ runs'[m] = Superseded(m, n)
    BY <1>1, <1>2 DEF AnalysisSucceeds
  <2> DEFINE q == [k \in Keys |-> IF runs[m].question[k] = "open" THEN "superseded"
                                 ELSE runs[m].question[k]]
             f == Replaced(runs[m].findings)
             d == Replaced(runs[m].decision)
             r == Replaced(runs[m].recommendation)
             x == [runs[m] EXCEPT !.question = q, !.findings = f, !.decision = d,
                                  !.recommendation = r]
  <2>2. q \in [Keys -> QuestionStatus] /\ {f, d, r} \subseteq ProposalStatus
    BY <2>1 DEF Run, QuestionStatus, ProposalStatus, Replaced
  <2>3. Superseded(m, n) = x
    BY DEF Superseded
  <2>4. \A k \in Keys : q[k] = IF runs[m].question[k] = "open" THEN "superseded"
                              ELSE runs[m].question[k]
    OBVIOUS
  <2>5. /\ x \in Run /\ x.question = q
        /\ x.findings = f /\ x.decision = d /\ x.recommendation = r
        /\ x.status = runs[m].status /\ x.research = runs[m].research
        /\ x.heard = runs[m].heard
    <3> HIDE DEF q, f, d, r
    <3> QED
      BY <2>1, <2>2 DEF Run
  <2> HIDE DEF q, x
  <2> QED
    BY <2>1, <2>3, <2>4, <2>5
<1>3. /\ runs'[n] \in Run
      /\ runs'[n].heard = runs[n].heard
      /\ \A k \in Keys : runs'[n].question[k] # "closed"
  <2> DEFINE q == [k \in Keys |-> IF k \in asked THEN "open" ELSE "none"]
  <2>1. runs[n] \in Run
    BY <1>1
  <2>2. runs'[n] = [runs[n] EXCEPT !.status = "succeeded", !.question = q,
                                   !.findings = "proposed", !.research = research,
                                   !.decision = "proposed", !.recommendation = "proposed"]
    BY <1>1 DEF AnalysisSucceeds
  <2>3. q \in [Keys -> QuestionStatus] /\ "proposed" \in ProposalStatus
    BY DEF QuestionStatus, ProposalStatus
  <2>4. \A k \in Keys : q[k] # "closed"
    OBVIOUS
  <2> HIDE DEF q
  <2> QED
    BY <2>1, <2>2, <2>3, <2>4 DEF Run
<1>4. runs' \in [Rounds -> Run]
  BY <1>2, <1>3 DEF AnalysisSucceeds
<1>5. runs' \in Seq(Run) /\ Len(runs') = Len(runs) /\ Rounds' = Rounds
  BY <1>1, <1>4, Rewritten DEF Rounds
<1>6. TypeOK'
  BY <1>1, <1>5 DEF TypeOK, AnalysisSucceeds, canonical
<1>7. AwaitedRunning'
  <2>1. \A m \in awaited' : m \in awaited /\ m \in Rounds /\ m # n
    BY <1>1 DEF AnalysisSucceeds, TypeOK, Rounds
  <2> QED
    BY <2>1, <1>2 DEF DiscoveryInvariant, AwaitedRunning
<1>8. OneLiveAnalysis'
  <2>1. \A m \in Rounds : m # n => ~Live(m)'
    BY <1>2 DEF Live, Proposes, Open, Replaced
  <2> QED
    BY <2>1, <1>5 DEF OneLiveAnalysis
<1>9. AnswersAreHeard'
  <2>1. \A m \in Rounds : runs'[m].heard = runs[m].heard
    BY <1>2, <1>3
  <2>2. \A m \in Rounds, k \in Keys :
          runs'[m].question[k] = "closed" => runs[m].question[k] = "closed"
    BY <1>2, <1>3
  <2> QED
    BY <2>1, <2>2, <1>5 DEF DiscoveryInvariant, AnswersAreHeard
<1>10. ProvenanceHeld'
  <2>1. provenance' = provenance
    BY DEF AnalysisSucceeds, canonical
  <2>2. CASE provenance # 0
    <3>1. provenance \in Rounds /\ provenance # n
      BY <1>1, <2>2 DEF DiscoveryInvariant, TypeOK, Rounds, ProvenanceHeld, AwaitedRunning
    <3>2. Asked(provenance)' = {}
      BY <2>1, <2>2, <3>1, <1>2 DEF Asked, DiscoveryInvariant, ProvenanceHeld
    <3> QED
      BY <2>1, <2>2, <3>1, <3>2, <1>2 DEF DiscoveryInvariant, ProvenanceHeld, Replaced
  <2> QED
    BY <2>1, <2>2 DEF ProvenanceHeld
<1> QED
  BY <1>6, <1>7, <1>8, <1>9, <1>10 DEF DiscoveryInvariant

\* A step that leaves every question alone, and every round it does not end or
\* decide on.
LEMMA AnalysisFailsPreserves ==
  ASSUME DiscoveryInvariant, NEW n \in awaited, AnalysisFails(n)
  PROVE  DiscoveryInvariant'
<1>1. TypeOK /\ runs \in [Rounds -> Run] /\ n \in Rounds
  BY RoundsAreRuns DEF DiscoveryInvariant, TypeOK, Rounds
<1>2. runs' \in [Rounds -> Run]
  BY <1>1 DEF AnalysisFails, Run
<1>3. runs' \in Seq(Run) /\ Len(runs') = Len(runs) /\ Rounds' = Rounds
  BY <1>1, <1>2, Rewritten DEF Rounds
<1>4. \A m \in Rounds : /\ runs'[m].question = runs[m].question
                        /\ runs'[m].findings = runs[m].findings
                        /\ runs'[m].decision = runs[m].decision
                        /\ runs'[m].recommendation = runs[m].recommendation
                        /\ runs'[m].heard = runs[m].heard
                        /\ m # n => runs'[m] = runs[m]
  BY <1>1 DEF AnalysisFails, Run
<1>5. TypeOK'
  BY <1>1, <1>3 DEF TypeOK, AnalysisFails, canonical
<1>6. AwaitedRunning'
  BY <1>1, <1>4 DEF DiscoveryInvariant, AwaitedRunning, AnalysisFails, TypeOK, Rounds
<1>7. OneLiveAnalysis'
  BY <1>3, <1>4 DEF DiscoveryInvariant, OneLiveAnalysis, Live, Proposes, Open
<1>8. AnswersAreHeard'
  BY <1>3, <1>4 DEF DiscoveryInvariant, AnswersAreHeard
<1>9. ProvenanceHeld'
  BY <1>1, <1>4 DEF DiscoveryInvariant, ProvenanceHeld, AnalysisFails, canonical, AwaitedRunning,
                    TypeOK, Rounds, Asked
<1> QED
  BY <1>5, <1>6, <1>7, <1>8, <1>9 DEF DiscoveryInvariant

\* Only the latest round is answered: there is no later one that could have
\* missed the answer.
LEMMA AnswerQuestionsPreserves ==
  ASSUME DiscoveryInvariant, NEW n \in Rounds, NEW answers \in SUBSET Keys,
         AnswerQuestions(n, answers)
  PROVE  DiscoveryInvariant'
<1>1. TypeOK /\ runs \in [Rounds -> Run] /\ Len(runs) \in Nat /\ n = Len(runs)
  BY RoundsAreRuns DEF DiscoveryInvariant, AnswerQuestions, Answerable
<1>2. /\ runs' \in [Rounds -> Run]
      /\ \A m \in Rounds : m # n => runs'[m] = runs[m]
      /\ runs'[n].status = runs[n].status
      /\ runs'[n].heard = runs[n].heard
      /\ runs'[n].findings = runs[n].findings
      /\ runs'[n].decision = runs[n].decision
      /\ runs'[n].recommendation = runs[n].recommendation
      /\ \A k \in Keys : runs'[n].question[k] =
           IF k \in answers THEN "closed" ELSE runs[n].question[k]
  <2> DEFINE q == [k \in Keys |-> IF k \in answers THEN "closed" ELSE runs[n].question[k]]
             x == [runs[n] EXCEPT !.question = q]
  <2>1. runs[n] \in Run /\ runs' = [runs EXCEPT ![n] = x]
    BY <1>1 DEF AnswerQuestions
  <2>2. q \in [Keys -> QuestionStatus]
    BY <2>1 DEF Run, QuestionStatus
  <2>3. /\ x \in Run /\ x.question = q /\ x.status = runs[n].status
        /\ x.heard = runs[n].heard /\ x.findings = runs[n].findings
        /\ x.decision = runs[n].decision /\ x.recommendation = runs[n].recommendation
    BY <2>1, <2>2 DEF Run
  <2>4. \A k \in Keys : q[k] = IF k \in answers THEN "closed" ELSE runs[n].question[k]
    OBVIOUS
  <2> HIDE DEF q, x
  <2> QED
    BY <1>1, <2>1, <2>3, <2>4
<1>3. runs' \in Seq(Run) /\ Len(runs') = Len(runs) /\ Rounds' = Rounds
  BY <1>1, <1>2, Rewritten DEF Rounds
<1>4. TypeOK'
  BY <1>1, <1>3 DEF TypeOK, AnswerQuestions, canonical
<1>5. AwaitedRunning'
  BY <1>1, <1>2 DEF DiscoveryInvariant, AwaitedRunning, AnswerQuestions, TypeOK, Rounds
<1>6. OneLiveAnalysis'
  <2>1. \A m \in Rounds : Live(m)' => Live(m)
    BY <1>2 DEF Live, Proposes, Open
  <2> QED
    BY <2>1, <1>3 DEF DiscoveryInvariant, OneLiveAnalysis
<1>7. AnswersAreHeard'
  <2> SUFFICES ASSUME NEW i \in Rounds, NEW m \in Rounds, i < m, NEW k \in Keys,
                      runs'[i].question[k] = "closed"
               PROVE  <<i, k>> \in runs'[m].heard
    BY <1>3 DEF AnswersAreHeard
  <2>1. i # n
    <3>1. i \in Int /\ m \in Int /\ m <= n /\ n \in Int
      BY <1>1 DEF Rounds
    <3> QED
      BY <3>1
  <2>2. runs'[i] = runs[i] /\ runs'[m].heard = runs[m].heard
    BY <2>1, <1>2
  <2> QED
    BY <2>2 DEF DiscoveryInvariant, AnswersAreHeard
<1>8. ProvenanceHeld'
  <2>1. provenance' = provenance
    BY DEF AnswerQuestions, canonical
  <2>2. CASE provenance # 0
    <3>1. provenance \in Rounds
      BY <1>1, <2>2 DEF TypeOK, Rounds
    <3>2. provenance # n
      BY <2>2 DEF DiscoveryInvariant, ProvenanceHeld, AnswerQuestions, Asked, Open
    <3> QED
      BY <2>1, <3>1, <3>2, <1>2 DEF DiscoveryInvariant, ProvenanceHeld, Asked
  <2> QED
    BY <2>1, <2>2 DEF ProvenanceHeld
<1> QED
  BY <1>4, <1>5, <1>6, <1>7, <1>8 DEF DiscoveryInvariant

\* The round accepted is a success that asked nothing.
LEMMA AcceptPreserves ==
  ASSUME DiscoveryInvariant, Accept
  PROVE  DiscoveryInvariant'
<1> DEFINE n == Len(runs)
<1>1. TypeOK /\ runs \in [Rounds -> Run] /\ n \in Nat
  BY RoundsAreRuns DEF DiscoveryInvariant
<1>2. n \in Rounds
  BY <1>1, EmptySeq DEF Accept, Acceptable, Rounds, TypeOK
<1>3. PICK decision \in {"accepted", "rejected"} :
        runs' = [runs EXCEPT ![n].recommendation = decision, ![n].decision = "accepted"]
  BY DEF Accept
<1>4. /\ runs' \in [Rounds -> Run]
      /\ \A m \in Rounds : /\ runs'[m].status = runs[m].status
                           /\ runs'[m].question = runs[m].question
                           /\ runs'[m].heard = runs[m].heard
                           /\ runs'[m].research = runs[m].research
                           /\ runs'[m].findings = runs[m].findings
                           /\ m # n => runs'[m] = runs[m]
      /\ runs'[n].recommendation = decision
      /\ runs'[n].decision = "accepted"
  <2> DEFINE x == [runs[n] EXCEPT !.recommendation = decision, !.decision = "accepted"]
  <2>1. runs[n] \in Run /\ runs' = [runs EXCEPT ![n] = x]
    BY <1>1, <1>2, <1>3
  <2>2. /\ x \in Run /\ x.recommendation = decision /\ x.decision = "accepted"
        /\ x.status = runs[n].status /\ x.findings = runs[n].findings
        /\ x.question = runs[n].question /\ x.heard = runs[n].heard
        /\ x.research = runs[n].research
    BY <2>1 DEF Run, ProposalStatus
  <2> HIDE DEF x
  <2> QED
    BY <1>1, <1>2, <2>1, <2>2
<1>5. runs' \in Seq(Run) /\ Len(runs') = Len(runs) /\ Rounds' = Rounds
  BY <1>1, <1>4, Rewritten DEF Rounds
<1>6. TypeOK'
  BY <1>1, <1>2, <1>5, BriefsAssumption DEF TypeOK, Accept, BriefAccepted, Rounds
<1>7. AwaitedRunning'
  BY <1>1, <1>4 DEF DiscoveryInvariant, AwaitedRunning, Accept, TypeOK, Rounds
<1>8. OneLiveAnalysis'
  <2>1. \A m \in Rounds : Live(m)' => Live(m)
    BY <1>4 DEF Live, Proposes, Open
  <2> QED
    BY <2>1, <1>5 DEF DiscoveryInvariant, OneLiveAnalysis
<1>9. AnswersAreHeard'
  BY <1>4, <1>5 DEF DiscoveryInvariant, AnswersAreHeard
<1>10. ProvenanceHeld'
  BY <1>2, <1>4 DEF ProvenanceHeld, Accept, Acceptable, Latest, Asked
<1> QED
  BY <1>6, <1>7, <1>8, <1>9, <1>10 DEF DiscoveryInvariant

\* The other steps leave the rounds alone, and name no round or none any more.
LEMMA RestPreserves ==
  ASSUME DiscoveryInvariant, TypeOK',
         runs' = runs, awaited' \subseteq awaited, provenance' \in {0, provenance}
  PROVE  DiscoveryInvariant'
<1>1. AwaitedRunning' /\ AnswersAreHeard'
  BY DEF DiscoveryInvariant, AwaitedRunning, AnswersAreHeard, Rounds
<1>2. OneLiveAnalysis'
  BY DEF DiscoveryInvariant, OneLiveAnalysis, Live, Proposes, Open, Rounds
<1>3. ProvenanceHeld'
  BY DEF DiscoveryInvariant, ProvenanceHeld, Asked
<1> QED
  BY <1>1, <1>2, <1>3 DEF DiscoveryInvariant

LEMMA NextPreserves == DiscoveryInvariant /\ [Next]_vars => DiscoveryInvariant'
<1> SUFFICES ASSUME DiscoveryInvariant, [Next]_vars PROVE DiscoveryInvariant'
  OBVIOUS
<1>1. CASE AnalysisStarts
  BY <1>1, AnalysisStartsPreserves
<1>2. CASE \E n \in awaited, asked \in SUBSET Keys, research \in BOOLEAN :
             AnalysisSucceeds(n, asked, research)
  BY <1>2, AnalysisSucceedsPreserves
<1>3. CASE \E n \in awaited : AnalysisFails(n)
  BY <1>3, AnalysisFailsPreserves
<1>4. CASE \E n \in Rounds, answers \in SUBSET Keys : AnswerQuestions(n, answers)
  BY <1>4, AnswerQuestionsPreserves
<1>5. CASE Accept
  BY <1>5, AcceptPreserves
<1>6. CASE \/ AcceptStops \/ AcceptUnattributed \/ SaveDiscoveryResponses
           \/ SetWorkingDeliveryStrategy \/ AcceptProjectIntake \/ ReviseProjectGoal
           \/ Crash \/ UNCHANGED vars
  <2>1. TypeOK
    BY DEF DiscoveryInvariant
  <2>2. runs' = runs /\ awaited' \subseteq awaited /\ provenance' \in {0, provenance}
    BY <1>6 DEF AcceptStops, AcceptUnattributed, SaveDiscoveryResponses,
       SetWorkingDeliveryStrategy, AcceptProjectIntake, ReviseProjectGoal, Crash, vars, canonical
  <2>3. intake' \in {"draft", "discovery", "review", "accepted"}
    BY <1>6, <2>1 DEF TypeOK, AcceptStops, AcceptUnattributed, SaveDiscoveryResponses, SaveCandidate,
       BriefAccepted, SetWorkingDeliveryStrategy, AcceptProjectIntake, ReviseProjectGoal, Crash, vars
  <2>4. strategy' \in {"none", "working", "accepted"}
    BY <1>6, <2>1 DEF TypeOK, AcceptStops, AcceptUnattributed, SaveDiscoveryResponses, SaveCandidate,
       BriefAccepted, SetWorkingDeliveryStrategy, AcceptProjectIntake, ReviseProjectGoal, Crash, vars,
       canonical
  <2>5. answered' \in BOOLEAN
    BY <1>6, <2>1 DEF TypeOK, AcceptStops, AcceptUnattributed, SaveDiscoveryResponses, SaveCandidate,
       SetWorkingDeliveryStrategy, AcceptProjectIntake, ReviseProjectGoal, Crash, vars, canonical
  <2>6. briefVersion' \in 0..MaxBriefs
    BY <1>6, <2>1, BriefsAssumption DEF TypeOK, AcceptStops, AcceptUnattributed,
       SaveDiscoveryResponses, BriefAccepted, SetWorkingDeliveryStrategy, AcceptProjectIntake,
       ReviseProjectGoal, Crash, vars, canonical
  <2>7. TypeOK'
    <3>1. Len(runs) \in Nat
      BY <2>1, RoundsAreRuns
    <3> QED
      BY <2>1, <2>2, <2>3, <2>4, <2>5, <2>6, <3>1 DEF TypeOK
  <2> QED
    BY <2>2, <2>7, RestPreserves
<1> QED
  BY <1>1, <1>2, <1>3, <1>4, <1>5, <1>6 DEF Next

\* The rounds, the operator's answers and the accepted brief agree in every
\* reachable state, for every bound on the rounds.
THEOREM DiscoveryCorrect == Spec => []DiscoveryInvariant
<1> QED
  BY InitInvariant, NextPreserves, PTL DEF Spec

\* The types of Discovery, the limit on the rounds among them.
THEOREM DiscoveryTypes == Spec => []TypeOK
<1>1. DiscoveryInvariant => TypeOK
  BY DEF DiscoveryInvariant
<1> QED
  BY <1>1, DiscoveryCorrect, PTL

\* Overlapping analyses never leave two rounds open to the operator.
THEOREM OneRoundIsLive == Spec => []OneLiveAnalysis
<1>1. DiscoveryInvariant => OneLiveAnalysis
  BY DEF DiscoveryInvariant
<1> QED
  BY <1>1, DiscoveryCorrect, PTL

\* No later round is analysed without an answer the operator has given.
THEOREM AnswersReachLaterRounds == Spec => []AnswersAreHeard
<1>1. DiscoveryInvariant => AnswersAreHeard
  BY DEF DiscoveryInvariant
<1> QED
  BY <1>1, DiscoveryCorrect, PTL

\* The decisions an accepted brief rests on are not rewritten in the round it names,
\* whichever analyses were still running when it was accepted.
THEOREM ProvenanceIsStable == Spec => []ProvenanceHeld
<1>1. DiscoveryInvariant => ProvenanceHeld
  BY DEF DiscoveryInvariant
<1> QED
  BY <1>1, DiscoveryCorrect, PTL

\* A brief is attributed to a round only when no question of any round is open:
\* the round accepted is live, so no other is, and it asked nothing itself.
THEOREM AcceptedWithNothingOpen == Spec => NothingOpenWhenAccepted
<1>1. ASSUME DiscoveryInvariant, [Next]_vars, provenance' \notin {0, provenance}
      PROVE  \A n \in Rounds : Open(n) = {}
  <2>1. Accept
    BY <1>1 DEF Next, AnalysisStarts, AnalysisSucceeds, AnalysisFails, AnswerQuestions, AcceptStops,
       AcceptUnattributed, SaveDiscoveryResponses, SetWorkingDeliveryStrategy, AcceptProjectIntake,
       ReviseProjectGoal, Crash, vars, canonical
  <2>2. Len(runs) \in Rounds
    BY <1>1, <2>1, RoundsAreRuns, EmptySeq DEF DiscoveryInvariant, TypeOK, Accept, Acceptable, Rounds
  <2>3. Live(Len(runs)) /\ Open(Len(runs)) = {}
    BY <2>1 DEF Accept, Acceptable, Latest, Live, Proposes, Asked, Open
  <2> QED
    BY <1>1, <2>2, <2>3 DEF DiscoveryInvariant, OneLiveAnalysis, Live
<1>2. DiscoveryInvariant /\ [Next]_vars =>
        [provenance' \notin {0, provenance} => \A n \in Rounds : Open(n) = {}]_vars
  BY <1>1
<1> QED
  BY <1>2, DiscoveryCorrect, PTL DEF Spec, NothingOpenWhenAccepted
=============================================================================
