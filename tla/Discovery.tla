------------------------------ MODULE Discovery ------------------------------
(***************************************************************************)
(* Adaptive discovery of one project intake: rounds of analysis by a       *)
(* provider, the operator's answers to the questions they raise, and the   *)
(* acceptance of a project brief.                                          *)
(*                                                                         *)
(* An analysis is suspended while the provider works on it, up to 90       *)
(* seconds, and everything else may happen meanwhile, other analyses of    *)
(* the same intake included.  All other methods run to their end, but      *)
(* accept commits four transactions one after the other.                   *)
(***************************************************************************)
EXTENDS Integers, Sequences

CONSTANTS
  MaxRounds,  \* MAX_DISCOVERY_ROUNDS
  Keys,       \* question keys
  MaxBriefs   \* bound on accepted briefs

ASSUME RoundsAssumption == MaxRounds \in Nat
ASSUME BriefsAssumption == MaxBriefs \in Nat \ {0}

VARIABLES
  intake,        \* project_intakes.status
  runs,          \* the analyses, with what each proposed, in round_number order
  awaited,       \* the rounds whose provider call this process is waiting for
  answered,      \* problem and desired outcome are answered in discovery_responses
  strategy,      \* the current delivery_strategy_decisions row of the intake
  briefVersion,  \* projects.current_brief_version, 0 when there is none
  provenance     \* the round named in the accepted brief's scope, 0 when none is

vars == <<intake, runs, awaited, answered, strategy, briefVersion, provenance>>

canonical == <<answered, strategy, briefVersion, provenance>>

-----------------------------------------------------------------------------
\* "closed" stands for answered, unknown and skipped: the operator has spoken.
QuestionStatus == {"none", "open", "closed", "superseded"}

ProposalStatus == {"none", "proposed", "accepted", "rejected", "superseded"}

\* What a round proposes has a status of its own each: its findings, its decision
\* whether research is required, and its strategy recommendation.  "heard" is the
\* history the prompt was built from.
Run ==
  [status: {"running", "succeeded", "failed"},
   question: [Keys -> QuestionStatus],
   findings: ProposalStatus,
   research: BOOLEAN,
   decision: ProposalStatus,
   recommendation: ProposalStatus,
   heard: SUBSET (Nat \X Keys)]

TypeOK ==
  /\ intake \in {"draft", "discovery", "review", "accepted"}
  /\ runs \in Seq(Run)
  /\ Len(runs) <= MaxRounds
  /\ awaited \subseteq 1..Len(runs)
  /\ answered \in BOOLEAN
  /\ strategy \in {"none", "working", "accepted"}
  /\ briefVersion \in 0..MaxBriefs
  /\ provenance \in 0..Len(runs)

Init ==
  /\ intake = "draft"
  /\ runs = << >>
  /\ awaited = {}
  /\ answered = FALSE
  /\ strategy = "none"
  /\ briefVersion = 0
  /\ provenance = 0

-----------------------------------------------------------------------------
Rounds == 1..Len(runs)
Latest == runs[Len(runs)]

Open(n) == {k \in Keys : runs[n].question[k] = "open"}

Asked(n) == {k \in Keys : runs[n].question[k] # "none"}

Closed == {a \in Rounds \X Keys : runs[a[1]].question[a[2]] = "closed"}

-----------------------------------------------------------------------------
(* analyze *)

\* Mutant: the rounds are not limited.
StartableForever ==
  /\ intake # "accepted"
  /\ runs # << >> => Open(Len(runs)) = {}

\* Only the latest round is looked at, and not whether it is still running.
Startable ==
  /\ intake # "accepted"
  /\ runs # << >> => Open(Len(runs)) = {}
  /\ Len(runs) + 1 <= MaxRounds

AnalysisStarts ==
  /\ Startable
  /\ runs' = Append(runs, [status |-> "running", question |-> [k \in Keys |-> "none"],
                           findings |-> "none", research |-> FALSE, decision |-> "none",
                           recommendation |-> "none", heard |-> Closed])
  /\ awaited' = awaited \cup {Len(runs) + 1}
  /\ UNCHANGED <<intake, canonical>>

Replaced(proposal) == IF proposal = "proposed" THEN "superseded" ELSE proposal

\* Mutant: only earlier rounds are superseded.
SupersededIfEarlier(m, n) ==
  IF m > n THEN runs[m]
  ELSE [runs[m] EXCEPT
          !.question = [k \in Keys |-> IF @[k] = "open" THEN "superseded" ELSE @[k]],
          !.findings = Replaced(@),
          !.decision = Replaced(@),
          !.recommendation = Replaced(@)]

\* Mutant: what the operator has accepted is superseded too.
SupersededWhateverStatus(m, n) ==
  [runs[m] EXCEPT
     !.question = [k \in Keys |-> IF @[k] = "open" THEN "superseded" ELSE @[k]],
     !.findings = Replaced(@),
     !.decision = IF @ # "none" THEN "superseded" ELSE @,
     !.recommendation = Replaced(@)]

\* What a success of round n leaves of round m: nothing open, nothing proposed,
\* whichever of the two is the later round.
Superseded(m, n) ==
  [runs[m] EXCEPT
     !.question = [k \in Keys |-> IF @[k] = "open" THEN "superseded" ELSE @[k]],
     !.findings = Replaced(@),
     !.decision = Replaced(@),
     !.recommendation = Replaced(@)]

\* The result is applied to the intake as it is when the provider answers.
AnalysisSucceeds(n, asked, research) ==
  /\ n \in awaited
  /\ runs' = [m \in Rounds |->
       IF m = n
       THEN [runs[n] EXCEPT
               !.status = "succeeded",
               !.question = [k \in Keys |-> IF k \in asked THEN "open" ELSE "none"],
               !.findings = "proposed",
               !.research = research,
               !.decision = "proposed",
               !.recommendation = "proposed"]
       ELSE Superseded(m, n)]
  /\ intake' = IF asked # {} THEN "discovery" ELSE "review"
  /\ awaited' = awaited \ {n}
  /\ UNCHANGED canonical

\* A provider error, a timeout, an invalid output or a failed accounting.  The
\* round is used up.
AnalysisFails(n) ==
  /\ n \in awaited
  /\ runs' = [runs EXCEPT ![n].status = "failed"]
  /\ awaited' = awaited \ {n}
  /\ UNCHANGED <<intake, canonical>>

-----------------------------------------------------------------------------
(* answerQuestions *)

\* Mutant: the latest round that succeeded, rather than the latest round.
AnswerableInAnySuccess(n) == runs[n].status = "succeeded"

Answerable(n) == n = Len(runs) /\ Latest.status = "succeeded"

AnswerQuestions(n, answers) ==
  /\ Answerable(n)
  /\ answers # {} /\ answers \subseteq Open(n)
  /\ runs' = [runs EXCEPT ![n].question =
                [k \in Keys |-> IF k \in answers THEN "closed" ELSE @[k]]]
  /\ UNCHANGED <<intake, awaited, canonical>>

-----------------------------------------------------------------------------
(* accept *)

\* Mutant: any recommendation will do, superseded or not.
AcceptableIfRecommended ==
  /\ runs # << >>
  /\ Latest.status = "succeeded"
  /\ Asked(Len(runs)) = {}
  /\ ~Latest.research
  /\ Latest.recommendation # "none"

Acceptable ==
  /\ runs # << >>
  /\ Latest.status = "succeeded"
  /\ Asked(Len(runs)) = {}
  /\ ~Latest.research
  /\ Latest.recommendation = "proposed"

\* The candidate is saved as responses and the chosen strategy as the working
\* one; a strategy already accepted cannot be replaced.
SaveCandidate ==
  /\ Acceptable
  /\ intake # "accepted"
  /\ answered' = TRUE
  /\ \/ intake' = (IF intake = "draft" THEN "discovery" ELSE intake) /\ UNCHANGED strategy
     \/ strategy # "accepted" /\ strategy' = "working" /\ intake' = "review"

\* A version conflict, a brief that came into being otherwise, an accepted
\* strategy, or the end of the process, leaves the candidate only saved.
AcceptStops ==
  /\ SaveCandidate
  /\ UNCHANGED <<runs, awaited, briefVersion, provenance>>

BriefAccepted ==
  /\ briefVersion = 0
  /\ briefVersion' = 1
  /\ intake' = "accepted"
  /\ strategy' = "accepted"

\* Killed before the last transaction: the brief names no round.
AcceptUnattributed ==
  /\ Acceptable
  /\ intake # "accepted"
  /\ strategy # "accepted"
  /\ BriefAccepted
  /\ answered' = TRUE
  /\ UNCHANGED <<runs, awaited, provenance>>

\* The operator follows the recommendation or chooses another strategy.  The
\* decision on research is accepted either way; the findings stay proposed.
Accept ==
  /\ Acceptable
  /\ intake # "accepted"
  /\ strategy # "accepted"
  /\ BriefAccepted
  /\ answered' = TRUE
  /\ provenance' = Len(runs)
  /\ \E decision \in {"accepted", "rejected"} :
       runs' = [runs EXCEPT ![Len(runs)].recommendation = decision,
                            ![Len(runs)].decision = "accepted"]
  /\ UNCHANGED awaited

-----------------------------------------------------------------------------
(* The phase 1 intake endpoints, still served, and goal revision *)

SaveDiscoveryResponses ==
  /\ intake # "accepted"
  /\ answered' \in BOOLEAN
  /\ intake' = IF intake = "draft" THEN "discovery" ELSE intake
  /\ UNCHANGED <<runs, awaited, strategy, briefVersion, provenance>>

SetWorkingDeliveryStrategy ==
  /\ intake # "accepted"
  /\ strategy # "accepted"
  /\ strategy' = "working"
  /\ intake' = "review"
  /\ UNCHANGED <<runs, awaited, answered, briefVersion, provenance>>

AcceptProjectIntake ==
  /\ intake # "accepted"
  /\ answered
  /\ strategy = "working"
  /\ BriefAccepted
  /\ UNCHANGED <<runs, awaited, answered, provenance>>

\* A revision does not ask for a brief to revise.  The new brief's scope names no
\* round of discovery.
ReviseProjectGoal ==
  /\ briefVersion < MaxBriefs
  /\ briefVersion' = briefVersion + 1
  /\ provenance' = 0
  /\ UNCHANGED <<intake, runs, awaited, answered, strategy>>

\* The rounds that were running stay so, and nobody waits for them any more.
Crash ==
  /\ awaited # {}
  /\ awaited' = {}
  /\ UNCHANGED <<intake, runs, canonical>>

-----------------------------------------------------------------------------
Next ==
  \/ AnalysisStarts
  \/ \E n \in awaited, asked \in SUBSET Keys, research \in BOOLEAN :
       AnalysisSucceeds(n, asked, research)
  \/ \E n \in awaited : AnalysisFails(n)
  \/ \E n \in Rounds, answers \in SUBSET Keys : AnswerQuestions(n, answers)
  \/ AcceptStops
  \/ AcceptUnattributed
  \/ Accept
  \/ SaveDiscoveryResponses
  \/ SetWorkingDeliveryStrategy
  \/ AcceptProjectIntake
  \/ ReviseProjectGoal
  \/ Crash

Spec == Init /\ [][Next]_vars

-----------------------------------------------------------------------------
(* Properties *)

Proposes(n) == "proposed" \in {runs[n].findings, runs[n].decision, runs[n].recommendation}

Live(n) == Proposes(n) \/ Open(n) # {}

\* However many analyses overlap and in whatever order their providers answer,
\* one round at most has anything open or proposed to the operator.
OneLiveAnalysis == \A m, n \in Rounds : Live(m) /\ Live(n) => m = n

\* "An analysis that produced questions cannot be accepted merely because the
\* operator answered those questions. The system must run a new analysis": every
\* answer given in a round is in the prompt of every later round, although that
\* prompt is rendered before the await and never refreshed.
AnswersAreHeard ==
  \A n, m \in Rounds : n < m =>
    \A k \in Keys : runs[n].question[k] = "closed" => <<n, k>> \in runs[m].heard

\* What the acceptance relied on stays in the round the brief names: a success
\* without questions, research not required and that decision accepted, the
\* recommendation accepted or rejected.  Analyses still running at the acceptance
\* do not rewrite these; the findings, which acceptance leaves proposed, they do.
ProvenanceHeld ==
  provenance # 0 =>
    /\ runs[provenance].status = "succeeded"
    /\ Asked(provenance) = {}
    /\ ~runs[provenance].research
    /\ runs[provenance].decision = "accepted"
    /\ runs[provenance].recommendation \in {"accepted", "rejected"}

\* accept looks at the latest round only, yet no question of any round is open
\* when it attributes a brief to that round.
NothingOpenWhenAccepted ==
  [][provenance' \notin {0, provenance} => \A n \in Rounds : Open(n) = {}]_vars

\* Only a round that is still running is waited for.
AwaitedRunning == \A n \in awaited : runs[n].status = "running"

\* The inductive invariant.
DiscoveryInvariant ==
  /\ TypeOK
  /\ AwaitedRunning
  /\ OneLiveAnalysis
  /\ AnswersAreHeard
  /\ ProvenanceHeld

\* "A stale writer must fail rather than silently overwrite a newer accepted
\* state": an accepted intake stays accepted.
AcceptedIsFinal == [][intake = "accepted" => intake' = "accepted"]_vars
=============================================================================
