------------------------------ MODULE FreeFirst ------------------------------
(***************************************************************************)
(* The free-first broker over the autonomy kernel.  It counts the use of   *)
(* the free routes, derives from it what is left of their quota buckets,   *)
(* enables the routes that the quota allows, and has the kernel run a work *)
(* item on these alone, without spend.  The last quota of a bucket is kept *)
(* for verifiers.                                                          *)
(***************************************************************************)
EXTENDS AutonomyLoop

CONSTANTS
  FreeRoutes,    \* the routes provisioned by the broker, each with one role
  Bucket,        \* the quota bucket of each free route
  Counted,       \* the buckets whose quota is counted here, the others report theirs
  Reports,       \* the statuses other providers may report of a bucket
  DailyLimit,    \* the requests a counted bucket has a day
  UnknownQuota   \* what the policy does with a bucket of unknown quota

ASSUME FreeFirstAssumption ==
  /\ FreeRoutes \subseteq Routes
  /\ FreeRoutes \cap Metered = {}
  /\ \A r \in FreeRoutes : ~({"worker", "verifier"} \subseteq Serves[r])
  /\ DOMAIN Bucket = FreeRoutes
  /\ Reports \subseteq {"healthy", "conserve", "reserved", "exhausted"}
  /\ DailyLimit \in Nat \ {0}
  /\ UnknownQuota \in {"allow_fallback", "reserve_only", "block"}

VARIABLES
  quota,     \* per bucket, the status of its latest snapshot
  requests,  \* per bucket, the requests its usage counters add up to
  accounted, \* the attempts whose usage is accounted
  recounts   \* how many attempts were counted by a sync that was killed over them

quotaVars == <<quota, requests, accounted, recounts>>
vars == <<kernelVars, quotaVars>>

Buckets == {Bucket[r] : r \in FreeRoutes}

QuotaStatuses == {"unknown", "healthy", "conserve", "reserved", "exhausted"}

TypeOK ==
  /\ KernelTypeOK
  /\ quota \in [Buckets -> QuotaStatuses]
  /\ requests \in [Buckets -> Nat]
  /\ accounted \subseteq attempts
  /\ recounts \in 0..crashes

Init ==
  /\ KernelInit
  /\ quota = [b \in Buckets |-> "unknown"]
  /\ requests = [b \in Buckets |-> 0]
  /\ accounted = {}
  /\ recounts = 0

-----------------------------------------------------------------------------
(* Quota *)

\* quotaStatus at the default thresholds, of what remains in basis points.
QuotaStatus(bp) ==
  IF bp >= 4000 THEN "healthy"
  ELSE IF bp >= 1500 THEN "conserve"
  ELSE IF bp >= 1000 THEN "reserved"
  ELSE "exhausted"

\* What remains of a counted bucket, rounded to basis points.
RemainingBp(n) ==
  LET left == IF n >= DailyLimit THEN 0 ELSE DailyLimit - n IN
  (20000 * left + DailyLimit) \div (2 * DailyLimit)

\* Mutant: a sync does not look at what was accounted before.
UnaccountedAgain(atts, acc) ==
  {t \in atts : t.route \in FreeRoutes /\ t.status = "succeeded"}

\* The attempts a sync accounts: free, succeeded, and not accounted before.
Unaccounted(atts, acc) ==
  {t \in atts : t.route \in FreeRoutes /\ t.status = "succeeded" /\ t \notin acc}

OfBucket(S, b) == {t \in S : Bucket[t.route] = b}

CountedWith(S) == [b \in Buckets |-> requests[b] + Cardinality(OfBucket(S, b))]

\* The snapshots of a sync over the attempts S: a counted bucket is what its counter
\* leaves of the limit; another provider may say in its headers what is left.
Snapshots(S, after) ==
  {q \in [Buckets -> QuotaStatuses] :
     \A b \in Buckets :
       IF OfBucket(S, b) = {} THEN q[b] = quota[b]
       ELSE IF b \in Counted THEN q[b] = QuotaStatus(RemainingBp(after[b]))
       ELSE q[b] \in {quota[b]} \cup Reports}

\* A whole sync, over the attempts atts.
Synced(atts) ==
  LET new == Unaccounted(atts, accounted) IN
  /\ requests' = CountedWith(new)
  /\ quota' \in Snapshots(new, requests')
  /\ accounted' = accounted \cup new
  /\ UNCHANGED recounts

SyncUsageFromAttempts ==
  /\ Unaccounted(attempts, accounted) # {}
  /\ Synced(attempts)
  /\ UNCHANGED kernelVars

\* Killed after an attempt was counted, before it was marked as accounted.  (The ones
\* this sync accounted before it may as well have been accounted by an earlier one.)
KilledInSync ==
  /\ crashes < MaxCrashes
  /\ crashes' = crashes + 1
  /\ \E t \in Unaccounted(attempts, accounted) :
       /\ requests' = CountedWith({t})
       /\ quota' \in Snapshots({t}, requests')
  /\ recounts' = recounts + 1
  /\ loop' = LoopsAfter(TRUE, loop)
  /\ attempts' = Surviving(TRUE, attempts)
  /\ UNCHANGED <<item, depends, specs, activation, assignment, evidence, brief, pending, pack, cut,
                 spend, enabled, accounted>>

-----------------------------------------------------------------------------
(* Policy *)

\* Mutant: the quota that is reserved for verifiers serves workers as well.
AllowedToAll(status, verifies) ==
  \/ status \in {"healthy", "conserve", "reserved"}
  \/ status = "unknown" /\ UnknownQuota = "allow_fallback"
  \/ status = "unknown" /\ UnknownQuota = "reserve_only" /\ verifies

\* routeAllowedForQuota
Allowed(status, verifies) ==
  \/ status \in {"healthy", "conserve"}
  \/ status = "reserved" /\ verifies
  \/ status = "unknown" /\ UnknownQuota = "allow_fallback"
  \/ status = "unknown" /\ UnknownQuota = "reserve_only" /\ verifies

\* The routes enabled once the policy is applied to quota q; it leaves the others alone.
Applied(q) ==
  (enabled \ FreeRoutes) \cup
    {r \in FreeRoutes : Allowed(q[Bucket[r]], "verifier" \in Serves[r])}

ApplyPolicy ==
  /\ enabled' = Applied(quota)
  /\ UNCHANGED <<workVars, loop, attempts, spend, quotaVars>>

\* Provisioning enables its routes, whatever is left of their quota.
ProvisionFreeRoutes ==
  /\ enabled' = enabled \cup FreeRoutes
  /\ UNCHANGED <<workVars, loop, attempts, spend, quotaVars>>

-----------------------------------------------------------------------------
(* Running a work item free-first *)

FreeTerms == [independent |-> TRUE, funded |-> FALSE, budget |-> 0, free |-> TRUE]

\* A route that costs nothing and is not the broker's would escape its policy.
NoOtherFreeRoute(en) == en \subseteq FreeRoutes \cup Metered

\* Some likely worker has a verifier of another group.
LikelyPair(en) ==
  \E r, v \in en \cap FreeRoutes :
    /\ "worker" \in Serves[r]
    /\ "verifier" \in Serves[v]
    /\ Group[v] # Group[r]

RunFreeFirstWorkItem(a, w) ==
  /\ Synced(attempts)
  /\ enabled' = Applied(quota')
  /\ NoOtherFreeRoute(enabled')
  /\ LikelyPair(enabled')
  /\ RunWorkItem(a, w, FreeTerms, enabled')

\* A loop of the broker is followed by a sync once it returns, not if it throws.
FollowedBySync ==
  IF \E a \in Assignments :
       loop[a].terms.free /\ loop[a].status = "running" /\ loop'[a].status # "running"
  THEN Synced(attempts')
  ELSE UNCHANGED quotaVars

-----------------------------------------------------------------------------
\* What moves the item, or the goal, while a loop awaits its provider.
WorkStep ==
  \/ EnsureInitialWorkGraph
  \/ \E w \in Items, s \in OperatorMoves : TransitionWorkItem(w, s)
  \/ \E affected \in Impacts : ReviseProjectGoal(affected)

ApiStep ==
  /\ WorkStep
  /\ loop' = LoopsAfter(crashes' > crashes, loop)
  /\ attempts' = Surviving(crashes' > crashes, attempts)
  /\ UNCHANGED <<spend, enabled, quotaVars>>

\* A process killed while no loop awaits anything loses nothing.
Crash ==
  /\ crashes < MaxCrashes
  /\ \E a \in Assignments : loop[a].awaits \in Awaited
  /\ crashes' = crashes + 1
  /\ loop' = LoopsAfter(TRUE, loop)
  /\ attempts' = Surviving(TRUE, attempts)
  /\ UNCHANGED <<item, depends, specs, activation, assignment, evidence, brief, pending, pack, cut,
                 spend, enabled, quotaVars>>

SpendStep ==
  /\ \/ \E w \in Items : RequestSpend(w)
     \/ \E decision \in {"approved", "rejected"} :
          ResolveApproval(decision) \/ ResolveSpendRequest(decision)
     \/ \E amount \in Amounts : ExecuteMeteredAction(amount)
  /\ UNCHANGED quotaVars

LoopStarts ==
  \/ \E a \in FreshIds, w \in Items :
       \/ /\ \/ \E terms \in Terms : RunWorkItem(a, w, terms, enabled)
             \/ \E d \in Drills : RunPortabilityDrill(a, w, d[1], d[2])
          /\ UNCHANGED <<enabled, quotaVars>>
       \/ RunFreeFirstWorkItem(a, w)

Returns(a) ==
  /\ WorkerReturns(a) \/ VerifierReturns(a) \/ DrillReturns(a)
  /\ FollowedBySync

Next ==
  \/ ApiStep
  \/ SpendStep
  \/ LoopStarts
  \/ \E a \in Assignments : Returns(a)
  \/ \E a \in Assignments : KilledBeforeCharge(a) /\ UNCHANGED quotaVars
  \/ SyncUsageFromAttempts
  \/ KilledInSync
  \/ ApplyPolicy
  \/ ProvisionFreeRoutes
  \/ Crash

\* Every call of a provider ends: it answers, throws, or is aborted by its timeout.
Spec == Init /\ [][Next]_vars /\ \A a \in Assignments : WF_vars(Returns(a))

-----------------------------------------------------------------------------
(* What the kernel and the broker promise *)

\* However checks, calls and charges of loops and metered actions interleave, the
\* envelope's amount is what was charged and never more than was approved; and unless
\* the process was killed, what has succeeded on a metered route was charged.
SpendIsAccounted ==
  LET charged == {t \in attempts : t.charged} IN
  /\ spend.spent = spend.direct + MapThenSumSet(LAMBDA t : Estimate[t.route], charged)
  /\ spend.spent <= MaxAmount
  /\ crashes = 0 => \A t \in attempts :
       t.status = "succeeded" /\ t.route \in Metered => t.charged

\* What a loop's row says is what became of its assignment; and a loop that awaits
\* nothing is still running only if it was killed, or someone else moved the
\* assignment or its item in the meantime.
LoopTellsTheOutcome ==
  \A a \in Assignments :
    /\ loop[a].status = "passed" => assignment[a].verified = "passed"
    /\ loop[a].status = "exhausted" => assignment[a].verified = "failed"
    /\ loop[a].status \in {"blocked", "failed"} => assignment[a].status \notin {"created", "running"}
    /\ loop[a].status = "running" /\ loop[a].awaits = "nothing" =>
         assignment[a].status # "running" \/ ~Current(a)

\* Over all its callers, a sync counts every attempt once, but for those it was
\* killed over.
CountedOnce ==
  \A b \in Buckets :
    /\ requests[b] >= Cardinality(OfBucket(accounted, b))
    /\ requests[b] <= Cardinality(OfBucket(accounted, b)) + recounts

\* The broker never starts a loop with a worker on the quota that is reserved for
\* verifiers, however long ago policy and usage were brought up to date.
WorkersLeaveReserve ==
  [][\A a \in Assignments :
       loop[a].status = "none" /\ loop'[a].terms.free =>
         quota'[Bucket[loop'[a].worker]] \notin {"reserved", "exhausted"}]_vars

\* Through failures, replacements and retries, a loop ends.
EveryLoopEnds ==
  \A a \in Assignments : loop[a].awaits \in Awaited ~> loop[a].awaits \notin Awaited

\* "When independent verification is required, the verifier route must come from a
\* different independence_group": no loop that requires it passes otherwise.
IndependentVerification ==
  \A a \in Assignments : loop[a].status = "passed" /\ loop[a].terms.independent =>
    Group[loop[a].worker] # Group[loop[a].verifier]
=============================================================================
