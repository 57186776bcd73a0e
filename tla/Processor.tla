----------------------------- MODULE Processor -----------------------------
(***************************************************************************)
(* Processor.Process (internal/agent/pipeline.go:154-242): what the one    *)
(* worker does with an incident it took from the queue.  It composes the   *)
(* LLM budget, the registry of learned plans and the RCA cache.            *)
(*                                                                         *)
(* The budget's file always works here (CallBudget has its faults), what a *)
(* plan collects is in Collection, and of the registry only the patterns   *)
(* with an active plan are left: AdaptivePlans says when Observe activates *)
(* and RecordValidation demotes one, here either may or may not.           *)
(***************************************************************************)
EXTENDS Naturals, Sequences, FiniteSets

CONSTANTS
    Patterns,      \* kinds of incidents, told apart by adaptivePlanKey
    KnownPatterns, \* those of a kind knownPlan has a plan for
    Keys, NoKey,   \* what incidentCacheKey returns, and the "" of a zero StartedAt
    Incidents,     \* each has its pattern, its key, and whether exactPattern matches
    Limits,        \* values of Config.MaxBedrockCalls
    Hour,          \* the budget's window
    TTL,           \* Config.RCACacheTTL, 0 for any that is not positive
    CacheSize,     \* the 512 of cacheRCA
    MaxTime, MaxCrashes, MaxIncidents \* bounds of the model

ASSUME ProcessorAssumption ==
    /\ KnownPatterns \subseteq Patterns
    /\ IsFiniteSet(Keys) /\ NoKey \notin Keys
    /\ Incidents \subseteq [pattern : Patterns, key : Keys \cup {NoKey}, exact : BOOLEAN]
    /\ Limits \subseteq Nat /\ Hour \in Nat /\ TTL \in Nat /\ CacheSize \in Nat \ {0}
    /\ {MaxTime, MaxCrashes, MaxIncidents} \subseteq Nat

VARIABLES
    now,        \* time.Now()
    limit, calls, \* callBudget
    cache,      \* Processor.rcaCache: when the entry of a key expires
    active,     \* patterns with an active adaptive plan
    pc,         \* where Process is
    incident,   \* the incident
    path,       \* the local path
    plannerErr, \* plannerErr # nil
    complete,   \* the local complete
    outcome,    \* how Process answered
    limited,    \* the last Allow said no, and Process has yet to go on
    taken, crashes,
    grants,     \* history: calls granted under a limit, oldest first
    verdicts    \* history: when a valid RCA of each key was made

budgetVars == <<limit, calls, grants>>
callVars == <<incident, path, plannerErr, complete, outcome, limited>>
vars == <<now, budgetVars, cache, active, pc, callVars, taken, crashes, verdicts>>

Absent == MaxTime + TTL + 1   \* no entry: an expiry that never comes
Stored(c) == {k \in Keys : c[k] # Absent}

TypeOK ==
    /\ now \in Nat /\ limit \in Limits /\ calls \in Seq(Nat) /\ grants \in Seq(Nat)
    /\ cache \in [Keys -> Nat] /\ Cardinality(Stored(cache)) <= CacheSize
    /\ active \subseteq Patterns \ KnownPatterns
    /\ pc \in {"idle", "planning", "planned", "collecting", "analyzing", "deliver"}
    /\ incident \in Incidents
    /\ path \in {"exact_pattern", "known_plan", "adaptive_plan", "llm_planner"}
    /\ {plannerErr, complete, limited} \subseteq BOOLEAN
    /\ outcome \in {"none", "exact", "cached", "analysed", "fallback"}
    /\ taken \in Nat /\ crashes \in Nat
    /\ verdicts \subseteq [key : Keys, at : Nat]

Init ==
    /\ now = 0 /\ limit \in Limits /\ calls = <<>> /\ grants = <<>>
    /\ cache = [k \in Keys |-> Absent] /\ active = {}
    /\ pc = "idle"
    /\ incident \in Incidents
    /\ path = "known_plan" /\ plannerErr = FALSE /\ complete = FALSE
    /\ outcome = "none" /\ limited = FALSE
    /\ taken = 0 /\ crashes = 0 /\ verdicts = {}

-----------------------------------------------------------------------------
(* callBudget.Allow                                                        *)

(* Where the loop over the oldest calls stops.                             *)
FirstLive(first) ==
    /\ \A i \in 1..first : calls[i] + Hour < now
    /\ first < Len(calls) => calls[first + 1] + Hour >= now

Live(first) == SubSeq(calls, first + 1, Len(calls))

Granted ==
    \/ limit = 0 /\ UNCHANGED budgetVars
    \/ /\ limit > 0
       /\ \E first \in 0..Len(calls) :
            /\ FirstLive(first) /\ Len(Live(first)) < limit
            /\ calls' = Append(Live(first), now)
       /\ grants' = Append(grants, now)
       /\ UNCHANGED limit

Denied ==
    /\ limit > 0
    /\ \E first \in 0..Len(calls) :
        /\ FirstLive(first) /\ Len(Live(first)) >= limit
        /\ calls' = Live(first)
    /\ UNCHANGED <<limit, grants>>

(* Mutation: expired entries stay.                                         *)
PurgedNot(c) == c

(* cachedRCA deletes every expired entry before it looks.                  *)
Purged(c) == [k \in Keys |-> IF c[k] < now THEN Absent ELSE c[k]]

(* Mutation: the cache grows past its size.                                *)
RoomIgnored(c) == {c}

(* cacheRCA makes room among the entries that expire first, for a key that *)
(* is there already too.                                                   *)
Room(c) ==
    IF Cardinality(Stored(c)) < CacheSize THEN {c}
    ELSE {[c EXCEPT ![k] = Absent] : k \in {o \in Stored(c) : \A q \in Stored(c) : c[o] <= c[q]}}

-----------------------------------------------------------------------------
(* cachedRCA and cacheRCA do nothing without a TTL or a key.               *)
Cacheable(i) == TTL > 0 /\ i.key # NoKey

(* Run takes an incident and calls Process.  Before any call that blocks   *)
(* it matches patterns, looks into the cache and chooses a plan.           *)
Take(i) ==
    /\ pc = "idle" /\ taken < MaxIncidents
    /\ taken' = taken + 1
    /\ incident' = i
    /\ complete' = FALSE
    /\ UNCHANGED <<now, active, crashes, verdicts>>

TakeExact(i) ==
    /\ Take(i) /\ i.exact
    /\ pc' = "deliver" /\ path' = "exact_pattern" /\ outcome' = "exact"
    /\ plannerErr' = FALSE /\ limited' = FALSE
    /\ UNCHANGED <<budgetVars, cache>>

LookedUp(i) == IF Cacheable(i) THEN Purged(cache) ELSE cache

Hit(i) == Cacheable(i) /\ i.key \in Stored(LookedUp(i))

(* The outcome has the path the entry was made on, left out here.          *)
TakeCached(i) ==
    /\ Take(i) /\ ~i.exact /\ Hit(i)
    /\ cache' = LookedUp(i)
    /\ pc' = "deliver" /\ outcome' = "cached"
    /\ plannerErr' = FALSE /\ limited' = FALSE
    /\ UNCHANGED <<budgetVars, path>>

(* What the three ways to a plan share.                                    *)
TakeMiss(i) ==
    /\ Take(i) /\ ~i.exact /\ ~Hit(i)
    /\ cache' = LookedUp(i)
    /\ outcome' = "none"

TakeKnown(i) ==
    /\ TakeMiss(i) /\ i.pattern \in KnownPatterns
    /\ pc' = "planned" /\ path' = "known_plan"
    /\ plannerErr' = FALSE /\ limited' = FALSE
    /\ UNCHANGED budgetVars

TakeAdaptive(i) ==
    /\ TakeMiss(i) /\ i.pattern \in active
    /\ pc' = "planned" /\ path' = "adaptive_plan"
    /\ plannerErr' = FALSE /\ limited' = FALSE
    /\ UNCHANGED budgetVars

TakePlanner(i) ==
    /\ TakeMiss(i) /\ i.pattern \notin KnownPatterns \cup active
    /\ Granted
    /\ pc' = "planning" /\ path' = "llm_planner"
    /\ plannerErr' = FALSE /\ limited' = FALSE

TakePlannerDenied(i) ==
    /\ TakeMiss(i) /\ i.pattern \notin KnownPatterns \cup active
    /\ Denied
    /\ pc' = "planned" /\ path' = "llm_planner"
    /\ plannerErr' = TRUE /\ limited' = TRUE

(* LLM.Plan returns a plan or an error, which leaves the default plan.     *)
PlanReturns ==
    /\ pc = "planning"
    /\ pc' = "planned"
    /\ plannerErr' \in BOOLEAN
    /\ UNCHANGED <<now, budgetVars, cache, active, incident, path, complete, outcome, limited,
                   taken, crashes, verdicts>>

(* The plan is merged with the contract and Collect starts.                *)
StartCollect ==
    /\ pc = "planned"
    /\ pc' = "collecting" /\ limited' = FALSE
    /\ UNCHANGED <<now, budgetVars, cache, active, incident, path, plannerErr, complete, outcome,
                   taken, crashes, verdicts>>

(* Mutation: the analysis is not asked of the budget.                      *)
CollectedUnasked(isComplete) ==
    /\ pc = "collecting"
    /\ complete' = isComplete
    /\ pc' = "analyzing"
    /\ UNCHANGED <<budgetVars, now, cache, active, incident, path, plannerErr, outcome, limited,
                   taken, crashes, verdicts>>

(* Collect returns and the budget allows the analysis.                     *)
Collected(isComplete) ==
    /\ pc = "collecting"
    /\ complete' = isComplete
    /\ Granted
    /\ pc' = "analyzing"
    /\ UNCHANGED <<now, cache, active, incident, path, plannerErr, outcome, limited,
                   taken, crashes, verdicts>>

(* Collect returns and the budget is exhausted: the deterministic RCA.     *)
CollectedDenied(isComplete) ==
    /\ pc = "collecting"
    /\ complete' = isComplete
    /\ Denied
    /\ pc' = "deliver" /\ outcome' = "fallback" /\ limited' = TRUE
    /\ UNCHANGED <<now, cache, active, incident, path, plannerErr,
                   taken, crashes, verdicts>>

(* LLM.Analyze returns an error: the deterministic RCA.                    *)
AnalyzeFails ==
    /\ pc = "analyzing"
    /\ pc' = "deliver" /\ outcome' = "fallback"
    /\ UNCHANGED <<now, budgetVars, cache, active, incident, path, plannerErr, complete, limited,
                   taken, crashes, verdicts>>

(* Mutation: incomplete evidence counts against the plan.                  *)
LearnedAlways(valid) ==
    IF path = "adaptive_plan" THEN {active} \cup (IF valid THEN {} ELSE {active \ {incident.pattern}})
    ELSE IF path = "llm_planner" /\ ~plannerErr /\ valid
         THEN {active, active \cup {incident.pattern}} \cup {active \ {k} : k \in active}
         ELSE {active}

(* The patterns with an active plan after RecordValidation, which may demote  *)
(* the plan, or Observe, which may promote one or evict another.           *)
Learned(valid) ==
    IF path = "adaptive_plan" /\ complete
    THEN {active} \cup (IF valid THEN {} ELSE {active \ {incident.pattern}})
    ELSE IF path = "llm_planner" /\ ~plannerErr /\ valid
         THEN {active, active \cup {incident.pattern}} \cup {active \ {k} : k \in active}
         ELSE {active}

(* LLM.Analyze returns an RCA.  One that is not grounded is downgraded to  *)
(* low confidence.                                                         *)
AnalyzeReturns(grounded, low) ==
    /\ pc = "analyzing"
    /\ LET valid == complete /\ grounded /\ ~low IN
        /\ active' \in Learned(valid)
        /\ IF valid /\ Cacheable(incident)
           THEN /\ \E c \in Room(cache) : cache' = [c EXCEPT ![incident.key] = now + TTL]
                /\ verdicts' = verdicts \cup {[key |-> incident.key, at |-> now]}
           ELSE UNCHANGED <<cache, verdicts>>
    /\ pc' = "deliver" /\ outcome' = "analysed"
    /\ UNCHANGED <<now, budgetVars, incident, path, plannerErr, complete, limited,
                   taken, crashes>>

(* Run sends the outcome, or in shadow mode does not; an error is logged.  *)
Deliver ==
    /\ pc = "deliver"
    /\ pc' = "idle" /\ limited' = FALSE
    /\ UNCHANGED <<now, budgetVars, cache, active, incident, path, plannerErr, complete, outcome,
                   taken, crashes, verdicts>>

(* The agent dies; the budget and the registry come back from their files. *)
Restart ==
    /\ crashes < MaxCrashes
    /\ crashes' = crashes + 1
    /\ pc' = "idle" /\ limited' = FALSE
    /\ cache' = [k \in Keys |-> Absent]
    /\ UNCHANGED <<now, budgetVars, active, incident, path, plannerErr, complete, outcome,
                   taken, verdicts>>

Tick ==
    /\ now < MaxTime
    /\ now' = now + 1
    /\ UNCHANGED <<budgetVars, cache, active, pc, callVars, taken, crashes, verdicts>>

(* The rest of Process, once it has an incident.                           *)
Process ==
    \/ PlanReturns \/ StartCollect \/ AnalyzeFails \/ Deliver
    \/ \E isComplete \in BOOLEAN : Collected(isComplete) \/ CollectedDenied(isComplete)
    \/ \E grounded, low \in BOOLEAN : AnalyzeReturns(grounded, low)

Run ==
    \E i \in Incidents :
        \/ TakeExact(i) \/ TakeCached(i) \/ TakeKnown(i)
        \/ TakeAdaptive(i) \/ TakePlanner(i) \/ TakePlannerDenied(i)

Next == Run \/ Process \/ Restart \/ Tick

Spec == Init /\ [][Next]_vars

-----------------------------------------------------------------------------
(* Process uses the budget the way CallBudget has it used: it asks once    *)
(* before each call, makes the call it was granted and none it was denied. *)
(* What holds of CallBudget with a working file, HourlyLimit, holds here.  *)
Caller ==
    IF pc \in {"planning", "analyzing"} THEN "calling" ELSE IF limited THEN "limited" ELSE "idle"

Budget == INSTANCE CallBudget WITH
    Persistent <- TRUE, DiskFaults <- FALSE, disk <- calls, caller <- Caller,
    unsaved <- FALSE, forgotten <- FALSE

ImplementsBudget == Budget!Spec

(* cachedRCA, cacheRCA and their callers (pipeline.go:161-165, 238-240,    *)
(* 308-341): an answer from the cache repeats one that was made under the  *)
(* same key (Incident.Key and StartedAt) no longer than TTL ago, from      *)
(* complete evidence, grounded and not of low confidence, whatever was     *)
(* evicted or restarted between.  Incidents that share a key, as one       *)
(* alert does before and after its description changes, share the answer.  *)
CachedWasValid ==
    [][pc = "idle" /\ outcome' = "cached" /\ pc' = "deliver" =>
        \E v \in verdicts : v.key = incident'.key /\ v.at + TTL >= now]_vars

(* Process (pipeline.go:211-240; TestAdaptivePlanIgnoresInconclusive-      *)
(* Failures): a plan gains or loses its place, and a cache entry appears,  *)
(* only for an answer of the LLM about complete evidence.  An exhausted    *)
(* budget, a failed call or collector never counts for or against a plan.  *)
LearnsFromCompleteEvidence ==
    [][active' # active \/ ~(Stored(cache') \subseteq Stored(cache)) =>
        complete /\ pc = "analyzing" /\ outcome' = "analysed"]_vars

=============================================================================
