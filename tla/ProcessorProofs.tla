-------------------------- MODULE ProcessorProofs --------------------------
(***************************************************************************)
(* Proofs about Processor, for any incidents and keys, limits, TTL, cache  *)
(* size and number of restarts.                                            *)
(***************************************************************************)
EXTENDS Processor, FiniteSetTheorems, SequenceTheorems, TLAPS

-----------------------------------------------------------------------------
(* Facts about the cache.                                                  *)

Caches == [Keys -> Nat]

(* There are finitely many keys, so the entries of a cache can be counted. *)
LEMMA StoredFinite ==
    ASSUME NEW c \in Caches
    PROVE  IsFiniteSet(Stored(c)) /\ Cardinality(Stored(c)) \in Nat
<1>1. IsFiniteSet(Keys)
    BY ProcessorAssumption
<1>2. Stored(c) \in SUBSET Keys
    BY DEF Stored
<1> QED
    BY <1>1, <1>2, FS_Subset, FS_CardinalityType

(* No time of the model is the expiry that stands for no entry.            *)
LEMMA AbsentIsLater ==
    /\ Absent \in Nat
    /\ \A t \in Nat : t <= MaxTime => t + TTL \in Nat /\ t + TTL # Absent
    BY ProcessorAssumption DEF Absent

(* A cache that lost entries and changed none.                             *)
Shrunk(d, c) ==
    /\ d \in Caches
    /\ Stored(d) \subseteq Stored(c)
    /\ \A k \in Stored(d) : d[k] = c[k]

(* A cache that lost entries is no larger.                                 *)
LEMMA ShrunkSize ==
    ASSUME NEW c \in Caches, NEW d, Shrunk(d, c), Cardinality(Stored(c)) <= CacheSize
    PROVE  Cardinality(Stored(d)) <= CacheSize
<1>1. Cardinality(Stored(d)) <= Cardinality(Stored(c))
    BY StoredFinite, FS_Subset DEF Shrunk
<1>2. Cardinality(Stored(d)) \in Nat /\ Cardinality(Stored(c)) \in Nat /\ CacheSize \in Nat
    BY StoredFinite, ProcessorAssumption DEF Shrunk
<1> QED
    BY <1>1, <1>2

(* Purging loses the expired entries.                                      *)
LEMMA PurgedShrinks ==
    ASSUME NEW c \in Caches
    PROVE  /\ Shrunk(Purged(c), c)
           /\ \A k \in Stored(Purged(c)) : ~(c[k] < now)
<1>1. Purged(c) \in Caches
    BY AbsentIsLater DEF Purged, Caches
<1>2. \A k \in Keys : Purged(c)[k] = IF c[k] < now THEN Absent ELSE c[k]
    BY DEF Purged
<1> QED
    BY <1>1, <1>2 DEF Shrunk, Stored

(* A restart loses every entry.                                            *)
LEMMA EmptyShrinks ==
    ASSUME NEW c
    PROVE  Shrunk([k \in Keys |-> Absent], c)
    BY AbsentIsLater DEF Shrunk, Stored, Caches

(* Making room leaves a cache with room in it.                             *)
LEMMA RoomShrinks ==
    ASSUME NEW c \in Caches, Cardinality(Stored(c)) <= CacheSize, NEW d \in Room(c)
    PROVE  Shrunk(d, c) /\ Cardinality(Stored(d)) < CacheSize
<1>1. Cardinality(Stored(c)) \in Nat /\ CacheSize \in Nat \ {0}
    BY StoredFinite, ProcessorAssumption
<1>2. CASE Cardinality(Stored(c)) < CacheSize
    BY <1>2 DEF Room, Shrunk
<1>3. CASE ~(Cardinality(Stored(c)) < CacheSize)
    <2>1. PICK o \in Stored(c) : d = [c EXCEPT ![o] = Absent]
        BY <1>3 DEF Room
    <2>2. d \in Caches /\ \A k \in Keys : d[k] = IF k = o THEN Absent ELSE c[k]
        BY <2>1, AbsentIsLater DEF Caches, Stored
    <2>3. Stored(d) = Stored(c) \ {o}
        BY <2>2 DEF Stored
    <2>4. Cardinality(Stored(d)) = Cardinality(Stored(c)) - 1
        BY <2>3, StoredFinite, FS_RemoveElement
    <2>5. Shrunk(d, c)
        BY <2>2, <2>3 DEF Shrunk, Stored
    <2> QED
        BY <1>1, <2>4, <2>5
<1> QED
    BY <1>2, <1>3

(* One more entry in a cache with room in it.                              *)
LEMMA AddedSize ==
    ASSUME NEW d \in Caches, Cardinality(Stored(d)) < CacheSize, NEW key \in Keys, NEW t \in Nat
    PROVE  /\ [d EXCEPT ![key] = t] \in Caches
           /\ Cardinality(Stored([d EXCEPT ![key] = t])) <= CacheSize
<1> DEFINE e == [d EXCEPT ![key] = t]
<1>1. e \in Caches
    BY DEF Caches
<1>2. Stored(e) \in SUBSET (Stored(d) \cup {key})
    BY DEF Stored, Caches
<1>3. /\ IsFiniteSet(Stored(d) \cup {key})
      /\ Cardinality(Stored(d) \cup {key}) <= Cardinality(Stored(d)) + 1
    <2>1. IsFiniteSet(Stored(d)) /\ Cardinality(Stored(d)) \in Nat
        BY StoredFinite
    <2>2. /\ IsFiniteSet(Stored(d) \cup {key})
          /\ \/ Cardinality(Stored(d) \cup {key}) = Cardinality(Stored(d))
             \/ Cardinality(Stored(d) \cup {key}) = Cardinality(Stored(d)) + 1
        BY <2>1, FS_AddElement
    <2> QED
        BY <2>1, <2>2
<1>4. Cardinality(Stored(e)) <= Cardinality(Stored(d) \cup {key})
    BY <1>2, <1>3, FS_Subset
<1>5. /\ Cardinality(Stored(d)) \in Nat /\ Cardinality(Stored(d) \cup {key}) \in Nat
      /\ Cardinality(Stored(e)) \in Nat /\ CacheSize \in Nat
    BY <1>1, <1>3, StoredFinite, FS_CardinalityType, ProcessorAssumption
<1> QED
    BY <1>1, <1>3, <1>4, <1>5

-----------------------------------------------------------------------------
(* Types, with the bound of the clock, and the reason why a plan is        *)
(* learned only for a pattern that has none: the planner is asked for no   *)
(* other.                                                                  *)
PlannedIsUnknown ==
    pc \in {"planning", "planned", "collecting", "analyzing"} /\ path = "llm_planner" =>
        incident.pattern \notin KnownPatterns

TInv ==
    /\ TypeOK
    /\ now <= MaxTime
    /\ PlannedIsUnknown

(* What Allow leaves in the list and in the history.                       *)
LEMMA BudgetTypes ==
    ASSUME TypeOK, Granted \/ Denied
    PROVE  limit' \in Limits /\ calls' \in Seq(Nat) /\ grants' \in Seq(Nat)
<1>1. limit \in Limits /\ calls \in Seq(Nat) /\ grants \in Seq(Nat) /\ now \in Nat
    BY DEF TypeOK
<1>2. ASSUME NEW first \in 0..Len(calls) PROVE Live(first) \in Seq(Nat)
    <2>1. Len(calls) \in Nat /\ \A i \in first + 1 .. Len(calls) : calls[i] \in Nat
        BY <1>1, LenProperties, ElementOfSeq
    <2> QED
        BY <2>1, SubSeqProperties DEF Live
<1>3. CASE Granted
    <2>1. CASE UNCHANGED budgetVars
        BY <1>1, <2>1 DEF budgetVars
    <2>2. CASE ~UNCHANGED budgetVars
        <3>1. PICK first \in 0..Len(calls) : calls' = Append(Live(first), now)
            BY <1>3, <2>2 DEF Granted
        <3>2. grants' = Append(grants, now) /\ limit' = limit
            BY <1>3, <2>2 DEF Granted
        <3> QED
            BY <1>1, <1>2, <3>1, <3>2, AppendProperties
    <2> QED
        BY <2>1, <2>2
<1>4. CASE Denied
    BY <1>1, <1>2, <1>4 DEF Denied
<1> QED
    BY <1>3, <1>4

LEMMA InitTypes == Init => TInv
<1> SUFFICES ASSUME Init PROVE TInv
    OBVIOUS
<1>1. cache \in [Keys -> Nat] /\ Stored(cache) = {}
    BY AbsentIsLater DEF Init, Stored
<1>2. Cardinality(Stored(cache)) <= CacheSize
    BY <1>1, FS_EmptySet, ProcessorAssumption
<1>3. incident \in Incidents
    BY DEF Init
<1>4. {plannerErr, complete, limited} \subseteq BOOLEAN
    BY Zenon DEF Init
<1>5. /\ now \in Nat /\ limit \in Limits /\ calls \in Seq(Nat) /\ grants \in Seq(Nat)
      /\ now <= MaxTime /\ taken \in Nat /\ crashes \in Nat
    BY ProcessorAssumption DEF Init
<1>6. /\ active \subseteq Patterns \ KnownPatterns
      /\ pc = "idle" /\ path = "known_plan" /\ outcome = "none" /\ verdicts = {}
    BY DEF Init
<1> QED
    BY <1>1, <1>2, <1>3, <1>4, <1>5, <1>6 DEF TInv, TypeOK, PlannedIsUnknown

(* The steps of Next but the one that answers from an RCA.                 *)
Silent ==
    \/ Run \/ PlanReturns \/ StartCollect \/ AnalyzeFails \/ Deliver
    \/ \E isComplete \in BOOLEAN : Collected(isComplete) \/ CollectedDenied(isComplete)
    \/ Restart \/ Tick \/ UNCHANGED vars

LEMMA Steps ==
    [Next]_vars <=> Silent \/ \E grounded, low \in BOOLEAN : AnalyzeReturns(grounded, low)
BY DEF Next, Process, Silent

(* Such steps lose entries of the cache and learn nothing.                 *)
LEMMA SilentShrinks ==
    ASSUME TypeOK, Silent
    PROVE  Shrunk(cache', cache) /\ verdicts' = verdicts /\ active' = active
<1>0. cache \in Caches
    BY DEF TypeOK, Caches
<1>1. ASSUME NEW i \in Incidents,
             TakeExact(i) \/ TakeCached(i) \/ TakeMiss(i)
      PROVE  Shrunk(cache', cache) /\ verdicts' = verdicts /\ active' = active
    <2>1. cache' = cache \/ cache' = Purged(cache)
        BY <1>1 DEF TakeExact, TakeCached, TakeMiss, LookedUp
    <2>2. Shrunk(cache', cache)
        BY <1>0, <2>1, PurgedShrinks DEF Shrunk
    <2> QED
        BY <1>1, <2>2 DEF TakeExact, TakeCached, TakeMiss, Take
<1>2. CASE Run
    BY <1>1, <1>2 DEF Run, TakeKnown, TakeAdaptive, TakePlanner, TakePlannerDenied
<1>3. CASE Restart
    BY <1>3, EmptyShrinks DEF Restart
<1>4. ASSUME NEW isComplete \in BOOLEAN, Collected(isComplete) \/ CollectedDenied(isComplete)
      PROVE  Shrunk(cache', cache) /\ verdicts' = verdicts /\ active' = active
    BY <1>0, <1>4 DEF Collected, CollectedDenied, Shrunk
<1>5. CASE PlanReturns \/ StartCollect \/ AnalyzeFails \/ Deliver \/ Tick \/ UNCHANGED vars
    BY <1>0, <1>5 DEF PlanReturns, StartCollect, AnalyzeFails, Deliver, Tick, vars, Shrunk
<1> QED
    BY <1>2, <1>3, <1>4, <1>5 DEF Silent

(* A valid RCA takes its place in the cache, any other leaves it alone.    *)
LEMMA AnswerStored ==
    ASSUME TInv, NEW grounded \in BOOLEAN, NEW low \in BOOLEAN, AnalyzeReturns(grounded, low)
    PROVE  \/ UNCHANGED <<cache, verdicts>>
           \/ /\ complete /\ incident.key \in Keys
              /\ verdicts' = verdicts \cup {[key |-> incident.key, at |-> now]}
              /\ \E d : /\ Shrunk(d, cache) /\ Cardinality(Stored(d)) < CacheSize
                        /\ cache' = [d EXCEPT ![incident.key] = now + TTL]
<1>1. CASE complete /\ grounded /\ ~low /\ Cacheable(incident)
    <2>0. incident.key \in Keys
        BY <1>1, ProcessorAssumption DEF Cacheable, TInv, TypeOK
    <2>1. PICK d \in Room(cache) : cache' = [d EXCEPT ![incident.key] = now + TTL]
        BY <1>1 DEF AnalyzeReturns
    <2>2. Shrunk(d, cache) /\ Cardinality(Stored(d)) < CacheSize
        BY RoomShrinks DEF TInv, TypeOK, Caches
    <2> QED
        BY <1>1, <2>0, <2>1, <2>2 DEF AnalyzeReturns
<1>2. CASE ~(complete /\ grounded /\ ~low /\ Cacheable(incident))
    BY <1>2 DEF AnalyzeReturns
<1> QED
    BY <1>1, <1>2

LEMMA CacheTypes ==
    ASSUME TInv, [Next]_vars
    PROVE  cache' \in Caches /\ Cardinality(Stored(cache')) <= CacheSize
<1>0. cache \in Caches /\ Cardinality(Stored(cache)) <= CacheSize
    BY DEF TInv, TypeOK, Caches
<1>1. CASE Silent
    BY <1>0, <1>1, SilentShrinks, ShrunkSize DEF TInv, Shrunk
<1>2. ASSUME NEW grounded \in BOOLEAN, NEW low \in BOOLEAN, AnalyzeReturns(grounded, low)
      PROVE  cache' \in Caches /\ Cardinality(Stored(cache')) <= CacheSize
    <2>1. now + TTL \in Nat
        BY AbsentIsLater DEF TInv, TypeOK
    <2>2. ASSUME NEW d, Shrunk(d, cache), Cardinality(Stored(d)) < CacheSize, incident.key \in Keys,
                 cache' = [d EXCEPT ![incident.key] = now + TTL]
          PROVE  cache' \in Caches /\ Cardinality(Stored(cache')) <= CacheSize
        BY <2>1, <2>2, AddedSize DEF Shrunk
    <2> QED
        BY <1>0, <1>2, <2>2, AnswerStored
<1> QED
    BY <1>1, <1>2, Steps

(* The answers of Allow and of LLM.Plan, and what they leave, have types.  *)
LEMMA BudgetStep ==
    ASSUME TInv, [Next]_vars
    PROVE  limit' \in Limits /\ calls' \in Seq(Nat) /\ grants' \in Seq(Nat)
<1>1. Granted \/ Denied \/ UNCHANGED budgetVars
    BY DEF Next, Run, Process, TakeExact, TakeCached, TakeKnown, TakeAdaptive, TakePlanner,
           TakePlannerDenied, PlanReturns, StartCollect, Collected, CollectedDenied, AnalyzeFails,
           AnalyzeReturns, Deliver, Restart, Tick, vars
<1>2. CASE UNCHANGED budgetVars
    BY <1>2 DEF budgetVars, TInv, TypeOK
<1> QED
    BY <1>1, <1>2, BudgetTypes DEF TInv

LEMMA BooleanStep ==
    ASSUME TInv, [Next]_vars
    PROVE  {plannerErr', complete', limited'} \subseteq BOOLEAN
<1>0. {plannerErr, complete, limited} \subseteq BOOLEAN
    BY DEF TInv, TypeOK
<1>1. plannerErr' \in {plannerErr, TRUE, FALSE}
    BY DEF Next, Run, Process, TakeExact, TakeCached, TakeKnown, TakeAdaptive, TakePlanner,
           TakePlannerDenied, PlanReturns, StartCollect, Collected, CollectedDenied, AnalyzeFails,
           AnalyzeReturns, Deliver, Restart, Tick, vars, callVars
<1>2. complete' \in {complete, TRUE, FALSE}
    BY DEF Next, Run, Process, TakeExact, TakeCached, TakeKnown, TakeAdaptive, TakePlanner,
           TakePlannerDenied, TakeMiss, Take, PlanReturns, StartCollect, Collected, CollectedDenied,
           AnalyzeFails, AnalyzeReturns, Deliver, Restart, Tick, vars, callVars
<1>3. limited' \in {limited, TRUE, FALSE}
    BY DEF Next, Run, Process, TakeExact, TakeCached, TakeKnown, TakeAdaptive, TakePlanner,
           TakePlannerDenied, PlanReturns, StartCollect, Collected, CollectedDenied, AnalyzeFails,
           AnalyzeReturns, Deliver, Restart, Tick, vars, callVars
<1> QED
    BY <1>0, <1>1, <1>2, <1>3, Zenon

(* Where Process is, and why it is there.                                  *)
LEMMA ControlStep ==
    ASSUME TInv, [Next]_vars
    PROVE  /\ pc' \in {"idle", "planning", "planned", "collecting", "analyzing", "deliver"}
           /\ incident' \in Incidents
           /\ path' \in {"exact_pattern", "known_plan", "adaptive_plan", "llm_planner"}
           /\ outcome' \in {"none", "exact", "cached", "analysed", "fallback"}
           /\ taken' \in Nat /\ crashes' \in Nat
           /\ now' \in Nat /\ now' <= MaxTime
           /\ PlannedIsUnknown'
<1> DEFINE Goal ==
        /\ pc' \in {"idle", "planning", "planned", "collecting", "analyzing", "deliver"}
        /\ incident' \in Incidents
        /\ path' \in {"exact_pattern", "known_plan", "adaptive_plan", "llm_planner"}
        /\ outcome' \in {"none", "exact", "cached", "analysed", "fallback"}
        /\ taken' \in Nat /\ crashes' \in Nat
        /\ now' \in Nat /\ now' <= MaxTime
        /\ PlannedIsUnknown'
<1> USE DEF TInv, TypeOK, PlannedIsUnknown
<1>1. ASSUME NEW i \in Incidents,
             TakeExact(i) \/ TakeCached(i) \/ TakeKnown(i) \/ TakeAdaptive(i)
      PROVE  Goal
    BY <1>1 DEF TakeExact, TakeCached, TakeKnown, TakeAdaptive, TakeMiss, Take
<1>2. ASSUME NEW i \in Incidents,
             TakePlanner(i) \/ TakePlannerDenied(i)
      PROVE  Goal
    BY <1>2 DEF TakePlanner, TakePlannerDenied, TakeMiss, Take
<1>3. CASE PlanReturns \/ StartCollect \/ AnalyzeFails \/ Deliver \/ UNCHANGED vars
    BY <1>3 DEF PlanReturns, StartCollect, AnalyzeFails, Deliver, vars, callVars
<1>4. ASSUME NEW isComplete \in BOOLEAN, Collected(isComplete) \/ CollectedDenied(isComplete)
      PROVE  Goal
    BY <1>4 DEF Collected, CollectedDenied
<1>5. ASSUME NEW grounded \in BOOLEAN, NEW low \in BOOLEAN, AnalyzeReturns(grounded, low)
      PROVE  Goal
    BY <1>5 DEF AnalyzeReturns
<1>6. CASE Restart \/ Tick
    BY <1>6, ProcessorAssumption DEF Restart, Tick, callVars
<1> QED
    BY <1>1, <1>2, <1>3, <1>4, <1>5, <1>6 DEF Next, Run, Process

(* Plans are learned only for patterns that have no predefined one.        *)
LEMMA ActiveStep ==
    ASSUME TInv, [Next]_vars
    PROVE  active' \subseteq Patterns \ KnownPatterns
<1>1. CASE Silent
    BY <1>1, SilentShrinks DEF TInv, TypeOK
<1>2. ASSUME NEW valid, active' \in Learned(valid), pc = "analyzing"
      PROVE  active' \subseteq Patterns \ KnownPatterns
    <2>1. path = "llm_planner" => incident.pattern \in Patterns \ KnownPatterns
        BY <1>2, ProcessorAssumption DEF TInv, TypeOK, PlannedIsUnknown
    <2>2. active \subseteq Patterns \ KnownPatterns
        BY DEF TInv, TypeOK
    <2> QED
        BY <1>2, <2>1, <2>2 DEF Learned
<1> QED
    BY <1>1, <1>2, Steps DEF AnalyzeReturns

LEMMA VerdictsStep ==
    ASSUME TInv, [Next]_vars
    PROVE  verdicts' \subseteq [key : Keys, at : Nat]
<1>1. verdicts \subseteq [key : Keys, at : Nat] /\ now \in Nat
    BY DEF TInv, TypeOK
<1>2. \/ verdicts' = verdicts
      \/ incident.key \in Keys /\ verdicts' = verdicts \cup {[key |-> incident.key, at |-> now]}
    BY Steps, SilentShrinks, AnswerStored DEF TInv
<1> QED
    BY <1>1, <1>2

LEMMA TypeStep == TInv /\ [Next]_vars => TInv'
<1> SUFFICES ASSUME TInv, [Next]_vars PROVE TInv'
    OBVIOUS
<1>1. TypeOK'
    BY CacheTypes, BudgetStep, BooleanStep, ControlStep, ActiveStep, VerdictsStep
       DEF TypeOK, Caches
<1> QED
    BY <1>1, ControlStep DEF TInv

THEOREM TypesInductive == Spec => []TInv
BY InitTypes, TypeStep, PTL DEF Spec

(* The state keeps its types: the cache never holds more than its size     *)
(* (cacheRCA, pipeline.go:320-341), and a plan is learned only for         *)
(* patterns without a predefined one (pipeline.go:166-190, 211-233).       *)
THEOREM TypeCorrect == Spec => []TypeOK
<1>1. TInv => TypeOK
    BY DEF TInv
<1> QED
    BY <1>1, TypesInductive, PTL

-----------------------------------------------------------------------------
(* Every entry of the cache is a verdict, and expires TTL after it.        *)
CacheBacked == \A k \in Stored(cache) : \E v \in verdicts : v.key = k /\ v.at + TTL = cache[k]

LEMMA BackedStep == TInv /\ CacheBacked /\ [Next]_vars => CacheBacked'
<1> SUFFICES ASSUME TInv, CacheBacked, [Next]_vars PROVE CacheBacked'
    OBVIOUS
<1>1. ASSUME Shrunk(cache', cache), verdicts \subseteq verdicts' PROVE CacheBacked'
    BY <1>1 DEF CacheBacked, Shrunk
<1>2. CASE Silent
    BY <1>1, <1>2, SilentShrinks DEF TInv
<1>3. ASSUME NEW d, Shrunk(d, cache), cache' = [d EXCEPT ![incident.key] = now + TTL],
             verdicts' = verdicts \cup {[key |-> incident.key, at |-> now]}
      PROVE  CacheBacked'
    <2> SUFFICES ASSUME NEW k \in Stored(cache')
                 PROVE  \E v \in verdicts' : v.key = k /\ v.at + TTL = cache'[k]
        BY DEF CacheBacked
    <2>1. CASE k = incident.key
        <3>1. cache'[k] = now + TTL
            BY <1>3, <2>1 DEF Shrunk, Caches, Stored
        <3>2. [key |-> incident.key, at |-> now] \in verdicts'
            BY <1>3
        <3> QED
            BY <2>1, <3>1, <3>2
    <2>2. CASE k # incident.key
        <3>1. k \in Stored(d) /\ cache'[k] = d[k]
            BY <1>3, <2>2 DEF Shrunk, Caches, Stored
        <3> QED
            BY <1>3, <3>1 DEF Shrunk, CacheBacked
    <2> QED
        BY <2>1, <2>2
<1>4. CASE UNCHANGED <<cache, verdicts>>
    BY <1>4 DEF CacheBacked, Stored
<1> QED
    BY <1>2, <1>3, <1>4, Steps, AnswerStored

(* An answer from the cache repeats one that was made under the same key   *)
(* no longer than TTL ago (cachedRCA and cacheRCA, pipeline.go:308-341),   *)
(* whatever was evicted or restarted between.                              *)
THEOREM CachedCorrect == Spec => CachedWasValid
<1>1. Init => CacheBacked
    BY DEF Init, CacheBacked, Stored
<1>2. TInv /\ CacheBacked /\ [Next]_vars =>
        [pc = "idle" /\ outcome' = "cached" /\ pc' = "deliver" =>
            \E v \in verdicts : v.key = incident'.key /\ v.at + TTL >= now]_vars
    <2> SUFFICES ASSUME TInv, CacheBacked, Next, pc = "idle", outcome' = "cached", pc' = "deliver"
                 PROVE  \E v \in verdicts : v.key = incident'.key /\ v.at + TTL >= now
        BY DEF vars, callVars
    <2>1. PICK i \in Incidents : TakeCached(i)
        BY DEF Next, Run, Process, TakeExact, TakeKnown, TakeAdaptive, TakePlanner,
               TakePlannerDenied, PlanReturns, StartCollect, Collected, CollectedDenied,
               AnalyzeFails, AnalyzeReturns, Deliver, Restart, Tick
    <2>2. cache \in Caches
        BY DEF TInv, TypeOK, Caches
    <2>3. incident' = i /\ i.key \in Stored(Purged(cache))
        BY <2>1 DEF TakeCached, Take, Hit, LookedUp
    <2>4. i.key \in Stored(cache) /\ ~(cache[i.key] < now)
        BY <2>2, <2>3, PurgedShrinks DEF Shrunk
    <2>5. PICK v \in verdicts : v.key = i.key /\ v.at + TTL = cache[i.key]
        BY <2>4 DEF CacheBacked
    <2>6. cache[i.key] \in Nat /\ now \in Nat
        BY <2>2, <2>4 DEF Stored, Caches, TInv, TypeOK
    <2> QED
        BY <2>3, <2>4, <2>5, <2>6
<1> QED
    BY <1>1, <1>2, BackedStep, TypesInductive, PTL DEF Spec, CachedWasValid

-----------------------------------------------------------------------------
(* A plan gains or loses its place, and a cache entry appears, only for an *)
(* answer of the LLM about complete evidence (pipeline.go:211-240).        *)
THEOREM LearnsCorrect == Spec => LearnsFromCompleteEvidence
<1>1. TInv /\ [Next]_vars =>
        [active' # active \/ ~(Stored(cache') \subseteq Stored(cache)) =>
            complete /\ pc = "analyzing" /\ outcome' = "analysed"]_vars
    <2> SUFFICES ASSUME TInv, [Next]_vars,
                        active' # active \/ ~(Stored(cache') \subseteq Stored(cache))
                 PROVE  complete /\ pc = "analyzing" /\ outcome' = "analysed"
        OBVIOUS
    <2>1. ~Silent
        BY SilentShrinks DEF TInv, Shrunk
    <2>2. PICK grounded \in BOOLEAN, low \in BOOLEAN : AnalyzeReturns(grounded, low)
        BY <2>1, Steps
    <2>3. CASE Stored(cache') \subseteq Stored(cache)
        <3>1. active' \in Learned(complete /\ grounded /\ ~low) /\ active' # active
            BY <2>2, <2>3 DEF AnalyzeReturns
        <3>2. complete
            BY <3>1 DEF Learned
        <3> QED
            BY <2>2, <3>2 DEF AnalyzeReturns
    <2>4. CASE ~(Stored(cache') \subseteq Stored(cache))
        <3>1. cache' # cache
            BY <2>4
        <3>2. complete
            BY <2>2, <3>1, AnswerStored
        <3> QED
            BY <2>2, <3>2 DEF AnalyzeReturns
    <2> QED
        BY <2>3, <2>4
<1> QED
    BY <1>1, TypesInductive, PTL DEF Spec, LearnsFromCompleteEvidence

-----------------------------------------------------------------------------
(* An answer of Allow is acted on before anything else is asked.           *)
AnswerHeard == pc \in {"idle", "planning", "collecting", "analyzing"} => ~limited

LEMMA HeardStep == AnswerHeard /\ [Next]_vars => AnswerHeard'
BY DEF AnswerHeard, Next, Run, Process, TakeExact, TakeCached, TakeKnown, TakeAdaptive,
       TakePlanner, TakePlannerDenied, PlanReturns, StartCollect, Collected, CollectedDenied,
       AnalyzeFails, AnalyzeReturns, Deliver, Restart, Tick, vars, callVars

(* Process asks the budget once before each call of the LLM, makes the     *)
(* call it was granted and none it was denied (pipeline.go:176-202):       *)
(* every step is one of CallBudget with a working file, or a stutter.      *)
THEOREM BudgetCorrect == Spec => ImplementsBudget
<1>1. Init => Budget!Init
    BY DEF Init, Budget!Init, Caller
<1>2. Init => AnswerHeard
    BY DEF Init, AnswerHeard
<1>3. TInv /\ AnswerHeard /\ [Next]_vars => [Budget!Next]_Budget!vars
    <2> SUFFICES ASSUME TInv, AnswerHeard, [Next]_vars PROVE Budget!Next \/ UNCHANGED Budget!vars
        BY DEF Budget!vars
    <2>0. ASSUME NEW first \in 0..Len(calls), FirstLive(first)
          PROVE  Budget!FirstLive(first) /\ Budget!Live(first) = Live(first)
        <3>1. now \in Nat /\ Hour \in Nat /\ Len(calls) \in Nat /\ \A i \in 1..Len(calls) : calls[i] \in Nat
            BY ProcessorAssumption, LenProperties, ElementOfSeq DEF TInv, TypeOK
        <3>2. first < Len(calls) => ~(calls[first + 1] + Hour < now)
            <4>1. first < Len(calls) => first + 1 \in 1..Len(calls)
                BY <3>1
            <4> QED
                BY <2>0, <3>1, <4>1 DEF FirstLive
        <3> QED
            BY <2>0, <3>2 DEF FirstLive, Live, Budget!FirstLive, Budget!Expired, Budget!Live
    <2>1. ASSUME Granted, Caller = "idle", Caller' = "calling", now' = now, crashes' = crashes
          PROVE  Budget!Next
        <3>1. CASE limit = 0 /\ UNCHANGED budgetVars
            BY <2>1, <3>1 DEF budgetVars, Budget!Next, Budget!Allow, Budget!AllowUnlimited
        <3>2. CASE ~(limit = 0 /\ UNCHANGED budgetVars)
            <4>1. PICK first \in 0..Len(calls) :
                      /\ FirstLive(first) /\ Len(Live(first)) < limit
                      /\ calls' = Append(Live(first), now)
                BY <2>1, <3>2 DEF Granted
            <4>2. limit > 0 /\ grants' = Append(grants, now) /\ limit' = limit
                BY <2>1, <3>2 DEF Granted
            <4>3. Budget!FirstLive(first) /\ Budget!Live(first) = Live(first)
                BY <2>0, <4>1
            <4>4. Budget!AllowGrant(first)
                BY <2>1, <4>1, <4>2, <4>3 DEF Budget!AllowGrant, Budget!Saved
            <4> QED
                BY <4>4 DEF Budget!Next, Budget!Allow
        <3> QED
            BY <3>1, <3>2
    <2>2. ASSUME Denied, Caller = "idle", Caller' = "limited", now' = now, crashes' = crashes
          PROVE  Budget!Next
        <3>1. PICK first \in 0..Len(calls) :
                  FirstLive(first) /\ Len(Live(first)) >= limit /\ calls' = Live(first)
            BY <2>2 DEF Denied
        <3>2. Budget!FirstLive(first) /\ Budget!Live(first) = Live(first)
            BY <2>0, <3>1
        <3>3. Budget!AllowDeny(first)
            BY <2>2, <3>1, <3>2 DEF Denied, Budget!AllowDeny, Budget!Saved
        <3> QED
            BY <3>3 DEF Budget!Next, Budget!Allow
    <2>3. ASSUME NEW i \in Incidents,
                 TakeExact(i) \/ TakeCached(i) \/ TakeKnown(i) \/ TakeAdaptive(i)
          PROVE  UNCHANGED Budget!vars
        BY <2>3 DEF TakeExact, TakeCached, TakeKnown, TakeAdaptive, TakeMiss, Take, budgetVars,
                    AnswerHeard, Caller, Budget!vars
    <2>4. ASSUME NEW i \in Incidents,
                 TakePlanner(i) \/ TakePlannerDenied(i)
          PROVE  Budget!Next
        BY <2>1, <2>2, <2>4 DEF TakePlanner, TakePlannerDenied, TakeMiss, Take, AnswerHeard, Caller
    <2>5. ASSUME NEW isComplete \in BOOLEAN, Collected(isComplete) \/ CollectedDenied(isComplete)
          PROVE  Budget!Next
        BY <2>1, <2>2, <2>5 DEF Collected, CollectedDenied, AnswerHeard, Caller
    <2>6. ASSUME UNCHANGED <<now, budgetVars, crashes>>, Caller' = "idle"
          PROVE  Budget!Next \/ UNCHANGED Budget!vars
        BY <2>6 DEF budgetVars, Caller, Budget!vars, Budget!Next, Budget!Proceed
    <2>7. CASE PlanReturns \/ StartCollect \/ AnalyzeFails \/ Deliver
        BY <2>6, <2>7 DEF PlanReturns, StartCollect, AnalyzeFails, Deliver, AnswerHeard, Caller
    <2>8. ASSUME NEW grounded \in BOOLEAN, NEW low \in BOOLEAN, AnalyzeReturns(grounded, low)
          PROVE  Budget!Next \/ UNCHANGED Budget!vars
        BY <2>6, <2>8 DEF AnalyzeReturns, AnswerHeard, Caller
    <2>9. CASE Restart
        BY <2>9 DEF Restart, budgetVars, Caller, Budget!Next, Budget!Restart
    <2>10. CASE Tick
        BY <2>10 DEF Tick, budgetVars, callVars, Caller, Budget!Next, Budget!Tick
    <2>11. CASE UNCHANGED vars
        BY <2>11 DEF vars, budgetVars, callVars, Caller, Budget!vars
    <2> QED
        BY <2>3, <2>4, <2>5, <2>7, <2>8, <2>9, <2>10, <2>11 DEF Next, Run, Process
<1> QED
    BY <1>1, <1>2, <1>3, HeardStep, TypesInductive, PTL DEF Spec, ImplementsBudget, Budget!Spec

-----------------------------------------------------------------------------
(* What is proved of CallBudget with a file that works holds of Processor. *)
Proved == INSTANCE CallBudgetProofs WITH
    Persistent <- TRUE, DiskFaults <- FALSE, disk <- calls, caller <- Caller,
    unsaved <- FALSE, forgotten <- FALSE

(* However incidents take their ways through Process (pipeline.go:154-242) *)
(* and the agent restarts, no more than `limit' calls of the LLM are       *)
(* granted within an hour.                                                 *)
THEOREM LimitCorrect == Spec => []Budget!HourlyLimit
<1>1. Proved!BudgetAssumption
    BY ProcessorAssumption DEF Proved!BudgetAssumption
<1>2. Proved!Spec => []Proved!HourlyLimit
    BY <1>1, Proved!HourlyCorrect
<1>3. Budget!Init => Proved!Init
    BY DEF Budget!Init, Proved!Init
<1>4. [Budget!Next]_Budget!vars => [Proved!Next]_Proved!vars
    BY DEF Budget!Next, Budget!Allow, Budget!AllowUnlimited, Budget!AllowGrant, Budget!AllowDeny,
           Budget!Proceed, Budget!Restart, Budget!Tick, Budget!vars, Budget!FirstLive,
           Budget!Expired, Budget!Live, Budget!Saved, Budget!NotSaved,
           Proved!Next, Proved!Allow, Proved!AllowUnlimited, Proved!AllowGrant, Proved!AllowDeny,
           Proved!Proceed, Proved!Restart, Proved!Tick, Proved!vars, Proved!FirstLive,
           Proved!Expired, Proved!Live, Proved!Saved, Proved!NotSaved
<1>5. Proved!HourlyLimit => Budget!HourlyLimit
    BY DEF Proved!HourlyLimit, Budget!HourlyLimit
<1> QED
    BY <1>2, <1>3, <1>4, <1>5, BudgetCorrect, PTL
       DEF ImplementsBudget, Budget!Spec, Proved!Spec
=============================================================================
