-------------------------- MODULE CollectionProofs --------------------------
(***************************************************************************)
(* Proofs about CollectionPlan and Collection, for whatever plans the LLM  *)
(* proposes and whatever the sources of evidence answer.                   *)
(***************************************************************************)
EXTENDS Collection, FiniteSetTheorems, TLAPS

-----------------------------------------------------------------------------
(* Small sets.                                                             *)

LEMMA Counts ==
    ASSUME NEW T, IsFiniteSet(T), NEW S \in SUBSET T
    PROVE  /\ IsFiniteSet(S)
           /\ Cardinality(S) \in Nat /\ Cardinality(T) \in Nat
           /\ Cardinality(S) <= Cardinality(T)
BY FS_Subset, FS_CardinalityType

LEMMA NoneAtAll ==
    ASSUME NEW S, S = {}
    PROVE  IsFiniteSet(S) /\ Cardinality(S) = 0 /\ Cardinality(S) <= 5
<1>1. Cardinality(S) = 0
    BY FS_EmptySet
<1> QED
    BY <1>1, FS_EmptySet

LEMMA OneMore ==
    ASSUME NEW S, NEW x, NEW n \in Nat, IsFiniteSet(S), Cardinality(S) <= n
    PROVE  IsFiniteSet(S \cup {x}) /\ Cardinality(S \cup {x}) <= n + 1
<1>1. Cardinality(S) \in Nat
    BY FS_CardinalityType
<1> QED
    BY <1>1, FS_AddElement

(* The two steps of a contract and the five words of a log step.           *)
LEMMA AtMostFive ==
    /\ IsFiniteSet({}) /\ Cardinality({}) = 0
    /\ \A a : IsFiniteSet({a}) /\ Cardinality({a}) <= 1
    /\ \A a, b : IsFiniteSet({a, b}) /\ Cardinality({a, b}) <= 2
    /\ \A a, b, c, d : Cardinality({a, b, c, d}) <= 5
    /\ \A a, b, c, d, e : Cardinality({a, b, c, d, e}) <= 5
<1>0. IsFiniteSet({}) /\ Cardinality({}) = 0
    BY FS_EmptySet
<1>1. ASSUME NEW a PROVE IsFiniteSet({a}) /\ Cardinality({a}) <= 1
    <2> DEFINE none == {}
    <2>1. IsFiniteSet(none) /\ Cardinality(none) <= 0 /\ none \cup {a} = {a}
        BY <1>0
    <2> HIDE DEF none
    <2>2. IsFiniteSet(none \cup {a}) /\ Cardinality(none \cup {a}) <= 0 + 1
        BY <2>1, OneMore
    <2> QED
        BY <2>1, <2>2
<1>2. ASSUME NEW a, NEW b PROVE IsFiniteSet({a, b}) /\ Cardinality({a, b}) <= 2
    <2>1. IsFiniteSet({a} \cup {b}) /\ Cardinality({a} \cup {b}) <= 1 + 1
        BY <1>1, OneMore
    <2>2. {a} \cup {b} = {a, b}
        OBVIOUS
    <2> QED
        BY <2>1, <2>2
<1>3. ASSUME NEW a, NEW b, NEW c PROVE IsFiniteSet({a, b, c}) /\ Cardinality({a, b, c}) <= 3
    <2>1. IsFiniteSet({a, b} \cup {c}) /\ Cardinality({a, b} \cup {c}) <= 2 + 1
        BY <1>2, OneMore
    <2>2. {a, b} \cup {c} = {a, b, c}
        OBVIOUS
    <2> QED
        BY <2>1, <2>2
<1>4. ASSUME NEW a, NEW b, NEW c, NEW d
      PROVE  IsFiniteSet({a, b, c, d}) /\ Cardinality({a, b, c, d}) <= 4
    <2>1. IsFiniteSet({a, b, c} \cup {d}) /\ Cardinality({a, b, c} \cup {d}) <= 3 + 1
        BY <1>3, OneMore
    <2>2. {a, b, c} \cup {d} = {a, b, c, d}
        OBVIOUS
    <2> QED
        BY <2>1, <2>2
<1>5. ASSUME NEW a, NEW b, NEW c, NEW d, NEW e PROVE Cardinality({a, b, c, d, e}) <= 5
    <2>1. Cardinality({a, b, c, d} \cup {e}) <= 4 + 1
        BY <1>4, OneMore
    <2>2. {a, b, c, d} \cup {e} = {a, b, c, d, e}
        OBVIOUS
    <2> QED
        BY <2>1, <2>2
<1>6. ASSUME NEW a, NEW b, NEW c, NEW d PROVE Cardinality({a, b, c, d}) <= 5
    <2>1. {a, b, c, d, d} = {a, b, c, d}
        OBVIOUS
    <2>2. Cardinality({a, b, c, d, d}) <= 5
        BY <1>5
    <2> QED
        BY <2>1, <2>2
<1> QED
    BY <1>0, <1>1, <1>2, <1>5, <1>6

-----------------------------------------------------------------------------
(* normalizeCollectionStep                                                 *)

LEMMA Tables ==
    /\ DOMAIN DefaultLookback = {"error_logs", "kubernetes_events", "trace_context", "recent_changes"}
    /\ DefaultLookback["error_logs"] = 5 /\ DefaultLookback["kubernetes_events"] = 10
    /\ DefaultLookback["trace_context"] = 10 /\ DefaultLookback["recent_changes"] = 30
    /\ DefaultLimit["error_logs"] = 10 /\ DefaultLimit["kubernetes_events"] = 10
    /\ DefaultLimit["trace_context"] = 3 /\ DefaultLimit["recent_changes"] = 5
    /\ LargestLimit["error_logs"] = 20 /\ LargestLimit["kubernetes_events"] = 20
    /\ LargestLimit["trace_context"] = 5 /\ LargestLimit["recent_changes"] = 10
BY DEF DefaultLookback, DefaultLimit, LargestLimit, MaxLimit

LEMMA UnsetIsNoName ==
    /\ Unset \notin Targets
    /\ Unset # "error" /\ Unset # "slow" /\ Unset # "all"
BY Zenon DEF Unset, Targets

LEMMA LongestDuration == MaxDuration \in Nat /\ 500 <= MaxDuration
BY DEF MaxDuration

LEMMA BoundedInRange ==
    ASSUME NEW maximum \in Nat, NEW fallback \in 1..maximum, NEW value \in 0..maximum
    PROVE  /\ Bounded(value, fallback, maximum) \in 1..maximum
           /\ Bounded(Bounded(value, fallback, maximum), fallback, maximum)
                = Bounded(value, fallback, maximum)
BY DEF Bounded

(* The fields of a step that was normalized.                               *)
LEMMA NormalFields ==
    ASSUME NEW s
    PROVE  /\ NormalStep(s).tool = s.tool
           /\ NormalStep(s).target = Target(s)
           /\ NormalStep(s).metrics = IF s.tool # "service_metrics" THEN {}
                                      ELSE IF s.metrics = {} THEN Metrics ELSE s.metrics
           /\ NormalStep(s).terms = IF s.tool = "error_logs" THEN s.terms ELSE {}
           /\ NormalStep(s).status = IF s.tool = "trace_context" THEN Status(s) ELSE Unset
           /\ NormalStep(s).duration = IF s.tool = "trace_context" THEN Duration(s) ELSE 0
           /\ DOMAIN NormalStep(s) = {"tool", "target", "lookback", "limit", "metrics", "terms", "status", "duration"}
BY DEF NormalStep

LEMMA NormalWindow ==
    ASSUME NEW s
    PROVE  /\ s.tool \notin DOMAIN DefaultLookback =>
                NormalStep(s).lookback = 0 /\ NormalStep(s).limit = 0
           /\ s.tool \in DOMAIN DefaultLookback =>
                /\ NormalStep(s).lookback = Bounded(s.lookback, DefaultLookback[s.tool], MaxLookback)
                /\ NormalStep(s).limit = Bounded(s.limit, DefaultLimit[s.tool], LargestLimit[s.tool])
BY DEF NormalStep

(* A step that is accepted comes back the same from a second round.        *)
LEMMA NormalIsNormal ==
    ASSUME NEW s, Decoded(s), Acceptable(s)
    PROVE  /\ NormalStep(s) \in NormalSteps /\ Decoded(NormalStep(s))
           /\ NormalStep(s).tool = s.tool
           /\ NormalStep(s).target = Target(s) /\ Target(s) \in TargetsOf(s.tool)
           /\ Acceptable(NormalStep(s))
           /\ NormalStep(NormalStep(s)) = NormalStep(s)
<1>0. /\ s.tool \in Tools
      /\ s.lookback \in 0..30 /\ s.limit \in 0..20
      /\ s.terms \subseteq Terms /\ s.duration \in Int
    BY DEF Decoded, Acceptable, MaxLookback, MaxLimit
<1> PICK n : n = NormalStep(s)
    OBVIOUS
<1>1. /\ n.tool = s.tool /\ n.target = Target(s)
      /\ n.metrics = IF s.tool # "service_metrics" THEN {}
                     ELSE IF s.metrics = {} THEN Metrics ELSE s.metrics
      /\ n.terms = IF s.tool = "error_logs" THEN s.terms ELSE {}
      /\ n.status = IF s.tool = "trace_context" THEN Status(s) ELSE Unset
      /\ n.duration = IF s.tool = "trace_context" THEN Duration(s) ELSE 0
    BY NormalFields
<1>2. n = [tool |-> n.tool, target |-> n.target, lookback |-> n.lookback, limit |-> n.limit,
           metrics |-> n.metrics, terms |-> n.terms, status |-> n.status, duration |-> n.duration]
    BY DEF NormalStep
<1>3. n.target \in TargetsOf(s.tool) /\ n.target \in Targets /\ n.target # Unset
    <2>1. Target(s) \in TargetsOf(s.tool)
        BY DEF Acceptable
    <2>2. TargetsOf(s.tool) \subseteq Targets
        BY <1>0 DEF TargetsOf, Targets, Tools
    <2>3. Unset \notin Targets
        BY UnsetIsNoName
    <2> QED
        BY <1>1, <2>1, <2>2, <2>3
<1>4. n.lookback \in 0..30 /\ n.limit \in 0..20
      /\ (s.tool = "trace_context" => n.limit <= 5) /\ (s.tool = "recent_changes" => n.limit <= 10)
      /\ (s.tool \in DOMAIN DefaultLookback =>
            /\ Bounded(n.lookback, DefaultLookback[s.tool], MaxLookback) = n.lookback
            /\ Bounded(n.limit, DefaultLimit[s.tool], LargestLimit[s.tool]) = n.limit)
      /\ (s.tool \notin DOMAIN DefaultLookback => n.lookback = 0 /\ n.limit = 0)
    <2>1. CASE s.tool \notin DOMAIN DefaultLookback
        <3>1. n.lookback = 0 /\ n.limit = 0
            BY <2>1, NormalWindow
        <3>2. s.tool # "trace_context" /\ s.tool # "recent_changes"
            BY <2>1, Tables
        <3> QED
            BY <2>1, <3>1, <3>2
    <2>2. CASE s.tool \in DOMAIN DefaultLookback
        <3>1. PICK d, e, m : d = DefaultLookback[s.tool] /\ e = DefaultLimit[s.tool] /\ m = LargestLimit[s.tool]
            OBVIOUS
        <3>2. n.lookback = Bounded(s.lookback, d, 30) /\ n.limit = Bounded(s.limit, e, m)
            BY <2>2, <3>1, NormalWindow DEF MaxLookback
        <3>3. /\ d \in 1..30 /\ m \in 1..20 /\ e \in 1..m
              /\ (s.tool = "trace_context" => m = 5)
              /\ (s.tool = "recent_changes" => m = 10)
              /\ (s.tool \notin {"trace_context", "recent_changes"} => m = 20)
            BY <2>2, <3>1, Tables
        <3>4. s.limit \in 0..m
            BY <1>0, <3>3 DEF Acceptable
        <3>5. n.lookback \in 1..30 /\ Bounded(n.lookback, d, 30) = n.lookback
            BY <1>0, <3>2, <3>3, BoundedInRange
        <3>6. n.limit \in 1..m /\ Bounded(n.limit, e, m) = n.limit
            <4>1. m \in Nat
                BY <3>3
            <4> QED
                BY <4>1, <3>2, <3>3, <3>4, BoundedInRange
        <3> QED
            BY <2>2, <3>1, <3>3, <3>5, <3>6 DEF MaxLookback
    <2> QED
        BY <2>1, <2>2
<1>5. n.metrics \subseteq Metrics /\ (s.tool = "service_metrics" => n.metrics # {})
    BY <1>1 DEF Acceptable, Metrics
<1>6. n.terms \subseteq Terms
    BY <1>0, <1>1
<1>7. s.tool = "trace_context" => n.status \in {"error", "slow", "all"}
    BY <1>1 DEF Acceptable
<1>7a. n.status \in {Unset, "error", "slow", "all"}
    BY <1>1, <1>7
<1>7b. s.tool = "trace_context" => Status(n) = n.status
    BY <1>7, UnsetIsNoName DEF Status
<1>7c. s.tool = "trace_context" =>
        /\ n.duration \in 0..MaxDuration
        /\ n.status = "slow" => n.duration > 0
        /\ n.status # "slow" => n.duration = 0
    <2> SUFFICES ASSUME s.tool = "trace_context"
                 PROVE  /\ n.duration \in 0..MaxDuration
                        /\ n.status = "slow" => n.duration > 0
                        /\ n.status # "slow" => n.duration = 0
        OBVIOUS
    <2>1. n.status = Status(s)
        BY <1>1
    <2>2. PICK d : d = Duration(s)
        OBVIOUS
    <2>3. d <= MaxDuration
        BY <2>2 DEF Acceptable
    <2>4. d \in 0..MaxDuration /\ (n.status = "slow" => d > 0) /\ (n.status # "slow" => d = 0)
        BY <1>0, <2>1, <2>2, <2>3, LongestDuration DEF Duration
    <2>5. n.duration = d
        BY <1>1, <2>2
    <2> QED
        BY <2>4, <2>5
<1>7d. s.tool # "trace_context" => n.duration = 0
    BY <1>1
<1>7e. n.duration \in 0..MaxDuration
    BY <1>7c, <1>7d, LongestDuration
<1>7f. s.tool = "trace_context" => Duration(n) = n.duration
    BY <1>7b, <1>7c DEF Duration
<1>8. Decoded(n)
    BY <1>4, <1>6, <1>7e DEF Decoded
<1>9. n \in NormalSteps
    <2>1. n.tool \in Tools /\ n.target \in Targets
        BY <1>0, <1>1, <1>3
    <2> QED
        BY <1>2, <1>4, <1>5, <1>6, <1>7a, <1>7e, <2>1 DEF NormalSteps, MaxLookback, MaxLimit
<1>10. Target(n) = n.target
    BY <1>3 DEF Target
<1>11. Acceptable(n)
    <2>1. s.tool = "error_logs" => n.terms \cap BadTerms = {} /\ Cardinality(n.terms) <= 5
        BY <1>1 DEF Acceptable
    <2> QED
        BY <1>0, <1>1, <1>3, <1>4, <1>5, <1>7, <1>7b, <1>7e, <1>7f, <1>10, <2>1 DEF Acceptable, MaxLookback, MaxLimit
<1>12. NormalStep(n) = n
    <2> PICK k : k = NormalStep(n)
        OBVIOUS
    <2>1. k = [tool |-> k.tool, target |-> k.target, lookback |-> k.lookback, limit |-> k.limit,
               metrics |-> k.metrics, terms |-> k.terms, status |-> k.status, duration |-> k.duration]
        BY DEF NormalStep
    <2>2. k.tool = n.tool /\ k.target = n.target
        BY <1>10, NormalFields
    <2>3. k.metrics = n.metrics /\ k.terms = n.terms
        BY <1>1, <1>5, NormalFields
    <2>4. k.status = n.status /\ k.duration = n.duration
        BY <1>1, <1>7b, <1>7d, <1>7f, NormalFields
    <2>5. k.lookback = n.lookback /\ k.limit = n.limit
        BY <1>1, <1>4, NormalWindow
    <2> QED
        BY <1>2, <2>1, <2>2, <2>3, <2>4, <2>5
<1> QED
    BY <1>1, <1>3, <1>8, <1>9, <1>11, <1>12

(* What is true of a step of a plan, wherever the plan came from.          *)
Fits(s) ==
    /\ s \in NormalSteps /\ s.target \in TargetsOf(s.tool)
    /\ Acceptable(s) /\ NormalStep(s) = s

LEMMA FitsDecoded ==
    ASSUME NEW s, Fits(s)
    PROVE  Decoded(s)
<1>1. s \in NormalSteps
    BY DEF Fits
<1>2. s.lookback \in 0..30 /\ s.limit \in 0..20 /\ s.terms \subseteq Terms
    BY <1>1 DEF NormalSteps, MaxLookback, MaxLimit
<1>3. s.duration \in 0..MaxDuration
    BY <1>1 DEF NormalSteps
<1>4. s.duration \in Int
    BY <1>3, LongestDuration
<1> QED
    BY <1>2, <1>4 DEF Decoded

LEMMA NormalFits ==
    ASSUME NEW s, Decoded(s), Acceptable(s)
    PROVE  Fits(NormalStep(s))
BY NormalIsNormal DEF Fits

(* A step that names no number, like those of the contracts and of the     *)
(* plans for a kind.                                                       *)
LEMMA UnnumberedAccepted ==
    ASSUME NEW s, s.lookback = 0, s.limit = 0, s.duration = 0, s.status = Unset,
           s.tool \in Tools, Target(s) \in TargetsOf(s.tool),
           s.metrics \subseteq Metrics,
           s.terms \subseteq Terms \ BadTerms, Cardinality(s.terms) <= 5
    PROVE  Decoded(s) /\ Acceptable(s)
<1>1. Status(s) = "error"
    BY DEF Status
<1>2. Duration(s) = 0
    BY <1>1 DEF Duration
<1> s.terms \subseteq Terms /\ s.terms \cap BadTerms = {}
    OBVIOUS
<1>3. Decoded(s)
    BY DEF Decoded
<1>4. Acceptable(s)
    <2>1. s.lookback \in 0..MaxLookback /\ s.limit \in 0..MaxLimit /\ s.limit <= 5 /\ s.limit <= 10
        BY DEF MaxLookback, MaxLimit
    <2>2. Duration(s) <= MaxDuration
        BY <1>2, LongestDuration
    <2> QED
        BY <1>1, <2>1, <2>2 DEF Acceptable
<1> QED
    BY <1>3, <1>4

LEMMA ToolStepAccepted ==
    ASSUME NEW tool \in Tools
    PROVE  Decoded(Step(tool)) /\ Acceptable(Step(tool))
<1> PICK s : s = Step(tool)
    OBVIOUS
<1>1. /\ s.tool = tool /\ s.target = Unset /\ s.lookback = 0 /\ s.limit = 0
      /\ s.metrics = {} /\ s.terms = {} /\ s.status = Unset /\ s.duration = 0
    BY DEF Step
<1>2. Target(s) \in TargetsOf(tool)
    BY <1>1 DEF Target, TargetsOf, Tools
<1>3. Cardinality(s.terms) <= 5
    BY <1>1, NoneAtAll
<1> QED
    BY <1>1, <1>2, <1>3, UnnumberedAccepted

LEMMA PlanForFits ==
    ASSUME NEW tools, tools \subseteq Tools, NEW s \in PlanFor(tools)
    PROVE  Fits(s)
<1>1. PICK tool \in tools : s = NormalStep(Step(tool))
    BY DEF PlanFor
<1> QED
    BY <1>1, ToolStepAccepted, NormalFits

-----------------------------------------------------------------------------
(* Contracts                                                               *)

LEMMA FamilyNames ==
    Families = {"secrets", "network", "storage", "deployment", "pod_lifecycle", "node",
                "compute", "latency", "application", "dependency", "generic"}
BY DEF Families, FamilyOrder

(* No step of a contract names a number, and there is one for each tool.   *)
LEMMA ContractShape ==
    ASSUME NEW family \in Families
    PROVE  \E r, q :
            /\ Required(family) = {r, q} /\ (r = q \/ r.tool # q.tool)
            /\ \A s \in {r, q} :
                /\ s.lookback = 0 /\ s.limit = 0 /\ s.duration = 0 /\ s.status = Unset
                /\ s.tool \in Tools \ {"trace_context"}
                /\ Target(s) \in TargetsOf(s.tool)
                /\ s.metrics \subseteq Metrics /\ Cardinality(s.terms) <= 5
                /\ Allows(family, s.tool)
<1> DEFINE Good(s) ==
                /\ s.lookback = 0 /\ s.limit = 0 /\ s.duration = 0 /\ s.status = Unset
                /\ s.tool \in Tools \ {"trace_context"}
                /\ Target(s) \in TargetsOf(s.tool)
                /\ s.metrics \subseteq Metrics /\ Cardinality(s.terms) <= 5
<1>1. ASSUME NEW metrics \in SUBSET Metrics
      PROVE  Good(MetricsStep(metrics)) /\ MetricsStep(metrics).tool = "service_metrics"
    <2> PICK s : s = MetricsStep(metrics)
        OBVIOUS
    <2>1. /\ s.tool = "service_metrics" /\ s.target = Unset /\ s.lookback = 0 /\ s.limit = 0
          /\ s.metrics = metrics /\ s.terms = {} /\ s.status = Unset /\ s.duration = 0
        BY DEF MetricsStep, Step
    <2>2. Target(s) \in TargetsOf(s.tool)
        BY <2>1 DEF Target, TargetsOf
    <2>3. Cardinality(s.terms) <= 5
        BY <2>1, NoneAtAll
    <2> QED
        BY <2>1, <2>2, <2>3 DEF Tools
<1>2. ASSUME NEW terms, Cardinality(terms) <= 5, NEW target \in {Unset, "related.operator"}
      PROVE  /\ Good([LogStep(terms) EXCEPT !.target = target])
             /\ [LogStep(terms) EXCEPT !.target = target].tool = "error_logs"
    <2> PICK s : s = [LogStep(terms) EXCEPT !.target = target]
        OBVIOUS
    <2>1. /\ s.tool = "error_logs" /\ s.target = target /\ s.lookback = 0 /\ s.limit = 0
          /\ s.metrics = {} /\ s.terms = terms /\ s.status = Unset /\ s.duration = 0
        BY DEF LogStep, Step
    <2>2. Target(s) \in TargetsOf("error_logs")
        BY <2>1 DEF Target, TargetsOf
    <2> QED
        BY <1>2, <2>1, <2>2 DEF Tools
<1>3. ASSUME NEW terms, Cardinality(terms) <= 5
      PROVE  Good(LogStep(terms)) /\ LogStep(terms).tool = "error_logs"
    <2>1. LogStep(terms).target = Unset /\ LogStep(terms) = [tool |-> "error_logs", target |-> Unset, lookback |-> 0,
                limit |-> 0, metrics |-> {}, terms |-> terms, status |-> Unset, duration |-> 0]
        BY DEF LogStep, Step
    <2>2. LogStep(terms) = [LogStep(terms) EXCEPT !.target = Unset]
        BY <2>1
    <2> QED
        BY <1>2, <1>3, <2>2
<1>4. ASSUME NEW tool \in Tools \ {"trace_context"}, NEW target \in TargetsOf(tool)
      PROVE  Good(At(tool, target)) /\ At(tool, target).tool = tool
    <2> PICK s : s = At(tool, target)
        OBVIOUS
    <2>1. /\ s.tool = tool /\ s.target = target /\ s.lookback = 0 /\ s.limit = 0
          /\ s.metrics = {} /\ s.terms = {} /\ s.status = Unset /\ s.duration = 0
        BY DEF At, Step
    <2>2. Target(s) \in TargetsOf(s.tool)
        BY <2>1 DEF Target, TargetsOf, Tools
    <2>3. Cardinality(s.terms) <= 5
        BY <2>1, NoneAtAll
    <2> QED
        BY <2>1, <2>2, <2>3
<1>5. /\ Good(Pods) /\ Pods.tool = "workload_status"
      /\ Good(PodEvents) /\ PodEvents.tool = "kubernetes_events"
    <2>1. {"workload_status", "kubernetes_events"} \subseteq Tools \ {"trace_context"}
        BY DEF Tools
    <2>2. "incident.pods" \in TargetsOf("workload_status") /\ "incident.pods" \in TargetsOf("kubernetes_events")
        BY DEF TargetsOf
    <2> HIDE DEF Good
    <2> QED
        BY <1>4, <2>1, <2>2 DEF Pods, PodEvents
<1>6. \A target \in {"incident.node", "related.node"} :
        Good(At("node_status", target)) /\ At("node_status", target).tool = "node_status"
    <2>1. "node_status" \in Tools \ {"trace_context"}
        BY DEF Tools
    <2>2. {"incident.node", "related.node"} \subseteq TargetsOf("node_status")
        BY DEF TargetsOf
    <2> HIDE DEF Good
    <2> QED
        BY <1>4, <2>1, <2>2
<1>7. Good(Step("network_policies")) /\ Step("network_policies").tool = "network_policies"
    <2> PICK s : s = Step("network_policies")
        OBVIOUS
    <2>1. /\ s.tool = "network_policies" /\ s.target = Unset /\ s.lookback = 0 /\ s.limit = 0
          /\ s.metrics = {} /\ s.terms = {} /\ s.status = Unset /\ s.duration = 0
        BY DEF Step
    <2>2. Target(s) \in TargetsOf(s.tool)
        BY <2>1 DEF Target, TargetsOf
    <2>3. Cardinality(s.terms) <= 5
        BY <2>1, NoneAtAll
    <2> QED
        BY <2>1, <2>2, <2>3 DEF Tools
<1> SUFFICES \E r, q : /\ Required(family) = {r, q} /\ (r = q \/ r.tool # q.tool)
                       /\ Good(r) /\ Good(q) /\ Allows(family, r.tool) /\ Allows(family, q.tool)
    OBVIOUS
<1> HIDE DEF Good
<1>10. CASE family = "application"
    <2>1. Required(family) = {MetricsStep({"error_rate"}), LogStep({})}
        BY <1>10 DEF Required
    <2>2. {"error_rate"} \in SUBSET Metrics
        BY DEF Metrics
    <2>3. Cardinality({}) <= 5
        BY AtMostFive
    <2> QED
        BY <1>1, <1>3, <1>10, <2>1, <2>2, <2>3 DEF Allows
<1>11. CASE family = "compute"
    <2>1. Required(family) = {MetricsStep({"cpu", "memory"}), Pods}
        BY <1>11 DEF Required
    <2>2. {"cpu", "memory"} \in SUBSET Metrics
        BY DEF Metrics
    <2> QED
        BY <1>1, <1>5, <1>11, <2>1, <2>2 DEF Allows
<1>12. CASE family = "latency"
    <2>1. Required(family) = {MetricsStep({"cpu", "p99_latency"}), LogStep({"latency", "query", "slow", "warning"})}
        BY <1>12 DEF Required
    <2>2. {"cpu", "p99_latency"} \in SUBSET Metrics
        BY DEF Metrics
    <2>3. Cardinality({"latency", "query", "slow", "warning"}) <= 5
        BY AtMostFive
    <2> QED
        BY <1>1, <1>3, <1>12, <2>1, <2>2, <2>3 DEF Allows
<1>13. CASE family = "dependency"
    <2>1. Required(family) = {LogStep({"certificate", "dns", "error", "refused", "timeout"})}
        BY <1>13 DEF Required
    <2>3. Cardinality({"certificate", "dns", "error", "refused", "timeout"}) <= 5
        BY AtMostFive
    <2> QED
        BY <1>3, <1>13, <2>1, <2>3 DEF Allows
<1>14. CASE family \in {"pod_lifecycle", "deployment"}
    <2>1. Required(family) = {Pods, PodEvents}
        BY <1>14 DEF Required
    <2> QED
        BY <1>5, <1>14, <2>1 DEF Allows
<1>15. CASE family = "storage"
    <2>1. Required(family) = {PodEvents, At("node_status", "related.node")}
        BY <1>15 DEF Required
    <2> QED
        BY <1>5, <1>6, <1>15, <2>1 DEF Allows
<1>16. CASE family = "network"
    <2>1. Required(family) = {LogStep({"blocked", "deny", "error", "timeout", "unreachable"}), Step("network_policies")}
        BY <1>16 DEF Required
    <2>3. Cardinality({"blocked", "deny", "error", "timeout", "unreachable"}) <= 5
        BY AtMostFive
    <2> QED
        BY <1>3, <1>7, <1>16, <2>1, <2>3 DEF Allows
<1>17. CASE family = "secrets"
    <2>1. Required(family) = {PodEvents, [LogStep({"error", "permission", "reconcile", "secret", "vault"})
                                            EXCEPT !.target = "related.operator"]}
        BY <1>17 DEF Required
    <2>3. Cardinality({"error", "permission", "reconcile", "secret", "vault"}) <= 5
        BY AtMostFive
    <2> QED
        BY <1>2, <1>5, <1>17, <2>1, <2>3 DEF Allows
<1>18. CASE family = "node"
    <2>1. Required(family) = {At("node_status", "incident.node")}
        BY <1>18 DEF Required
    <2> QED
        BY <1>6, <1>18, <2>1 DEF Allows
<1>19. CASE family = "generic"
    <2>1. Required(family) = {LogStep({}), Pods}
        BY <1>19 DEF Required
    <2>3. Cardinality({}) <= 5
        BY AtMostFive
    <2> QED
        BY <1>3, <1>5, <1>19, <2>1, <2>3 DEF Allows
<1> QED
    BY <1>10, <1>11, <1>12, <1>13, <1>14, <1>15, <1>16, <1>17, <1>18, <1>19, FamilyNames

Contract(family) == {NormalStep(r) : r \in Required(family)}

(* The contract is usable as it stands, and has one or two steps with      *)
(* different tools.                                                        *)
LEMMA ContractFacts ==
    ASSUME NEW family \in Families
    PROVE  /\ Usable(Required(family), family) = Contract(family)
           /\ \A s \in Contract(family) :
                Fits(s) /\ Allows(family, s.tool) /\ s.tool # "trace_context"
           /\ \A s, t \in Contract(family) : s.tool = t.tool => s = t
           /\ IsFiniteSet(Contract(family)) /\ Cardinality(Contract(family)) \in 1..2
<1> PICK r, q :
        /\ Required(family) = {r, q} /\ (r = q \/ r.tool # q.tool)
        /\ \A s \in {r, q} :
            /\ s.lookback = 0 /\ s.limit = 0 /\ s.duration = 0 /\ s.status = Unset
            /\ s.tool \in Tools \ {"trace_context"}
            /\ Target(s) \in TargetsOf(s.tool)
            /\ s.metrics \subseteq Metrics /\ Cardinality(s.terms) <= 5
            /\ Allows(family, s.tool)
    BY ContractShape
<1>1. ASSUME NEW s \in {r, q}
      PROVE  /\ Decoded(s) /\ Acceptable(s) /\ Allows(family, s.tool)
             /\ NormalStep(s).tool = s.tool /\ s.tool # "trace_context" /\ Fits(NormalStep(s))
    <2>1. s.terms \subseteq Terms \ BadTerms
        BY PlanAssumption
    <2>2. Decoded(s) /\ Acceptable(s)
        BY <2>1, UnnumberedAccepted
    <2> QED
        BY <2>2, NormalFits, NormalFields
<1>2. Contract(family) = {NormalStep(r), NormalStep(q)}
    BY DEF Contract
<1>3. Usable(Required(family), family) = Contract(family)
    BY <1>1 DEF Usable, Contract
<1>4. \A s, t \in Contract(family) : s.tool = t.tool => s = t
    BY <1>1, <1>2
<1>5. IsFiniteSet(Contract(family)) /\ Cardinality(Contract(family)) <= 2
    <2> PICK a, b : a = NormalStep(r) /\ b = NormalStep(q)
        OBVIOUS
    <2>1. IsFiniteSet({a, b}) /\ Cardinality({a, b}) <= 2
        BY AtMostFive
    <2> QED
        BY <1>2, <2>1
<1>6. Cardinality(Contract(family)) \in Nat
    BY <1>5, FS_CardinalityType
<1>7. Cardinality(Contract(family)) # 0
    BY <1>2, <1>5, FS_EmptySet
<1>8. Cardinality(Contract(family)) \in 1..2
    <2> PICK c : c = Cardinality(Contract(family))
        OBVIOUS
    <2> QED
        BY <1>5, <1>6, <1>7
<1> QED
    BY <1>1, <1>2, <1>3, <1>4, <1>5, <1>8

-----------------------------------------------------------------------------
(* The order of the steps                                                  *)

LEMMA PlaceOfTool ==
    ASSUME NEW tool \in Tools
    PROVE  Place(tool, ToolOrder) \in 1..8 /\ ToolOrder[Place(tool, ToolOrder)] = tool
<1>1. DOMAIN ToolOrder = 1..8
    BY DEF ToolOrder
<1>2. \E i \in 1..8 : ToolOrder[i] = tool
    BY DEF ToolOrder, Tools
<1> QED
    BY <1>1, <1>2 DEF Place

LEMMA PlaceOfTarget ==
    ASSUME NEW target \in Targets
    PROVE  Place(target, TargetOrder) \in 1..5 /\ TargetOrder[Place(target, TargetOrder)] = target
<1>1. DOMAIN TargetOrder = 1..5
    BY DEF TargetOrder
<1>2. \E i \in 1..5 : TargetOrder[i] = target
    BY DEF TargetOrder, Targets
<1> QED
    BY <1>1, <1>2 DEF Place

(* The places of a step's tool and target, in one number.                  *)
ScopeNumber(s) == 5 * (Place(s.tool, ToolOrder) - 1) + Place(s.target, TargetOrder)

LEMMA ScopeNumberFacts ==
    ASSUME NEW s, s.tool \in Tools, s.target \in Targets
    PROVE  /\ ScopeNumber(s) \in 1..40
           /\ \A t : t.tool \in Tools /\ t.target \in Targets =>
                /\ Before(s, t) <=> ScopeNumber(s) < ScopeNumber(t)
                /\ ScopeNumber(s) = ScopeNumber(t) => SameScope(s, t)
<1>1. PICK i, j : /\ i = Place(s.tool, ToolOrder) /\ j = Place(s.target, TargetOrder)
                  /\ i \in 1..8 /\ j \in 1..5
    BY PlaceOfTool, PlaceOfTarget
<1>2. ScopeNumber(s) \in 1..40
    BY <1>1 DEF ScopeNumber
<1>3. ASSUME NEW t, t.tool \in Tools, t.target \in Targets
      PROVE  /\ Before(s, t) <=> ScopeNumber(s) < ScopeNumber(t)
             /\ ScopeNumber(s) = ScopeNumber(t) => SameScope(s, t)
    <2>1. PICK k, l : /\ k = Place(t.tool, ToolOrder) /\ l = Place(t.target, TargetOrder)
                      /\ k \in 1..8 /\ l \in 1..5
        BY <1>3, PlaceOfTool, PlaceOfTarget
    <2>2. (s.tool = t.tool <=> i = k) /\ (s.target = t.target <=> j = l)
        BY <1>1, <1>3, <2>1, PlaceOfTool, PlaceOfTarget
    <2>3. ScopeNumber(s) = 5 * (i - 1) + j /\ ScopeNumber(t) = 5 * (k - 1) + l
        BY <1>1, <2>1 DEF ScopeNumber
    <2>4. Before(s, t) <=> i < k \/ (i = k /\ j < l)
        BY <1>1, <2>1, <2>2 DEF Before
    <2>5. i < k \/ (i = k /\ j < l) <=> 5 * (i - 1) + j < 5 * (k - 1) + l
        BY <1>1, <2>1
    <2>6. ASSUME 5 * (i - 1) + j = 5 * (k - 1) + l PROVE i = k /\ j = l
        <3>1. i \in Int /\ k \in Int /\ j \in Int /\ l \in Int
            BY <1>1, <2>1
        <3>2. ~(i < k) /\ ~(k < i)
            <4>1. PICK a \in Int, b \in Int : a = 5 * (i - 1) + j /\ b = 5 * (k - 1) + l
                BY <3>1
            <4>2. i < k => a < b
                BY <1>1, <2>1, <4>1
            <4>3. k < i => b < a
                BY <1>1, <2>1, <4>1
            <4> QED
                BY <2>6, <4>1, <4>2, <4>3
        <3>3. i = k
            BY <3>1, <3>2
        <3> QED
            BY <2>6, <3>1, <3>3
    <2> QED
        BY <2>2, <2>3, <2>4, <2>5, <2>6 DEF SameScope
<1> QED
    BY <1>2, <1>3

(* Of steps in different scopes, no more are kept than there is room for.  *)
LEMMA RoomIsKept ==
    ASSUME NEW E, \A s \in E : s.tool \in Tools /\ s.target \in Targets,
           \A s, t \in E : SameScope(s, t) => s = t,
           NEW n \in 1..2
    PROVE  LET K == {s \in E : n + Cardinality({t \in E : Before(t, s)}) < MaxSteps}
           IN  IsFiniteSet(K) /\ Cardinality(K) <= MaxSteps - n
<1> DEFINE Earlier(s) == {t \in E : Before(t, s)}
           K == {s \in E : n + Cardinality(Earlier(s)) < MaxSteps}
           g == [s \in E |-> ScopeNumber(s)]
           h == [s \in K |-> Cardinality(Earlier(s))]
<1>1. IsFiniteSet(E)
    <2>1. g \in [E -> 1..40]
        BY ScopeNumberFacts
    <2>2. \A s, t \in E : g[s] = g[t] => s = t
        BY ScopeNumberFacts
    <2>3. g \in Injection(E, 1..40)
        <3> HIDE DEF g
        <3> QED
            BY <2>1, <2>2 DEF Injection, IsInjective
    <2>4. IsFiniteSet(1..40)
        <3> 1 \in Int /\ 40 \in Int
            OBVIOUS
        <3> QED
            BY FS_Interval
    <2> HIDE DEF g
    <2> QED
        BY <2>3, <2>4, FS_Injection
<1>2. ASSUME NEW s \in E
      PROVE  IsFiniteSet(Earlier(s)) /\ Cardinality(Earlier(s)) \in Nat
    BY <1>1, FS_Subset, FS_CardinalityType
<1>3. ASSUME NEW s \in E, NEW t \in E, Before(s, t)
      PROVE  Cardinality(Earlier(s)) < Cardinality(Earlier(t))
    <2>1. Earlier(s) \subseteq Earlier(t)
        <3> SUFFICES ASSUME NEW u \in E, Before(u, s) PROVE Before(u, t)
            OBVIOUS
        <3>0. ScopeNumber(u) \in 1..40 /\ ScopeNumber(s) \in 1..40 /\ ScopeNumber(t) \in 1..40
            BY ScopeNumberFacts
        <3> PICK i, j, k : i = ScopeNumber(u) /\ j = ScopeNumber(s) /\ k = ScopeNumber(t)
            OBVIOUS
        <3>1. i \in Int /\ j \in Int /\ k \in Int
            BY <3>0
        <3>2. i < j /\ j < k
            BY <1>3, ScopeNumberFacts
        <3>3. i < k
            BY <3>1, <3>2
        <3> QED
            BY <3>3, ScopeNumberFacts
    <2>2. s \in Earlier(t) /\ s \notin Earlier(s)
        <3>1. PICK j \in Int : j = ScopeNumber(s)
            BY ScopeNumberFacts
        <3>2. ~(j < j)
            BY <3>1
        <3> QED
            BY <1>3, <3>1, <3>2, ScopeNumberFacts
    <2>3. /\ Cardinality(Earlier(s)) <= Cardinality(Earlier(t))
          /\ Cardinality(Earlier(s)) # Cardinality(Earlier(t))
        <3> HIDE DEF Earlier
        <3> QED
            BY <1>2, <2>1, <2>2, FS_Subset
    <2> HIDE DEF Earlier
    <2> PICK a \in Nat, b \in Nat : a = Cardinality(Earlier(s)) /\ b = Cardinality(Earlier(t))
        BY <1>2
    <2>4. a < b
        BY <2>3
    <2> QED
        BY <2>4
<1>4. IsFiniteSet(K) /\ Cardinality(K) <= MaxSteps - n
    <2>1. h \in [K -> 0..(7 - n)]
        <3> SUFFICES ASSUME NEW s \in K PROVE Cardinality(Earlier(s)) \in 0..(7 - n)
            OBVIOUS
        <3> PICK c \in Nat : c = Cardinality(Earlier(s))
            BY <1>2
        <3>1. n + c < 8
            BY DEF MaxSteps
        <3>2. c \in 0..(7 - n)
            BY <3>1
        <3> QED
            BY <3>2
    <2>2. \A s, t \in K : h[s] = h[t] => s = t
        <3> SUFFICES ASSUME NEW s \in K, NEW t \in K, s # t,
                            Cardinality(Earlier(s)) = Cardinality(Earlier(t))
                     PROVE  FALSE
            OBVIOUS
        <3>1. PICK i \in Int, j \in Int : i = ScopeNumber(s) /\ j = ScopeNumber(t)
            BY ScopeNumberFacts
        <3>2. i # j
            BY <3>1, ScopeNumberFacts
        <3>3. Before(s, t) \/ Before(t, s)
            <4>1. i < j \/ j < i
                BY <3>2
            <4> QED
                BY <3>1, <4>1, ScopeNumberFacts
        <3>4. PICK a \in Nat : a = Cardinality(Earlier(s)) /\ a = Cardinality(Earlier(t))
            BY <1>2
        <3>5. a < a
            BY <1>3, <3>3, <3>4
        <3> QED
            BY <3>5
    <2>3. h \in Injection(K, 0..(7 - n))
        <3> HIDE DEF h, K
        <3> QED
            BY <2>1, <2>2 DEF Injection, IsInjective
    <2>4. IsFiniteSet(0..(7 - n)) /\ Cardinality(0..(7 - n)) = 8 - n
        BY FS_Interval
    <2>5. IsFiniteSet(K) /\ Cardinality(K) <= Cardinality(0..(7 - n))
        <3> HIDE DEF h, K
        <3> QED
            BY <2>3, <2>4, FS_Injection
    <2> HIDE DEF K
    <2> QED
        BY <2>4, <2>5 DEF MaxSteps
<1> QED
    BY <1>4

-----------------------------------------------------------------------------
(* mergeContract and the trace filter                                      *)

(* What a merged plan promises, whoever made the plan.                     *)
Sealed(steps, family) ==
    /\ \A s \in steps : Fits(s) /\ Allows(family, s.tool)
    /\ Contract(family) \subseteq steps
    /\ \A s, t \in steps : SameScope(s, t) => s = t
    /\ IsFiniteSet(steps) /\ Cardinality(steps) \in 1..MaxSteps

LEMMA UsableOfFitting ==
    ASSUME NEW steps, \A s \in steps : Fits(s), NEW family
    PROVE  Usable(steps, family) = {s \in steps : Allows(family, s.tool)}
BY DEF Usable, Fits

LEMMA MergeSeals ==
    ASSUME NEW steps, \A s \in steps : Fits(s), NEW family \in Families
    PROVE  Sealed(Merge(steps, family), family) /\ Merge(steps, family) \subseteq steps \cup Contract(family)
<1> DEFINE required == Usable(Required(family), family)
           asked == {s \in Usable(steps, family) : \A r \in required : ~SameScope(r, s)}
           Group(s) == {t \in asked : SameScope(s, t)}
           extra == {FirstOf(Group(s)) : s \in asked}
           kept == {s \in extra :
                     Cardinality(required) + Cardinality({t \in extra : Before(t, s)}) < MaxSteps}
<1>1. Merge(steps, family) = required \cup kept
    BY DEF Merge
<1>0. required = Contract(family)
    BY ContractFacts
<1>2. \A s \in asked : s \in steps /\ Fits(s) /\ Allows(family, s.tool) /\ \A r \in required : ~SameScope(r, s)
    BY UsableOfFitting
<1>3. ASSUME NEW s \in asked PROVE FirstOf(Group(s)) \in asked /\ SameScope(s, FirstOf(Group(s)))
    <2>1. s \in Group(s)
        BY DEF SameScope
    <2>2. FirstOf(Group(s)) \in Group(s)
        <3> HIDE DEF Group
        <3> QED
            BY <2>1 DEF FirstOf
    <2> QED
        BY <2>2
<1>4. extra \subseteq asked
    <2> SUFFICES ASSUME NEW e \in extra PROVE e \in asked
        OBVIOUS
    <2>1. PICK s \in asked : e = FirstOf(Group(s))
        OBVIOUS
    <2> QED
        BY <1>3, <2>1
<1>5. ASSUME NEW e \in extra, NEW f \in extra, SameScope(e, f) PROVE e = f
    <2>1. PICK s \in asked, t \in asked : e = FirstOf(Group(s)) /\ f = FirstOf(Group(t))
        OBVIOUS
    <2>2. SameScope(s, e) /\ SameScope(t, f)
        BY <1>3, <2>1
    <2>3. Group(s) = Group(t)
        BY <1>5, <2>2 DEF SameScope
    <2> QED
        BY <2>1, <2>3
<1> HIDE DEF extra, asked
<1>6. PICK n \in 1..2 : n = Cardinality(required)
    BY <1>0, ContractFacts
<1>7. IsFiniteSet(kept) /\ Cardinality(kept) <= MaxSteps - n
    <2>1. \A s \in extra : s.tool \in Tools /\ s.target \in Targets
        BY <1>2, <1>4 DEF Fits, NormalSteps
    <2> QED
        BY <1>5, <1>6, <2>1, RoomIsKept
<1>8. /\ IsFiniteSet(required \cup kept) /\ Cardinality(required \cup kept) \in 1..MaxSteps
    <2>1. IsFiniteSet(required) /\ IsFiniteSet(kept)
        BY <1>0, <1>7, ContractFacts
    <2> HIDE DEF required, kept
    <2>2. /\ IsFiniteSet(required \cup kept) /\ IsFiniteSet(required \cap kept)
          /\ Cardinality(required \cup kept)
                = Cardinality(required) + Cardinality(kept) - Cardinality(required \cap kept)
        BY <2>1, FS_Union, FS_Subset
    <2>3. PICK k \in Nat, u \in Nat, i \in Nat :
            /\ k = Cardinality(kept) /\ u = Cardinality(required \cup kept)
            /\ i = Cardinality(required \cap kept)
        BY <2>1, <2>2, FS_CardinalityType
    <2>4. n <= u
        <3> required \in SUBSET (required \cup kept)
            OBVIOUS
        <3> QED
            BY <1>6, <2>2, <2>3, FS_Subset
    <2>5. u = n + k - i /\ k <= 8 - n
        BY <1>6, <1>7, <2>2, <2>3 DEF MaxSteps
    <2>6. u \in 1..8
        BY <2>4, <2>5
    <2> QED
        BY <2>2, <2>3, <2>6 DEF MaxSteps
<1>9. \A s \in required : Fits(s) /\ Allows(family, s.tool)
    BY <1>0, ContractFacts
<1>10. \A s, t \in required \cup kept : SameScope(s, t) => s = t
    <2>1. \A s, t \in required : SameScope(s, t) => s = t
        BY <1>0, ContractFacts DEF SameScope
    <2>2. \A s \in required, t \in kept : ~SameScope(s, t) /\ ~SameScope(t, s)
        BY <1>2, <1>4 DEF SameScope
    <2> HIDE DEF required
    <2> QED
        BY <1>5, <2>1, <2>2
<1>11. \A s \in kept : s \in steps /\ Fits(s) /\ Allows(family, s.tool)
    BY <1>2, <1>4
<1> HIDE DEF required, kept
<1>12. \A s \in required \cup kept : Fits(s) /\ Allows(family, s.tool)
    BY <1>9, <1>11
<1>13. required \cup kept \subseteq steps \cup required
    BY <1>11
<1> QED
    BY <1>0, <1>1, <1>8, <1>10, <1>12, <1>13 DEF Sealed

LEMMA MergedSeals ==
    ASSUME NEW steps, \A s \in steps : Fits(s), NEW inc, inc.family \in Families
    PROVE  Sealed(Merged(steps, inc), inc.family) /\ Merged(steps, inc) \subseteq steps \cup Contract(inc.family)
<1> PICK M, N, f : M = Merge(steps, inc.family) /\ N = Merged(steps, inc) /\ f = inc.family
    OBVIOUS
<1>1. Sealed(M, f) /\ M \subseteq steps \cup Contract(f)
    BY MergeSeals
<1>2. N \subseteq M
    BY DEF Merged
<1>3. Contract(f) \subseteq N
    <2>1. \A s \in Contract(f) : s.tool # "trace_context"
        BY ContractFacts
    <2>2. Contract(f) \subseteq M
        BY <1>1 DEF Sealed
    <2> QED
        BY <2>1, <2>2 DEF Merged
<1>4. IsFiniteSet(N) /\ Cardinality(N) \in 1..MaxSteps
    <2>1. IsFiniteSet(M) /\ Cardinality(M) \in 1..8
        BY <1>1 DEF Sealed, MaxSteps
    <2>2. IsFiniteSet(N) /\ Cardinality(N) \in Nat /\ Cardinality(N) <= Cardinality(M)
        BY <1>2, <2>1, Counts
    <2>3. Cardinality(Contract(f)) \in 1..2 /\ Cardinality(Contract(f)) <= Cardinality(N)
        BY <1>3, <2>2, Counts, ContractFacts
    <2> PICK a, b, c : a = Cardinality(N) /\ b = Cardinality(M) /\ c = Cardinality(Contract(f))
        OBVIOUS
    <2>4. a \in 1..8
        BY <2>1, <2>2, <2>3
    <2> QED
        BY <2>2, <2>4 DEF MaxSteps
<1> QED
    BY <1>1, <1>2, <1>3, <1>4 DEF Sealed

(* Merging again changes nothing.                                          *)
LEMMA MergeKeepsSealed ==
    ASSUME NEW steps, NEW family \in Families, Sealed(steps, family)
    PROVE  Merge(steps, family) = steps
<1> DEFINE required == Usable(Required(family), family)
           asked == {s \in Usable(steps, family) : \A r \in required : ~SameScope(r, s)}
           extra == {FirstOf({t \in asked : SameScope(s, t)}) : s \in asked}
           Earlier(s) == {t \in extra : Before(t, s)}
           kept == {s \in extra : Cardinality(required) + Cardinality(Earlier(s)) < MaxSteps}
<1>1. Merge(steps, family) = required \cup kept
    BY DEF Merge
<1>0. required = Contract(family)
    BY ContractFacts
<1>2. /\ required \subseteq steps
      /\ \A s, t \in steps : SameScope(s, t) => s = t
      /\ \A s \in steps : Fits(s) /\ Allows(family, s.tool)
      /\ IsFiniteSet(steps) /\ Cardinality(steps) \in 1..8
    BY <1>0 DEF Sealed, MaxSteps
<1>3. Usable(steps, family) = steps
    BY <1>2, UsableOfFitting
<1> HIDE DEF required
<1>4. asked = steps \ required
    BY <1>2, <1>3 DEF SameScope
<1>5. ASSUME NEW s \in asked PROVE FirstOf({t \in asked : SameScope(s, t)}) = s
    <2>1. {t \in asked : SameScope(s, t)} = {s}
        <3> HIDE DEF asked
        <3> QED
            BY <1>2, <1>4 DEF SameScope
    <2> HIDE DEF asked
    <2>2. FirstOf({s}) = s
        BY DEF FirstOf
    <2> QED
        BY <2>1, <2>2
<1>6. extra = steps \ required
    <2> HIDE DEF asked
    <2>1. extra = asked
        BY <1>5
    <2> QED
        BY <1>4, <2>1
<1> HIDE DEF asked, extra
<1>7. ASSUME NEW s \in extra PROVE Cardinality(required) + Cardinality(Earlier(s)) < MaxSteps
    <2> PICK E : E = Earlier(s)
        OBVIOUS
    <2>1. s \notin E
        <3>1. s.tool \in Tools /\ s.target \in Targets
            BY <1>2, <1>6 DEF Fits, NormalSteps
        <3>2. ScopeNumber(s) \in 1..40 /\ (Before(s, s) <=> ScopeNumber(s) < ScopeNumber(s))
            BY <3>1, ScopeNumberFacts
        <3> PICK i : i = ScopeNumber(s)
            OBVIOUS
        <3>3. ~(i < i)
            BY <3>2
        <3> QED
            BY <3>2, <3>3
    <2>2. E \cup {s} \subseteq steps /\ E \cap required = {} /\ s \notin required /\ E \subseteq steps
        BY <1>6
    <2>3. IsFiniteSet(E) /\ IsFiniteSet(required)
        BY <1>2, <2>2, FS_Subset
    <2>4. /\ IsFiniteSet(required \cup E)
          /\ Cardinality(required \cup E) = Cardinality(required) + Cardinality(E) - Cardinality(required \cap E)
        BY <2>3, FS_Union
    <2>5. Cardinality(required \cap E) = 0
        <3>1. required \cap E = {}
            BY <2>2
        <3> QED
            BY <3>1, NoneAtAll
    <2>6. /\ IsFiniteSet((required \cup E) \cup {s})
          /\ Cardinality((required \cup E) \cup {s}) = Cardinality(required \cup E) + 1
        BY <2>1, <2>2, <2>4, FS_AddElement
    <2>7. Cardinality((required \cup E) \cup {s}) <= Cardinality(steps)
        <3>1. (required \cup E) \cup {s} \in SUBSET steps
            BY <1>2, <2>2
        <3> QED
            BY <1>2, <3>1, FS_Subset
    <2>8. Cardinality(E) \in Nat /\ Cardinality(required) \in Nat
        BY <2>3, FS_CardinalityType
    <2> PICK a, b, c, d, e, f :
            /\ a = Cardinality(required) /\ b = Cardinality(E) /\ c = Cardinality(required \cap E)
            /\ d = Cardinality(required \cup E) /\ e = Cardinality((required \cup E) \cup {s})
            /\ f = Cardinality(steps)
        OBVIOUS
    <2>9. /\ a \in Nat /\ b \in Nat /\ c = 0 /\ d = a + b - c /\ e = d + 1 /\ e <= f /\ f \in 1..8
        BY <1>2, <2>4, <2>5, <2>6, <2>7, <2>8
    <2>10. a + b < 8
        BY <2>9
    <2> QED
        BY <2>10 DEF MaxSteps
<1>8. kept = extra
    BY <1>7
<1> QED
    BY <1>1, <1>2, <1>6, <1>8

-----------------------------------------------------------------------------
(* The plan of an incident                                                 *)

(* TypeOK, what holds of every step whoever proposed it, what merging      *)
(* promises, and that a learned plan is what was verified.                 *)
PlanInv ==
    /\ TypeOK
    /\ \A s \in plan : Fits(s)
    /\ stage = "start" => source = "none" /\ verified = {}
    /\ stage = "merged" => Sealed(plan, incident.family)
    /\ source = "learned" /\ stage = "planned" => plan = verified
    /\ ReusedIsVerified

LEMMA IncidentFamily ==
    /\ \A i \in Incident : i.family \in Families
    /\ \A kind : FamiliesOf(kind) \subseteq Families
BY DEF Incident, FamiliesOf, Families

LEMMA KindTools ==
    ASSUME NEW kind \in KnownKinds
    PROVE  KnownTools[kind] \subseteq Tools
BY DEF KnownKinds, KnownTools, Tools

LEMMA DefaultPlanFits ==
    ASSUME NEW s \in DefaultPlan
    PROVE  Fits(s)
<1>1. {"service_metrics", "error_logs", "workload_status", "kubernetes_events", "recent_changes"} \subseteq Tools
    BY DEF Tools
<1> QED
    BY <1>1, PlanForFits DEF DefaultPlan

LEMMA NormalPlanFits ==
    ASSUME NEW steps \in RawPlans, AcceptablePlan(steps), NEW s \in NormalPlan(steps)
    PROVE  Fits(s)
<1>1. PICK i \in DOMAIN steps : s = NormalStep(steps[i])
    BY DEF NormalPlan
<1>2. Decoded(steps[i]) /\ Acceptable(steps[i])
    BY <1>1, PlanAssumption DEF AcceptablePlan
<1> QED
    BY <1>1, <1>2, NormalFits

LEMMA PlanInit == Init => PlanInv
<1> SUFFICES ASSUME Init PROVE PlanInv
    OBVIOUS
<1>1. TypeOK
    BY DEF Init, TypeOK
<1> QED
    BY <1>1 DEF Init, PlanInv, ReusedIsVerified

(* A plan that is not learned needs only fit.                              *)
LEMMA FreshPlan ==
    ASSUME PlanInv, stage = "start", stage' = "planned",
           \A s \in plan' : Fits(s),
           raw' \in RawPlans \cup {<<>>},
           source' \in {"known", "planner", "refused", "failed"},
           incident' = incident, verified' = verified
    PROVE  PlanInv'
<1>1. verified' = {}
    BY DEF PlanInv
<1>2. TypeOK'
    BY <1>1 DEF PlanInv, TypeOK, Fits
<1> QED
    BY <1>1, <1>2 DEF PlanInv, ReusedIsVerified

LEMMA PlanStep ==
    ASSUME PlanInv, [Next]_vars
    PROVE  PlanInv'
<1>0. incident.family \in Families
    BY IncidentFamily DEF PlanInv, TypeOK
<1>1. CASE Known
    <2>1. KnownTools[incident.kind] \subseteq Tools
        BY <1>1, KindTools DEF Known
    <2>2. \A s \in plan' : Fits(s)
        BY <1>1, <2>1, PlanForFits DEF Known
    <2> QED
        BY <1>1, <2>2, FreshPlan DEF Known, PlanInv, TypeOK
<1>2. CASE NoPlanner
    <2>1. \A s \in plan' : Fits(s)
        BY <1>2, DefaultPlanFits DEF NoPlanner
    <2> QED
        BY <1>2, <2>1, FreshPlan DEF NoPlanner, PlanInv, TypeOK
<1>3. ASSUME NEW steps \in RawPlans, Propose(steps) PROVE PlanInv'
    <2>1. \A s \in plan' : Fits(s)
        BY <1>3, NormalPlanFits DEF Propose
    <2> QED
        BY <1>3, <2>1, FreshPlan DEF Propose
<1>4. ASSUME NEW steps \in RawPlans, Refuse(steps) PROVE PlanInv'
    <2>1. \A s \in plan' : Fits(s)
        BY <1>4, DefaultPlanFits DEF Refuse
    <2> QED
        BY <1>4, <2>1, FreshPlan DEF Refuse
<1>5. ASSUME NEW steps \in Learned, Reuse(steps) PROVE PlanInv'
    <2>1. PICK family \in FamiliesOf(incident.kind), correlated \in BOOLEAN :
            verified' = Merged(NormalPlan(steps), [family |-> family, correlated |-> correlated])
        BY <1>5 DEF Reuse
    <2>2. \A s \in NormalPlan(steps) : Fits(s)
        BY <1>5, NormalPlanFits, PlanAssumption DEF Reuse
    <2>3. \A s \in verified' : Fits(s)
        <3> PICK inc : inc = [family |-> family, correlated |-> correlated]
            OBVIOUS
        <3>1. inc.family \in Families
            BY <2>1, IncidentFamily
        <3>2. Sealed(Merged(NormalPlan(steps), inc), inc.family)
            BY <2>2, <3>1, MergedSeals
        <3> QED
            BY <2>1, <3>2 DEF Sealed
    <2>4. plan' = verified'
        <3>1. \A s \in verified' : NormalStep(s) = s
            BY <2>3 DEF Fits
        <3> QED
            BY <1>5, <3>1 DEF Reuse
    <2>5. /\ stage' = "planned" /\ source' = "learned" /\ incident' = incident /\ raw' = raw
        BY <1>5 DEF Reuse
    <2>6. TypeOK'
        BY <2>3, <2>4, <2>5 DEF PlanInv, TypeOK, Fits
    <2> QED
        BY <2>3, <2>4, <2>5, <2>6 DEF PlanInv, ReusedIsVerified
<1>6. CASE MergeContract
    <2>1. /\ stage = "planned" /\ stage' = "merged" /\ plan' = Merged(plan, incident)
          /\ incident' = incident /\ raw' = raw /\ source' = source /\ verified' = verified
        BY <1>6 DEF MergeContract
    <2>2. Sealed(plan', incident.family) /\ plan' \subseteq plan \cup Contract(incident.family)
        BY <1>0, <2>1, MergedSeals DEF PlanInv
    <2>3. \A s \in plan' : Fits(s)
        BY <2>2 DEF Sealed
    <2>4. TypeOK'
        BY <2>1, <2>3 DEF PlanInv, TypeOK, Fits
    <2>5. ReusedIsVerified'
        BY <2>1, <2>2 DEF PlanInv, ReusedIsVerified, Contract
    <2> QED
        BY <2>1, <2>2, <2>3, <2>4, <2>5 DEF PlanInv
<1>7. CASE UNCHANGED vars
    BY <1>7 DEF vars, PlanInv, TypeOK, ReusedIsVerified
<1> QED
    BY <1>1, <1>2, <1>3, <1>4, <1>5, <1>6, <1>7 DEF Next, Choose

(* Every reachable plan is in PlanInv, for any proposals and contracts.    *)
THEOREM PlansInductive == Spec => []PlanInv
BY PlanInit, PlanStep, PTL DEF Spec

(* What the plan, its source and the stage of Process can be.              *)
THEOREM PlansTypeCorrect == Spec => []TypeOK
<1>1. PlanInv => TypeOK
    BY DEF PlanInv
<1> QED
    BY <1>1, PlansInductive, PTL

(* normalizeCollectionStep (plan.go:83-165): every step of every plan is   *)
(* accepted, and a second normalization returns it unchanged.              *)
THEOREM CanonicalCorrect == Spec => []Canonical
<1>1. PlanInv => Canonical
    BY DEF PlanInv, Canonical, Fits
<1> QED
    BY <1>1, PlansInductive, PTL

(* mergeContract (plan.go:334-361): whoever made the plan, the contract is *)
(* collected as it is worded, no scope twice, no foreign tool, and never   *)
(* more than maxCollectionSteps.                                           *)
THEOREM ContractKeptCorrect == Spec => []ContractKept
<1>1. PlanInv => ContractKept
    BY DEF PlanInv, Sealed, ContractKept, Contract
<1> QED
    BY <1>1, PlansInductive, PTL

(* Process (pipeline.go:173-205): a merged plan merged again is the same   *)
(* plan but for the trace filter.                                          *)
THEOREM MergeStableCorrect == Spec => []MergeStable
<1>1. PlanInv => MergeStable
    <2> SUFFICES ASSUME PlanInv, stage = "merged", NEW correlated \in BOOLEAN
                 PROVE  Merged(plan, [incident EXCEPT !.correlated = correlated])
                            = {s \in plan : ~(correlated /\ s.tool = "trace_context")}
        BY DEF MergeStable
    <2> PICK again : again = [incident EXCEPT !.correlated = correlated]
        OBVIOUS
    <2>1. incident.family \in Families /\ again.family = incident.family /\ again.correlated = correlated
        BY IncidentFamily DEF PlanInv, TypeOK, Incident
    <2>2. Merge(plan, again.family) = plan
        BY <2>1, MergeKeepsSealed DEF PlanInv
    <2> QED
        BY <2>1, <2>2 DEF Merged
<1> QED
    BY <1>1, PlansInductive, PTL

(* Observe, Lookup and mergeContract (adaptive_plan.go:64-90): a reused    *)
(* plan collects nothing but what was verified and its own contract.       *)
THEOREM ReusedIsVerifiedCorrect == Spec => []ReusedIsVerified
<1>1. PlanInv => ReusedIsVerified
    BY DEF PlanInv
<1> QED
    BY <1>1, PlansInductive, PTL

(* Bedrock.Plan's prompt and normalizeCollectionStep (bedrock.go:27-29,    *)
(* plan.go:83-165): a step the prompt offers is refused for one of four    *)
(* bounds the prompt does not state, and for nothing else: more than 5     *)
(* traces (plan.go:136), a shortest duration of slow traces over a minute  *)
(* (plan.go:153), a log term too short, too long or with a line end        *)
(* (plan.go:191), more than 10 changes (plan.go:158).                      *)
THEOREM OfferedRefusals ==
    ASSUME NEW step, Offered(step)
    PROVE  ~Acceptable(step) <=>
               \/ step.tool = "trace_context" /\ step.limit > 5
               \/ step.tool = "trace_context" /\ step.status = "slow" /\ step.duration > MaxDuration
               \/ step.tool = "error_logs" /\ step.terms \cap BadTerms # {}
               \/ step.tool = "recent_changes" /\ step.limit > 10
<1>1. /\ step.tool \in Tools /\ step.target \in TargetsOf(step.tool) \cup {Unset}
      /\ step.lookback \in 0..MaxLookback /\ step.limit \in 0..MaxLimit
      /\ step.metrics \subseteq Metrics /\ Cardinality(step.terms) <= 5
      /\ step.status \in {Unset, "error", "slow", "all"}
    BY DEF Offered, MaxLookback, MaxLimit
<1>2. Target(step) \in TargetsOf(step.tool)
    BY <1>1 DEF Target, TargetsOf, Tools
<1>3. Status(step) \in {"error", "slow", "all"} /\ (Status(step) = "slow" <=> step.status = "slow")
    BY <1>1 DEF Status, Unset
<1>4. Duration(step) <= MaxDuration <=> ~(step.status = "slow" /\ step.duration > MaxDuration)
    <2>1. step.duration \in Int
        BY DEF Offered
    <2> PICK d : d = step.duration
        OBVIOUS
    <2>2. /\ step.status # "slow" => Duration(step) = 0
          /\ step.status = "slow" => Duration(step) = IF d <= 0 THEN 500 ELSE d
        BY <1>3 DEF Duration
    <2> QED
        BY <2>1, <2>2, LongestDuration
<1>5. step.limit <= 5 <=> ~(step.limit > 5)
    BY <1>1 DEF MaxLimit
<1>6. step.limit <= 10 <=> ~(step.limit > 10)
    BY <1>1 DEF MaxLimit
<1> QED
    BY <1>1, <1>2, <1>3, <1>4, <1>5, <1>6 DEF Acceptable

-----------------------------------------------------------------------------
(* Collect                                                                 *)

(* Collecting is a way to run what chooses and merges the plan: all that   *)
(* was proved of Spec holds of it.                                         *)
THEOREM CollectionRunsPlans == CollectionSpec => Spec
<1>1. CollectionInit => Init
    BY DEF CollectionInit
<1>2. [CollectionNext]_allVars => [Next]_vars
    <2> SUFFICES ASSUME [CollectionNext]_allVars PROVE [Next]_vars
        OBVIOUS
    <2>1. CASE Choose
        BY <2>1 DEF Next
    <2>2. CASE StartCollect
        BY <2>2 DEF StartCollect, Next
    <2>3. CASE Collect
        BY <2>3 DEF Collect, CollectSkip, CollectUntargeted, CollectFails, CollectAnswers
    <2>4. CASE Judge
        BY <2>4 DEF Judge
    <2>5. CASE UNCHANGED allVars
        BY <2>5 DEF allVars
    <2> QED
        BY <2>1, <2>2, <2>3, <2>4, <2>5 DEF CollectionNext
<1> QED
    BY <1>1, <1>2, PTL DEF CollectionSpec, Spec

(* What a step was to bring is there.                                      *)
Got(step, items) ==
    /\ step.tool = "service_metrics" => "snapshot" \in items /\ step.metrics \subseteq items
    /\ step.tool = "error_logs" => Scope(step.target) \in items
    /\ step.tool \notin {"service_metrics", "error_logs"} => step.tool \in items

(* Nothing is collected before the plan is merged.                         *)
NotYet ==
    stage # "merged" =>
        /\ complete = "unknown" /\ todo = {} /\ failed = FALSE /\ thin = FALSE
        /\ evidence \subseteq {"logs of incident.service"}

(* The operator's logs are only in a secrets incident.                     *)
OwnLogs == "logs of related.operator" \in evidence => incident.family = "secrets"

(* The step that queried the metrics is done.                              *)
SnapshotTaken == "snapshot" \in evidence => \E s \in plan \ todo : s.tool = "service_metrics"

FailedForReason == failed = TRUE => thin = TRUE \/ \E s \in plan : ~Targeted(s)

AnsweredInFull ==
    stage = "merged" /\ thin = FALSE /\ (\A s \in plan : Targeted(s)) =>
        \A s \in plan \ todo : Got(s, evidence)

CollectionInv ==
    /\ PlanInv /\ CollectionTypeOK
    /\ NotYet /\ OwnLogs /\ SnapshotTaken /\ FailedForReason /\ AnsweredInFull
    /\ AnsweredIsComplete /\ CompleteIsOfTheIncident

(* What an answer may hold, and that a full one is all that was asked for. *)
LEMMA AnswerFacts ==
    ASSUME NEW s, Fits(s), NEW answer \in AnswersTo(s)
    PROVE  /\ answer \subseteq Items
           /\ "snapshot" \in answer => s.tool = "service_metrics"
           /\ "logs of related.operator" \in answer => s.tool = "error_logs" /\ s.target = "related.operator"
           /\ answer = Full(s) => Got(s, answer)
<1>0. s.tool \in Tools /\ s.metrics \subseteq Metrics
    BY DEF Fits, NormalSteps
<1>1. CASE s.tool = "service_metrics"
    <2>1. AnswersTo(s) = {{"snapshot"} \cup m : m \in SUBSET s.metrics}
        BY <1>1 DEF AnswersTo
    <2>2. PICK m \in SUBSET s.metrics : answer = {"snapshot"} \cup m
        BY <2>1
    <2>3. "logs of related.operator" \notin Metrics
        BY DEF Metrics
    <2>4. Full(s) = {"snapshot"} \cup s.metrics
        <3> PICK all : all = {"snapshot"} \cup s.metrics
            OBVIOUS
        <3>1. all \in AnswersTo(s) /\ \A b \in AnswersTo(s) : b \subseteq all
            BY <2>1
        <3>2. \A a \in AnswersTo(s) : (\A b \in AnswersTo(s) : b \subseteq a) => a = all
            BY <3>1
        <3> QED
            BY <3>1, <3>2 DEF Full
    <2> QED
        BY <1>0, <1>1, <2>2, <2>3, <2>4 DEF Items, Got
<1>2. CASE s.tool = "error_logs"
    <2>1. AnswersTo(s) = {{}, {Scope(s.target)}}
        BY <1>2 DEF AnswersTo
    <2>2. Scope(s.target) \in LogScopes
        BY DEF Scope, LogScopes
    <2>3. Full(s) = {Scope(s.target)}
        <3> PICK all : all = {Scope(s.target)}
            OBVIOUS
        <3>1. all \in AnswersTo(s) /\ \A b \in AnswersTo(s) : b \subseteq all
            BY <2>1
        <3>2. \A a \in AnswersTo(s) : (\A b \in AnswersTo(s) : b \subseteq a) => a = all
            BY <3>1
        <3> QED
            BY <3>1, <3>2 DEF Full
    <2> PICK x : x = Scope(s.target)
        OBVIOUS
    <2>8. x # "snapshot" /\ (x = "logs of related.operator" => s.target = "related.operator")
        BY DEF Scope
    <2>9. answer = {} \/ answer = {x}
        BY <2>1
    <2>4. "logs of related.operator" \in answer => s.target = "related.operator"
        BY <2>8, <2>9
    <2>5. "snapshot" \notin answer
        BY <2>8, <2>9
    <2>6. answer \subseteq Items
        BY <2>1, <2>2 DEF Items
    <2>7. answer = Full(s) => Scope(s.target) \in answer
        BY <2>3
    <2> QED
        BY <1>2, <2>4, <2>5, <2>6, <2>7 DEF Got
<1>3. CASE s.tool \notin {"service_metrics", "error_logs"}
    <2>1. \A b \in AnswersTo(s) : b = {} \/ b = {s.tool}
        BY <1>3 DEF AnswersTo
    <2>2. {s.tool} \in AnswersTo(s)
        BY <1>3 DEF AnswersTo
    <2>3. Full(s) = {s.tool}
        <3> PICK all : all = {s.tool}
            OBVIOUS
        <3>1. all \in AnswersTo(s) /\ \A b \in AnswersTo(s) : b \subseteq all
            BY <2>1, <2>2
        <3>2. \A a \in AnswersTo(s) : (\A b \in AnswersTo(s) : b \subseteq a) => a = all
            BY <3>1
        <3> QED
            BY <3>1, <3>2 DEF Full
    <2>4. s.tool # "snapshot" /\ s.tool # "logs of related.operator"
        BY <1>0 DEF Tools
    <2>5. answer \subseteq Items /\ "snapshot" \notin answer /\ "logs of related.operator" \notin answer
        BY <1>0, <1>3, <2>1, <2>4 DEF Items
    <2>6. answer = Full(s) => s.tool \in answer
        BY <2>3
    <2> QED
        BY <1>3, <2>5, <2>6 DEF Got
<1> QED
    BY <1>1, <1>2, <1>3

LEMMA MoreIsGot ==
    ASSUME NEW s, NEW items, NEW more, items \subseteq more, Got(s, items)
    PROVE  Got(s, more)
BY DEF Got

(* A step that brought all it was to bring leaves no gap.                  *)
LEMMA GotIsAvailable ==
    ASSUME NEW s, s.tool \in Tools, Got(s, evidence)
    PROVE  Available(s)
<1>1. CASE s.tool = "service_metrics"
    BY <1>1 DEF Got, Available
<1>2. CASE s.tool = "error_logs" /\ s.target = "related.operator"
    BY <1>2 DEF Got, Available
<1>3. CASE s.tool = "error_logs" /\ s.target # "related.operator"
    BY <1>3 DEF Got, Available, Scope, LogScopes
<1>4. CASE s.tool \notin {"service_metrics", "error_logs"}
    BY <1>4 DEF Got, Available
<1> QED
    BY <1>1, <1>2, <1>3, <1>4

(* A secrets incident wants the logs of the operator and no others.        *)
LEMMA SecretsLogs ==
    ASSUME NEW s \in Contract("secrets"), s.tool = "error_logs"
    PROVE  s.target = "related.operator"
<1>1. PICK r \in Required("secrets") : s = NormalStep(r)
    BY DEF Contract
<1>2. r.tool = "error_logs" /\ s.target = Target(r)
    BY <1>1, NormalFields
<1>3. PodEvents.tool = "kubernetes_events"
    BY DEF PodEvents, At, Step
<1> DEFINE words == {"error", "permission", "reconcile", "secret", "vault"}
<1>4. Required("secrets") = {PodEvents, [LogStep(words) EXCEPT !.target = "related.operator"]}
    BY DEF Required
<1> HIDE DEF words
<1>5. r = [LogStep(words) EXCEPT !.target = "related.operator"]
    BY <1>1, <1>2, <1>3, <1>4
<1>6. r.target = "related.operator"
    BY <1>5 DEF LogStep, Step
<1>7. "related.operator" # Unset
    BY UnsetIsNoName DEF Targets
<1> QED
    BY <1>2, <1>6, <1>7 DEF Target

LEMMA CollectionInitInv == CollectionInit => CollectionInv
<1> SUFFICES ASSUME CollectionInit PROVE CollectionInv
    OBVIOUS
<1>1. /\ Init /\ todo = {} /\ failed = FALSE /\ complete = "unknown" /\ thin = FALSE
      /\ stage = "start" /\ plan = {} /\ evidence \subseteq {"logs of incident.service"}
    BY DEF CollectionInit, Init
<1>2. PlanInv
    BY <1>1, PlanInit
<1>3. CollectionTypeOK
    BY <1>1 DEF CollectionTypeOK, Items, LogScopes
<1>4. NotYet /\ OwnLogs /\ SnapshotTaken
    BY <1>1 DEF NotYet, OwnLogs, SnapshotTaken
<1>5. FailedForReason /\ AnsweredInFull /\ AnsweredIsComplete /\ CompleteIsOfTheIncident
    BY <1>1 DEF FailedForReason, AnsweredInFull, AnsweredIsComplete, CompleteIsOfTheIncident
<1> QED
    BY <1>2, <1>3, <1>4, <1>5 DEF CollectionInv

(* Choosing and merging the plan.                                          *)
LEMMA BeforeCollect ==
    ASSUME CollectionInv, PlanInv', incident' = incident,
           stage # "merged", evidence' = evidence, failed' = failed,
           complete' = complete, thin' = thin,
           \/ todo' = {} /\ stage' # "merged"
           \/ todo' = plan' /\ stage' = "merged"
    PROVE  CollectionInv'
<1>1. /\ complete' = "unknown" /\ failed' = FALSE /\ thin' = FALSE
      /\ evidence' \subseteq {"logs of incident.service"}
      /\ "snapshot" \notin evidence' /\ "logs of related.operator" \notin evidence'
    BY DEF CollectionInv, NotYet
<1>2. CollectionTypeOK'
    BY <1>1 DEF CollectionTypeOK, Items, LogScopes
<1>3. OwnLogs' /\ SnapshotTaken' /\ FailedForReason' /\ AnsweredIsComplete' /\ CompleteIsOfTheIncident'
    BY <1>1 DEF OwnLogs, SnapshotTaken, FailedForReason, AnsweredIsComplete, CompleteIsOfTheIncident
<1>4. NotYet'
    BY <1>1 DEF NotYet
<1>5. AnsweredInFull'
    BY DEF AnsweredInFull
<1> QED
    BY <1>2, <1>3, <1>4, <1>5 DEF CollectionInv

(* A step of Collect takes one step of the plan off todo.                  *)
Off(step) ==
    /\ step \in todo /\ todo' = todo \ {step}
    /\ evidence \subseteq evidence' /\ evidence' \subseteq Items
    /\ complete' = complete
    /\ incident' = incident /\ raw' = raw /\ source' = source
    /\ plan' = plan /\ verified' = verified /\ stage' = stage

LEMMA OffKeeps ==
    ASSUME CollectionInv, NEW step, Off(step),
           failed' \in BOOLEAN, thin' \in BOOLEAN, thin => thin',
           OwnLogs', SnapshotTaken', FailedForReason',
           thin' = FALSE /\ (\A s \in plan : Targeted(s)) => Got(step, evidence')
    PROVE  CollectionInv'
<1>1. stage = "merged" /\ stage' = "merged" /\ complete = "unknown" /\ complete' = "unknown"
    <2>1. step \in todo
        BY DEF Off
    <2>2. stage = "merged" /\ complete = "unknown"
        BY <2>1 DEF CollectionInv, NotYet, CollectionTypeOK
    <2> QED
        BY <2>2 DEF Off
<1>2. PlanInv'
    BY DEF CollectionInv, Off, PlanInv, TypeOK, ReusedIsVerified
<1>3. CollectionTypeOK'
    BY <1>1 DEF CollectionInv, CollectionTypeOK, Off
<1>4. NotYet' /\ AnsweredIsComplete' /\ CompleteIsOfTheIncident'
    BY <1>1 DEF NotYet, AnsweredIsComplete, CompleteIsOfTheIncident
<1>5. AnsweredInFull'
    <2> SUFFICES ASSUME thin' = FALSE, \A s \in plan' : Targeted(s)', NEW t \in plan' \ todo'
                 PROVE  Got(t, evidence')
        BY DEF AnsweredInFull
    <2>1. \A s \in plan : Targeted(s)
        BY DEF Targeted, Off
    <2>2. CASE t = step
        BY <2>1, <2>2
    <2>3. CASE t # step
        <3>1. t \in plan \ todo
            BY <2>3 DEF Off
        <3>2. thin = FALSE
            BY Zenon DEF CollectionInv, CollectionTypeOK
        <3>3. Got(t, evidence)
            BY <1>1, <2>1, <3>1, <3>2 DEF CollectionInv, AnsweredInFull
        <3> QED
            BY <3>3, MoreIsGot DEF Off
    <2> QED
        BY <2>2, <2>3
<1> QED
    BY <1>2, <1>3, <1>4, <1>5 DEF CollectionInv

(* Off, when nothing was added to the evidence.                            *)
LEMMA OffSameEvidence ==
    ASSUME CollectionInv, NEW step, step \in todo, todo' = todo \ {step},
           evidence' = evidence, complete' = complete, UNCHANGED vars
    PROVE  /\ Off(step) /\ OwnLogs' /\ SnapshotTaken' /\ step \in plan
           /\ Targeted(step)' <=> Targeted(step)
<1>1. Off(step) /\ step \in plan
    BY DEF CollectionInv, CollectionTypeOK, Off, vars
<1>2. OwnLogs'
    BY DEF CollectionInv, OwnLogs, vars
<1>3. SnapshotTaken'
    BY DEF CollectionInv, SnapshotTaken, vars
<1> QED
    BY <1>1, <1>2, <1>3 DEF Targeted, vars

LEMMA SkipKeeps ==
    ASSUME CollectionInv, NEW step \in todo, CollectSkip(step)
    PROVE  CollectionInv'
<1>1. /\ todo' = todo \ {step} /\ evidence' = evidence /\ failed' = failed
      /\ complete' = complete /\ thin' = thin /\ UNCHANGED vars /\ Held(step)
    BY DEF CollectSkip
<1>2. Off(step) /\ OwnLogs' /\ SnapshotTaken' /\ step \in plan
    BY <1>1, OffSameEvidence
<1>3. FailedForReason'
    BY <1>1 DEF CollectionInv, FailedForReason, Targeted, vars
<1>4. Got(step, evidence)
    <2>1. Fits(step) /\ step.tool \in Tools
        BY <1>2 DEF CollectionInv, PlanInv, Fits, NormalSteps
    <2>2. CASE step.tool = "service_metrics"
        <3>1. "service_metrics" \notin Items
            BY DEF Items, Metrics, LogScopes
        <3>2. "snapshot" \in evidence
            BY <1>1, <2>2, <3>1 DEF Held, CollectionInv, CollectionTypeOK
        <3>3. PICK s \in plan \ todo : s.tool = "service_metrics"
            BY <3>2 DEF CollectionInv, SnapshotTaken
        <3>4. s.target = "incident.service" /\ step.target = "incident.service"
            BY <1>2, <2>2, <3>3 DEF CollectionInv, PlanInv, Fits, TargetsOf
        <3>5. stage = "merged"
            BY DEF CollectionInv, NotYet
        <3>6. s = step
            BY <1>2, <2>2, <3>3, <3>4, <3>5 DEF CollectionInv, PlanInv, Sealed, SameScope
        <3> QED
            BY <3>3, <3>6
    <2>3. CASE step.tool = "error_logs"
        <3>1. "error_logs" \notin Items
            BY DEF Items, Metrics, LogScopes
        <3> QED
            BY <1>1, <2>3, <3>1 DEF Held, Got, CollectionInv, CollectionTypeOK
    <2>4. CASE step.tool \notin {"service_metrics", "error_logs"}
        BY <1>1, <2>4 DEF Held, Got
    <2> QED
        BY <2>2, <2>3, <2>4
<1>5. failed' \in BOOLEAN /\ thin' \in BOOLEAN /\ (thin => thin')
    BY <1>1, Zenon DEF CollectionInv, CollectionTypeOK
<1> QED
    BY <1>1, <1>2, <1>3, <1>4, <1>5, OffKeeps

LEMMA UntargetedKeeps ==
    ASSUME CollectionInv, NEW step \in todo, CollectUntargeted(step)
    PROVE  CollectionInv'
<1>1. /\ todo' = todo \ {step} /\ evidence' = evidence /\ failed' = TRUE
      /\ complete' = complete /\ thin' = thin /\ UNCHANGED vars /\ ~Targeted(step)
    BY DEF CollectUntargeted
<1>2. /\ Off(step) /\ OwnLogs' /\ SnapshotTaken' /\ step \in plan /\ ~Targeted(step)'
    BY <1>1, OffSameEvidence
<1>3. FailedForReason'
    BY <1>2 DEF FailedForReason, Off
<1>4. failed' \in BOOLEAN /\ thin' \in BOOLEAN /\ (thin => thin')
    BY <1>1, Zenon DEF CollectionInv, CollectionTypeOK
<1>5. ~\A s \in plan : Targeted(s)
    BY <1>1, <1>2
<1> QED
    BY <1>2, <1>3, <1>4, <1>5, OffKeeps

LEMMA FailsKeeps ==
    ASSUME CollectionInv, NEW step \in todo, CollectFails(step)
    PROVE  CollectionInv'
<1>1. /\ todo' = todo \ {step} /\ evidence' = evidence /\ failed' = TRUE
      /\ complete' = complete /\ thin' = TRUE /\ UNCHANGED vars
    BY DEF CollectFails
<1>2. Off(step) /\ OwnLogs' /\ SnapshotTaken'
    BY <1>1, OffSameEvidence
<1>3. FailedForReason'
    BY <1>1 DEF FailedForReason
<1>4. failed' \in BOOLEAN /\ thin' \in BOOLEAN /\ (thin => thin')
    BY <1>1
<1>5. thin' # FALSE
    BY <1>1
<1> QED
    BY <1>2, <1>3, <1>4, <1>5, OffKeeps

LEMMA AnswersKeep ==
    ASSUME CollectionInv, NEW step \in todo, NEW answer \in AnswersTo(step),
           CollectAnswers(step, answer)
    PROVE  CollectionInv'
<1>1. /\ todo' = todo \ {step} /\ evidence' = evidence \cup answer /\ failed' = failed
      /\ complete' = complete /\ UNCHANGED vars /\ Targeted(step)
    BY DEF CollectAnswers
<1>2. PICK missed \in BOOLEAN : missed = (answer # Full(step))
    OBVIOUS
<1>3. thin' = (thin \/ missed)
    BY <1>2, Zenon DEF CollectAnswers
<1>4. thin \in BOOLEAN /\ failed \in BOOLEAN
    BY DEF CollectionInv, CollectionTypeOK
<1>5. failed' \in BOOLEAN /\ thin' \in BOOLEAN /\ (thin => thin')
    BY <1>1, <1>3, <1>4, Zenon
<1>6. step \in plan /\ Fits(step)
    BY DEF CollectionInv, CollectionTypeOK, PlanInv
<1>7. Off(step)
    BY <1>1, <1>6, AnswerFacts DEF CollectionInv, CollectionTypeOK, Off, vars
<1>8. OwnLogs'
    BY <1>1, <1>6, AnswerFacts DEF CollectionInv, OwnLogs, Targeted, vars
<1>9. SnapshotTaken'
    BY <1>1, <1>6, AnswerFacts DEF CollectionInv, SnapshotTaken, vars
<1>10. FailedForReason'
    <2>1. FailedForReason
        BY DEF CollectionInv
    <2>2. thin = TRUE => thin' = TRUE
        BY <1>3, <1>4, Zenon
    <2> QED
        BY <1>1, <2>1, <2>2 DEF FailedForReason, Targeted, vars
<1>11. thin' = FALSE => Got(step, evidence')
    <2>1. thin' = FALSE => missed = FALSE
        BY <1>2, <1>3, <1>4, Zenon
    <2>2. missed = FALSE => answer = Full(step)
        BY <1>2, Zenon
    <2>3. answer = Full(step) => Got(step, answer)
        BY <1>6, AnswerFacts
    <2>4. answer \subseteq evidence'
        BY <1>1
    <2> QED
        BY <2>1, <2>2, <2>3, <2>4, MoreIsGot
<1> QED
    BY <1>5, <1>7, <1>8, <1>9, <1>10, <1>11, OffKeeps

LEMMA JudgeKeeps ==
    ASSUME CollectionInv, Judge
    PROVE  CollectionInv'
<1>1. /\ stage = "merged" /\ todo = {} /\ complete = "unknown" /\ UNCHANGED vars
      /\ evidence' = evidence /\ todo' = todo /\ failed' = failed /\ thin' = thin
      /\ complete' \in {"yes", "no"}
    BY DEF Judge
<1>2. /\ incident' = incident /\ raw' = raw /\ source' = source /\ plan' = plan
      /\ verified' = verified /\ stage' = stage
    BY <1>1 DEF vars
<1>3. PlanInv'
    BY <1>2 DEF CollectionInv, PlanInv, TypeOK, ReusedIsVerified
<1>4. CollectionTypeOK' /\ NotYet' /\ OwnLogs' /\ SnapshotTaken'
    BY <1>1, <1>2 DEF CollectionInv, CollectionTypeOK, NotYet, OwnLogs, SnapshotTaken
<1>5. FailedForReason' /\ AnsweredInFull'
    BY <1>1, <1>2 DEF CollectionInv, FailedForReason, AnsweredInFull, Targeted
<1>6. incident.family \in Families
    BY IncidentFamily DEF CollectionInv, PlanInv, TypeOK
<1>7. AnsweredIsComplete'
    <2> SUFFICES ASSUME complete' = "no", ~thin, \A s \in plan : Targeted(s)
                 PROVE  FALSE
        BY <1>1, <1>2 DEF AnsweredIsComplete, Targeted
    <2>1. thin = FALSE
        BY Zenon DEF CollectionInv, CollectionTypeOK
    <2>2. failed = FALSE
        <3>1. ~(failed = TRUE)
            BY <2>1 DEF CollectionInv, FailedForReason
        <3> QED
            BY <3>1, Zenon DEF CollectionInv, CollectionTypeOK
    <2>3. \A s \in plan : Got(s, evidence) /\ s.tool \in Tools
        BY <1>1, <2>1 DEF CollectionInv, AnsweredInFull, PlanInv, Fits, NormalSteps
    <2>4. \A s \in plan : Available(s)
        BY <2>3, GotIsAvailable
    <2>5. Contract(incident.family) \subseteq plan
        BY <1>1 DEF CollectionInv, PlanInv, Sealed
    <2>6. Gaps = {}
        BY <2>4, <2>5 DEF Gaps, Contract
    <2>7. complete' = "yes"
        BY <2>2, <2>6 DEF Judge
    <2> QED
        BY <2>7
<1>8. CompleteIsOfTheIncident'
    <2> SUFFICES ASSUME complete' = "yes", NEW s \in Contract(incident.family)
                 PROVE  /\ s.tool = "service_metrics" => s.metrics \subseteq evidence
                        /\ s.tool = "error_logs" => Scope(s.target) \in evidence
        BY <1>1, <1>2 DEF CompleteIsOfTheIncident, Contract
    <2>1. Gaps = {}
        BY DEF Judge
    <2>2. Available(s)
        BY <2>1 DEF Gaps, Contract
    <2>3. CASE s.tool = "service_metrics"
        BY <2>2, <2>3 DEF Available
    <2>4. CASE s.tool = "error_logs" /\ s.target = "related.operator"
        BY <2>2, <2>4 DEF Available
    <2>5. CASE s.tool = "error_logs" /\ s.target # "related.operator"
        <3>1. evidence \cap LogScopes # {}
            BY <2>2, <2>5 DEF Available
        <3>2. incident.family # "secrets"
            BY <2>5, SecretsLogs
        <3>3. "logs of related.operator" \notin evidence
            BY <3>2 DEF CollectionInv, OwnLogs
        <3>4. "logs of incident.service" \in evidence
            BY <3>1, <3>3 DEF LogScopes
        <3> QED
            BY <2>5, <3>4 DEF Scope
    <2> QED
        BY <2>3, <2>4, <2>5
<1> QED
    BY <1>3, <1>4, <1>5, <1>7, <1>8 DEF CollectionInv

LEMMA CollectionStep ==
    ASSUME CollectionInv, [CollectionNext]_allVars
    PROVE  CollectionInv'
<1>1. CASE Choose /\ UNCHANGED evidenceVars
    <2>1. PlanInv'
        BY <1>1, PlanStep DEF CollectionInv, Next
    <2>2. stage = "start" /\ stage' = "planned" /\ incident' = incident
        BY <1>1 DEF Choose, Known, NoPlanner, Propose, Refuse, Reuse
    <2>3. todo' = {}
        BY <1>1, <2>2 DEF CollectionInv, NotYet, evidenceVars
    <2> QED
        BY <1>1, <2>1, <2>2, <2>3, BeforeCollect DEF evidenceVars
<1>2. CASE StartCollect
    <2>1. PlanInv'
        BY <1>2, PlanStep DEF CollectionInv, Next, StartCollect
    <2>2. stage = "planned" /\ stage' = "merged" /\ incident' = incident
        BY <1>2 DEF StartCollect, MergeContract
    <2> QED
        BY <1>2, <2>1, <2>2, BeforeCollect DEF StartCollect
<1>3. CASE Collect
    BY <1>3, SkipKeeps, UntargetedKeeps, FailsKeeps, AnswersKeep DEF Collect
<1>4. CASE Judge
    BY <1>4, JudgeKeeps
<1>5. CASE UNCHANGED allVars
    <2>1. /\ incident' = incident /\ raw' = raw /\ source' = source /\ plan' = plan
          /\ verified' = verified /\ stage' = stage
          /\ evidence' = evidence /\ todo' = todo /\ failed' = failed
          /\ complete' = complete /\ thin' = thin
        BY <1>5 DEF allVars, vars, evidenceVars
    <2>2. PlanInv'
        BY <2>1 DEF CollectionInv, PlanInv, TypeOK, ReusedIsVerified
    <2>3. CollectionTypeOK' /\ NotYet' /\ OwnLogs' /\ SnapshotTaken'
        BY <2>1 DEF CollectionInv, CollectionTypeOK, NotYet, OwnLogs, SnapshotTaken
    <2>4. FailedForReason' /\ AnsweredInFull' /\ AnsweredIsComplete' /\ CompleteIsOfTheIncident'
        BY <2>1 DEF CollectionInv, FailedForReason, AnsweredInFull, AnsweredIsComplete, CompleteIsOfTheIncident, Targeted
    <2> QED
        BY <2>2, <2>3, <2>4 DEF CollectionInv
<1> QED
    BY <1>1, <1>2, <1>3, <1>4, <1>5 DEF CollectionNext

(* Every state of collecting is in CollectionInv, whatever is answered.    *)
THEOREM CollectionInductive == CollectionSpec => []CollectionInv
BY CollectionInitInv, CollectionStep, PTL DEF CollectionSpec

(* What evidence can be collected, and when it is judged.                  *)
THEOREM CollectionTypeCorrect == CollectionSpec => []CollectionTypeOK
<1>1. CollectionInv => CollectionTypeOK
    BY DEF CollectionInv
<1> QED
    BY <1>1, CollectionInductive, PTL

(* Collect and gaps (telemetry.go:32-132, plan.go:376-432): when every     *)
(* source answers in full and every step has a target, the contract of the *)
(* incident is met.                                                        *)
THEOREM AnsweredIsCompleteCorrect == CollectionSpec => []AnsweredIsComplete
<1>1. CollectionInv => AnsweredIsComplete
    BY DEF CollectionInv
<1> QED
    BY <1>1, CollectionInductive, PTL

(* gaps and hasLogScope (plan.go:376-432, telemetry.go:277-287): complete  *)
(* evidence is of the scope the contract requires.                         *)
THEOREM CompleteIsOfTheIncidentCorrect == CollectionSpec => []CompleteIsOfTheIncident
<1>1. CollectionInv => CompleteIsOfTheIncident
    BY DEF CollectionInv
<1> QED
    BY <1>1, CollectionInductive, PTL
=============================================================================
