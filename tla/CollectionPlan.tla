--------------------------- MODULE CollectionPlan ---------------------------
(***************************************************************************)
(* The collection plan of an incident (internal/agent/plan.go and the      *)
(* first half of Processor.Process, pipeline.go:167-205): where it comes   *)
(* from, how a plan the LLM proposes is normalized or refused, and how it  *)
(* is merged with the evidence contract of the incident's family.          *)
(*                                                                         *)
(* Sorted lists of metrics and log terms are sets.  So is a plan whose     *)
(* steps are in the order of their JSON; only the proposal of the LLM is a *)
(* sequence.                                                               *)
(***************************************************************************)
EXTENDS Integers, Sequences, FiniteSets

CONSTANTS
    RawPlans,  \* what the LLM may propose: sequences of steps
    Learned,   \* those of them that some incident's plan was learned from
    Terms,     \* the log terms a step may name
    BadTerms   \* those shorter than 3 or longer than 64, or with line ends

VARIABLES
    incident,  \* what the plan depends on in the incident
    raw,       \* what the LLM proposed
    source,    \* where the plan came from
    plan,      \* the plan, a set of steps
    verified,  \* history: the steps collected when the plan was learned
    stage      \* how far Process is

vars == <<incident, raw, source, plan, verified, stage>>

Tools == {"service_metrics", "error_logs", "workload_status", "kubernetes_events",
          "network_policies", "trace_context", "recent_changes", "node_status"}
Targets == {"incident.service", "incident.pods", "incident.node", "related.node", "related.operator"}
Metrics == {"cpu", "memory", "error_rate", "p99_latency", "restarts"}
MaxSteps == 8       \* maxCollectionSteps
MaxLookback == 30   \* maxLookbackMinutes
MaxLimit == 20      \* maxCollectionLimit
MaxDuration == 60000   \* of the slowest traces a step may ask for

Unset == ""         \* what the JSON does not have is "" or 0

(* A step with nothing but its tool.                                       *)
Step(tool) == [tool |-> tool, target |-> Unset, lookback |-> 0, limit |-> 0,
               metrics |-> {}, terms |-> {}, status |-> Unset, duration |-> 0]

(* The decoder has numbers where it wants numbers, and words for terms.    *)
Decoded(step) ==
    step.lookback \in Int /\ step.limit \in Int /\ step.duration \in Int /\ step.terms \subseteq Terms

-----------------------------------------------------------------------------
(* normalizeCollectionStep                                                 *)

(* Mutation: every tool is for the incident's service.                     *)
TargetService(step) == IF step.target # Unset THEN step.target ELSE "incident.service"

Target(step) ==
    IF step.target # Unset THEN step.target
    ELSE IF step.tool = "node_status" THEN "incident.node" ELSE "incident.service"

TargetsOf(tool) ==
    CASE tool = "error_logs" -> {"incident.service", "related.operator"}
      [] tool \in {"workload_status", "kubernetes_events"} -> {"incident.service", "incident.pods"}
      [] tool = "node_status" -> {"incident.node", "related.node"}
      [] OTHER -> {"incident.service"}

(* The tools that look back in time, and their default and largest limits. *)
DefaultLookback ==
    [error_logs |-> 5, kubernetes_events |-> 10, trace_context |-> 10, recent_changes |-> 30]
DefaultLimit ==
    [error_logs |-> 10, kubernetes_events |-> 10, trace_context |-> 3, recent_changes |-> 5]
LargestLimit ==
    [error_logs |-> MaxLimit, kubernetes_events |-> MaxLimit, trace_context |-> 5, recent_changes |-> 10]

(* boundedValue                                                            *)
Bounded(value, fallback, maximum) ==
    IF value = 0 THEN fallback
    ELSE IF value < 0 \/ value > maximum THEN maximum + 1 ELSE value

(* Mutation: an unset trace status is kept.                                *)
StatusUnset(step) == step.status

Status(step) == IF step.status = Unset THEN "error" ELSE step.status

Duration(step) ==
    IF Status(step) # "slow" THEN 0
    ELSE IF step.duration <= 0 THEN 500 ELSE step.duration

(* normalizeCollectionStep returns no error.                               *)
Acceptable(step) ==
    /\ step.lookback \in 0..MaxLookback
    /\ step.limit \in 0..MaxLimit
    /\ step.tool \in Tools
    /\ Target(step) \in TargetsOf(step.tool)
    /\ step.tool = "service_metrics" => step.metrics \subseteq Metrics
    /\ step.tool = "error_logs" => step.terms \cap BadTerms = {} /\ Cardinality(step.terms) <= 5
    /\ step.tool = "trace_context" =>
        /\ step.limit <= 5
        /\ Status(step) \in {"error", "slow", "all"}
        /\ Duration(step) <= MaxDuration
    /\ step.tool = "recent_changes" => step.limit <= 10

(* The step it returns.                                                    *)
NormalStep(step) ==
    LET t == step.tool
        windowed == t \in DOMAIN DefaultLookback
    IN  [tool |-> t,
         target |-> Target(step),
         lookback |-> IF windowed THEN Bounded(step.lookback, DefaultLookback[t], MaxLookback) ELSE 0,
         limit |-> IF windowed THEN Bounded(step.limit, DefaultLimit[t], LargestLimit[t]) ELSE 0,
         metrics |-> IF t # "service_metrics" THEN {}
                     ELSE IF step.metrics = {} THEN Metrics ELSE step.metrics,
         terms |-> IF t = "error_logs" THEN step.terms ELSE {},
         status |-> IF t = "trace_context" THEN Status(step) ELSE Unset,
         duration |-> IF t = "trace_context" THEN Duration(step) ELSE 0]

(* normalizeCollectionPlan: whether it returns an error, and what else.    *)
AcceptablePlan(steps) ==
    /\ Len(steps) \in 1..MaxSteps
    /\ \A i \in DOMAIN steps : Acceptable(steps[i])

NormalPlan(steps) == {NormalStep(steps[i]) : i \in DOMAIN steps}

(* planFor                                                                 *)
PlanFor(tools) == {NormalStep(Step(tool)) : tool \in tools}

DefaultPlan == PlanFor({"service_metrics", "error_logs", "workload_status", "kubernetes_events", "recent_changes"})

(* knownPlan                                                               *)
KnownTools ==
    [error_rate_high |-> {"service_metrics", "error_logs", "workload_status", "trace_context", "recent_changes"},
     latency_high |-> {"service_metrics", "error_logs", "trace_context", "recent_changes"},
     cpu_high |-> {"service_metrics", "workload_status", "recent_changes"},
     node_cpu_high |-> {"node_status"},
     node_memory_high |-> {"node_status"},
     frequent_restarts |-> {"service_metrics", "error_logs", "workload_status", "kubernetes_events", "recent_changes"},
     exception_pattern |-> {"error_logs", "workload_status", "trace_context", "recent_changes"},
     novel_log_pattern |-> {"error_logs", "workload_status", "recent_changes"}]
KnownKinds == DOMAIN KnownTools

-----------------------------------------------------------------------------
(* Families and contracts                                                  *)

(* incidentFamily: the family is the first whose words occur in the text.  *)
FamilyOrder == <<"secrets", "network", "storage", "deployment", "pod_lifecycle", "node",
                 "compute", "latency", "application", "dependency", "generic">>
Families == {FamilyOrder[i] : i \in DOMAIN FamilyOrder}

(* The family whose words the kind alone has.                              *)
FamilyOfKind(kind) ==
    CASE kind \in {"node_cpu_high", "node_memory_high"} -> "node"
      [] kind = "cpu_high" -> "compute"
      [] kind = "latency_high" -> "latency"
      [] kind = "frequent_restarts" -> "pod_lifecycle"
      [] kind \in {"error_rate_high", "exception_pattern", "novel_log_pattern"} -> "application"
      [] OTHER -> "generic"

(* The alert's name and description may add the words of others.           *)
FamiliesOf(kind) ==
    {FamilyOrder[i] : i \in {j \in DOMAIN FamilyOrder :
        \A k \in DOMAIN FamilyOrder : FamilyOrder[k] = FamilyOfKind(kind) => j <= k}}

(* contractForIncident                                                     *)
At(tool, target) == [Step(tool) EXCEPT !.target = target]
MetricsStep(metrics) == [Step("service_metrics") EXCEPT !.metrics = metrics]
LogStep(terms) == [Step("error_logs") EXCEPT !.terms = terms]
Pods == At("workload_status", "incident.pods")
PodEvents == At("kubernetes_events", "incident.pods")

Required(family) ==
    CASE family = "application" -> {MetricsStep({"error_rate"}), LogStep({})}
      [] family = "compute" -> {MetricsStep({"cpu", "memory"}), Pods}
      [] family = "latency" ->
            {MetricsStep({"cpu", "p99_latency"}), LogStep({"latency", "query", "slow", "warning"})}
      [] family = "dependency" -> {LogStep({"certificate", "dns", "error", "refused", "timeout"})}
      [] family \in {"pod_lifecycle", "deployment"} -> {Pods, PodEvents}
      [] family = "storage" -> {PodEvents, At("node_status", "related.node")}
      [] family = "network" ->
            {LogStep({"blocked", "deny", "error", "timeout", "unreachable"}), Step("network_policies")}
      [] family = "secrets" ->
            {PodEvents, [LogStep({"error", "permission", "reconcile", "secret", "vault"})
                            EXCEPT !.target = "related.operator"]}
      [] family = "node" -> {At("node_status", "incident.node")}
      [] OTHER -> {LogStep({}), Pods}

(* The words of the contracts have 3 to 64 letters.                        *)
ASSUME PlanAssumption ==
    /\ Learned \subseteq RawPlans
    /\ \A steps \in RawPlans : \A i \in DOMAIN steps : Decoded(steps[i])
    /\ \A family \in Families : \A step \in Required(family) : step.terms \subseteq Terms \ BadTerms

Allows(family, tool) ==
    /\ tool = "node_status" => family \in {"node", "storage"}
    /\ tool = "network_policies" => family \in {"network", "dependency"}
    /\ tool = "kubernetes_events" =>
        family \in {"pod_lifecycle", "deployment", "storage", "secrets", "network"}

(* The steps of a list that mergeContract looks at.                        *)
Usable(steps, family) ==
    {NormalStep(s) : s \in {t \in steps : Acceptable(t) /\ Allows(family, t.tool)}}

SameScope(s, t) == s.tool = t.tool /\ s.target = t.target

(* The order of the JSON of steps of different scopes.                     *)
ToolOrder == <<"error_logs", "kubernetes_events", "network_policies", "node_status",
               "recent_changes", "service_metrics", "trace_context", "workload_status">>
TargetOrder == <<"incident.node", "incident.pods", "incident.service", "related.node", "related.operator">>
Place(x, order) == CHOOSE i \in DOMAIN order : order[i] = x
Before(s, t) ==
    \/ Place(s.tool, ToolOrder) < Place(t.tool, ToolOrder)
    \/ s.tool = t.tool /\ Place(s.target, TargetOrder) < Place(t.target, TargetOrder)

(* The step of a scope whose JSON comes first: any, but always the same.   *)
FirstOf(steps) == CHOOSE s \in steps : TRUE

(* Mutation: the steps of the plan come before the contract's.             *)
MergePlanFirst(steps, family) ==
    LET asked == Usable(steps, family)
        extra == {FirstOf({t \in asked : SameScope(s, t)}) : s \in asked}
        required == {r \in Usable(Required(family), family) : \A s \in extra : ~SameScope(r, s)}
    IN  extra \cup required

(* Mutation: steps in scopes of the contract take up room.                 *)
MergeCountsAll(steps, family) ==
    LET required == Usable(Required(family), family)
        asked == {s \in Usable(steps, family) : \A r \in required : ~SameScope(r, s)}
        extra == {FirstOf({t \in asked : SameScope(s, t)}) : s \in asked}
    IN  required \cup {s \in extra :
            Cardinality(required) + Cardinality({t \in steps : Before(t, s)}) < MaxSteps}

(* mergeContract: the contract's steps, then those of the plan in other    *)
(* scopes, one for each scope, as long as there is room.                   *)
Merge(steps, family) ==
    LET required == Usable(Required(family), family)
        asked == {s \in Usable(steps, family) : \A r \in required : ~SameScope(r, s)}
        extra == {FirstOf({t \in asked : SameScope(s, t)}) : s \in asked}
    IN  required \cup {s \in extra :
            Cardinality(required) + Cardinality({t \in extra : Before(t, s)}) < MaxSteps}

(* Merging, and the trace filter of a correlated incident.                 *)
Merged(steps, inc) ==
    {s \in Merge(steps, inc.family) : ~(inc.correlated /\ s.tool = "trace_context")}

-----------------------------------------------------------------------------
Kinds == KnownKinds \cup {"other"}
Incident == {i \in [kind : Kinds, family : Families, correlated : BOOLEAN] : i.family \in FamiliesOf(i.kind)}
NormalSteps ==
    [tool : Tools, target : Targets, lookback : 0..MaxLookback, limit : 0..MaxLimit,
     metrics : SUBSET Metrics, terms : SUBSET Terms, status : {Unset, "error", "slow", "all"}, duration : 0..MaxDuration]

TypeOK ==
    /\ incident \in Incident
    /\ raw \in RawPlans \cup {<<>>}
    /\ source \in {"none", "known", "learned", "planner", "refused", "failed"}
    /\ \A s \in plan : s \in NormalSteps /\ s.target \in TargetsOf(s.tool)
    /\ verified # {} => source = "learned"
    /\ stage \in {"start", "planned", "merged"}

Init ==
    /\ incident \in Incident
    /\ raw = <<>> /\ source = "none" /\ plan = {} /\ verified = {}
    /\ stage = "start"

(* knownPlan has a plan for the kind.                                      *)
Known ==
    /\ stage = "start" /\ incident.kind \in KnownKinds
    /\ plan' = PlanFor(KnownTools[incident.kind])
    /\ source' = "known" /\ stage' = "planned"
    /\ UNCHANGED <<incident, raw, verified>>

(* Mutation: Observe is given the plan as it was proposed.                 *)
ReuseProposal(steps) ==
    /\ stage = "start" /\ incident.kind \notin KnownKinds
    /\ AcceptablePlan(steps)
    /\ \E family \in FamiliesOf(incident.kind), correlated \in BOOLEAN :
        verified' = Merged(NormalPlan(steps), [family |-> family, correlated |-> correlated])
    /\ plan' = NormalPlan(steps)
    /\ source' = "learned" /\ stage' = "planned"
    /\ UNCHANGED <<incident, raw>>

(* Lookup has a plan: what Observe was given, once merged and filtered,    *)
(* for another incident of the pattern.  The pattern leaves out the name   *)
(* of the service, whose words may select a family, and the correlation.   *)
Reuse(steps) ==
    /\ stage = "start" /\ incident.kind \notin KnownKinds
    /\ AcceptablePlan(steps)
    /\ \E family \in FamiliesOf(incident.kind), correlated \in BOOLEAN :
        verified' = Merged(NormalPlan(steps), [family |-> family, correlated |-> correlated])
    /\ \A s \in verified' : Acceptable(s)
    /\ plan' = {NormalStep(s) : s \in verified'}
    /\ source' = "learned" /\ stage' = "planned"
    /\ UNCHANGED <<incident, raw>>

(* Bedrock.Plan returns what normalizeCollectionPlan accepted.             *)
Propose(steps) ==
    /\ stage = "start" /\ incident.kind \notin KnownKinds
    /\ AcceptablePlan(steps)
    /\ raw' = steps /\ plan' = NormalPlan(steps)
    /\ source' = "planner" /\ stage' = "planned"
    /\ UNCHANGED <<incident, verified>>

(* Bedrock.Plan returns the error of normalizeCollectionPlan.              *)
Refuse(steps) ==
    /\ stage = "start" /\ incident.kind \notin KnownKinds
    /\ ~AcceptablePlan(steps)
    /\ raw' = steps /\ plan' = DefaultPlan
    /\ source' = "refused" /\ stage' = "planned"
    /\ UNCHANGED <<incident, verified>>

(* There is no budget for the planner, or the call fails.                  *)
NoPlanner ==
    /\ stage = "start" /\ incident.kind \notin KnownKinds
    /\ plan' = DefaultPlan
    /\ source' = "failed" /\ stage' = "planned"
    /\ UNCHANGED <<incident, raw, verified>>

(* mergeContract and the trace filter.                                     *)
MergeContract ==
    /\ stage = "planned"
    /\ plan' = Merged(plan, incident)
    /\ stage' = "merged"
    /\ UNCHANGED <<incident, raw, source, verified>>

(* Where the plan of Process comes from.                                   *)
Choose ==
    \/ Known \/ NoPlanner
    \/ \E steps \in RawPlans : Propose(steps) \/ Refuse(steps)
    \/ \E steps \in Learned : Reuse(steps)

Next == Choose \/ MergeContract

Spec == Init /\ [][Next]_vars

-----------------------------------------------------------------------------
(* normalizeCollectionStep (plan.go:83-165): what it returns it accepts    *)
(* and returns unchanged.  mergeContract, the fingerprint and the registry *)
(* normalize steps that were normalized before, and drop or tell apart the *)
(* ones that do not come back the same.                                    *)
Canonical == \A s \in plan : Acceptable(s) /\ NormalStep(s) = s

(* mergeContract (plan.go:334-361) and the filter after it: whoever made   *)
(* the plan, every step of the contract is in it as the contract words it, *)
(* no scope is collected twice, no tool is foreign to the family, and the  *)
(* plan is one a fingerprint can be taken of.                              *)
ContractKept ==
    stage = "merged" =>
        /\ {NormalStep(r) : r \in Required(incident.family)} \subseteq plan
        /\ \A s, t \in plan : SameScope(s, t) => s = t
        /\ \A s \in plan : Allows(incident.family, s.tool)
        /\ Cardinality(plan) \in 1..MaxSteps

(* Process (pipeline.go:173-174, 195-205, 233): a plan is learned after    *)
(* merging and merged again when it is reused.  For an incident of the     *)
(* same family the second merging changes nothing but the trace filter.    *)
MergeStable ==
    stage = "merged" =>
        \A correlated \in BOOLEAN :
            LET again == Merged(plan, [incident EXCEPT !.correlated = correlated])
            IN  again = {s \in plan : ~(correlated /\ s.tool = "trace_context")}

(* Observe, Lookup and mergeContract (adaptive_plan.go:64-90, pipeline.go: *)
(* 173-174, 195-205): whatever family the incident has that a learned plan *)
(* is used for, it collects nothing but steps that were collected and      *)
(* found good when it was learned, and its own contract.                   *)
ReusedIsVerified ==
    source = "learned" /\ stage = "merged" =>
        plan \subseteq verified \cup {NormalStep(r) : r \in Required(incident.family)}

(* A step within what the planner's prompt offers (bedrock.go:27-29).  It  *)
(* bounds the number of log terms and not their length, and does not bound *)
(* min_duration_ms.  A number that is not given is 0.                      *)
Offered(step) ==
    /\ step.tool \in Tools
    /\ step.target \in TargetsOf(step.tool) \cup {Unset}
    /\ step.lookback \in 0..30 /\ step.limit \in 0..20
    /\ step.metrics \subseteq Metrics
    /\ step.terms \subseteq Terms /\ Cardinality(step.terms) <= 5
    /\ step.status \in {Unset, "error", "slow", "all"}
    /\ step.duration \in Int
=============================================================================
