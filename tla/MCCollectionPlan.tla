-------------------------- MODULE MCCollectionPlan --------------------------
(* CollectionPlan on every proposal of one or two of the steps below, and  *)
(* on some long ones.                                                      *)
EXTENDS CollectionPlan

Bare == {Step(tool) : tool \in Tools} \cup {Step("shell")}

Placed == {At(tool, target) : tool \in {"error_logs", "workload_status", "kubernetes_events", "node_status", "recent_changes"},
                              target \in Targets}

Valued ==
    {MetricsStep({"cpu"}), MetricsStep({"disk"}), LogStep({"error", "timeout"}), LogStep({"x"}),
     LogStep({"a1a", "b2b", "c3c", "d4d", "e5e", "f6f"}),
     [Step("error_logs") EXCEPT !.lookback = 31], [Step("error_logs") EXCEPT !.limit = 20],
     [Step("error_logs") EXCEPT !.limit = 21], [Step("kubernetes_events") EXCEPT !.lookback = -1],
     [Step("recent_changes") EXCEPT !.limit = 10], [Step("recent_changes") EXCEPT !.limit = 11],
     [Step("service_metrics") EXCEPT !.limit = 20]}

Traces ==
    {[Step("trace_context") EXCEPT !.limit = l, !.status = s, !.duration = d] :
        l \in {0, 5, 6}, s \in {"", "slow", "all", "odd"}, d \in {-1, 0, 60000, 60001}}

Steps == Bare \cup Placed \cup Valued

(* Eight scopes, and the ninth.                                            *)
Long == <<Step("error_logs"), At("error_logs", "related.operator"), Step("workload_status"),
          At("workload_status", "incident.pods"), Step("service_metrics"), Step("trace_context"),
          Step("recent_changes"), At("node_status", "incident.node")>>

SomePlans ==
    {<<>>, Long, Append(Long, Step("network_policies")), Append(Long, Step("error_logs"))}
    \cup {<<s>> : s \in Steps \cup Traces} \cup (Steps \X Steps)

(* Proposals with steps that some families forbid, crowd out or word       *)
(* differently, and a full one.                                            *)
SomeLearned ==
    {Long, <<Step("trace_context")>>, <<LogStep({"error", "timeout"}), Step("network_policies")>>,
     <<At("node_status", "related.node"), At("kubernetes_events", "incident.pods")>>,
     <<At("error_logs", "related.operator"), MetricsStep({"cpu"})>>}

AnyTerm == STRING
=============================================================================
