---------------------------- MODULE MCCollection ----------------------------
(* Collection for proposals that meet the contracts in different ways.     *)
EXTENDS Collection

FewPlans ==
    {<<MetricsStep({"restarts"}), At("error_logs", "related.operator"), Step("trace_context")>>,
     <<Step("error_logs"), At("workload_status", "incident.pods"), Step("kubernetes_events")>>,
     <<Step("node_status"), At("node_status", "related.node"), Step("network_policies")>>,
     <<Step("shell")>>, <<[Step("trace_context") EXCEPT !.limit = 6]>>}

OneLearned == {<<MetricsStep({"restarts"}), At("error_logs", "related.operator"), Step("trace_context")>>}

AnyTerm == STRING
=============================================================================
