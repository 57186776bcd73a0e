----------------------------- MODULE Collection -----------------------------
(***************************************************************************)
(* Collecting the evidence of an incident: Telemetry.Collect               *)
(* (internal/agent/telemetry.go:32-132) runs the steps of a merged plan    *)
(* against Prometheus, Loki, Tempo and the Kubernetes API, and Process     *)
(* judges what came back by the contract (pipeline.go:206-208).            *)
(*                                                                         *)
(* Evidence is a set of what is there: the metrics that have a value,      *)
(* "snapshot" for the struct that holds them, the scope of the log samples *)
(* and, for every other tool, the tool itself.                             *)
(***************************************************************************)
EXTENDS CollectionPlan

VARIABLES
    evidence,  \* incident.Evidence
    todo,      \* the steps Collect has not reached
    failed,    \* whether CollectionErrs has an entry
    complete,  \* what Process makes of it
    thin       \* history: a source failed or did not have all it was asked for

evidenceVars == <<evidence, todo, failed, complete, thin>>
allVars == <<vars, evidenceVars>>

LogScopes == {"logs of incident.service", "logs of related.operator"}
Items == Metrics \cup {"snapshot"} \cup LogScopes \cup (Tools \ {"service_metrics", "error_logs"})

CollectionTypeOK ==
    /\ evidence \subseteq Items
    /\ todo \subseteq plan
    /\ failed \in BOOLEAN /\ thin \in BOOLEAN
    /\ complete \in {"unknown", "yes", "no"}
    /\ complete # "unknown" => stage = "merged" /\ todo = {}

(* Discovery hands over the samples it found (discovery.go:43, 67).        *)
CollectionInit ==
    /\ Init
    /\ evidence \in IF incident.kind = "novel_log_pattern"
                    THEN {{"logs of incident.service"}} ELSE {{}}
    /\ todo = {} /\ failed = FALSE /\ complete = "unknown" /\ thin = FALSE

-----------------------------------------------------------------------------
Scope(target) ==
    IF target = "related.operator" THEN "logs of related.operator" ELSE "logs of incident.service"

(* logTarget knows where the logs are.                                     *)
Targeted(step) == step.target = "related.operator" => incident.family = "secrets"

(* Mutation: samples of any scope will do.                                 *)
HeldAnyLogs(step) ==
    \/ step.tool = "service_metrics" /\ "snapshot" \in evidence
    \/ step.tool = "error_logs" /\ evidence \cap LogScopes # {}
    \/ step.tool \in evidence

(* The step would collect what is there already.                           *)
Held(step) ==
    \/ step.tool = "service_metrics" /\ "snapshot" \in evidence
    \/ step.tool = "error_logs" /\ Scope(step.target) \in evidence
    \/ step.tool \in evidence

(* What a source may answer.  Some of the metrics may have no value, and a *)
(* workload or a node status is never empty.                               *)
AnswersTo(step) ==
    CASE step.tool = "service_metrics" -> {{"snapshot"} \cup m : m \in SUBSET step.metrics}
      [] step.tool = "error_logs" -> {{}, {Scope(step.target)}}
      [] step.tool \in {"workload_status", "node_status"} -> {{step.tool}}
      [] OTHER -> {{}, {step.tool}}

Full(step) == CHOOSE a \in AnswersTo(step) : \A b \in AnswersTo(step) : b \subseteq a

(* Mutation: metrics without a value count.                                *)
AvailableAnyMetric(step) ==
    CASE step.tool = "service_metrics" -> "snapshot" \in evidence
      [] step.tool = "error_logs" /\ step.target = "related.operator" -> Scope(step.target) \in evidence
      [] step.tool = "error_logs" /\ step.target # "related.operator" -> evidence \cap LogScopes # {}
      [] OTHER -> step.tool \in evidence

(* evidenceAvailable                                                       *)
Available(step) ==
    CASE step.tool = "service_metrics" -> "snapshot" \in evidence /\ step.metrics \subseteq evidence
      [] step.tool = "error_logs" /\ step.target = "related.operator" -> Scope(step.target) \in evidence
      [] step.tool = "error_logs" /\ step.target # "related.operator" -> evidence \cap LogScopes # {}
      [] OTHER -> step.tool \in evidence

(* evidenceContract.gaps                                                   *)
Gaps == {s \in {NormalStep(r) : r \in Required(incident.family)} : ~Available(s)}

(* Process calls Collect.                                                  *)
StartCollect ==
    /\ MergeContract
    /\ todo' = plan'
    /\ UNCHANGED <<evidence, failed, complete, thin>>

(* The steps are run in the order of the plan.                             *)
Due(step) == step \in todo /\ \A s \in todo : s = step \/ Before(step, s)

CollectSkip(step) ==
    /\ Due(step) /\ Targeted(step) /\ Held(step)
    /\ todo' = todo \ {step}
    /\ UNCHANGED <<vars, evidence, failed, complete, thin>>

(* A log step without a target fails before anything is asked.             *)
CollectUntargeted(step) ==
    /\ Due(step) /\ ~Targeted(step)
    /\ todo' = todo \ {step} /\ failed' = TRUE
    /\ UNCHANGED <<vars, evidence, complete, thin>>

CollectFails(step) ==
    /\ Due(step) /\ Targeted(step) /\ ~Held(step)
    /\ todo' = todo \ {step} /\ failed' = TRUE /\ thin' = TRUE
    /\ UNCHANGED <<vars, evidence, complete>>

CollectAnswers(step, answer) ==
    /\ Due(step) /\ Targeted(step) /\ ~Held(step)
    /\ todo' = todo \ {step}
    /\ evidence' = evidence \cup answer
    /\ thin' = (thin \/ answer # Full(step))
    /\ UNCHANGED <<vars, failed, complete>>

(* Mutation: the judgement does not wait for the last step.                *)
JudgeEarly ==
    /\ stage = "merged" /\ complete = "unknown"
    /\ complete' = IF ~failed /\ Gaps = {} THEN "yes" ELSE "no"
    /\ UNCHANGED <<vars, evidence, todo, failed, thin>>

(* Collect returns, and Process looks for gaps.                            *)
Judge ==
    /\ stage = "merged" /\ todo = {} /\ complete = "unknown"
    /\ complete' = IF ~failed /\ Gaps = {} THEN "yes" ELSE "no"
    /\ UNCHANGED <<vars, evidence, todo, failed, thin>>

Collect ==
    \E step \in todo :
        \/ CollectSkip(step) \/ CollectUntargeted(step) \/ CollectFails(step)
        \/ \E answer \in AnswersTo(step) : CollectAnswers(step, answer)

CollectionNext ==
    \/ Choose /\ UNCHANGED evidenceVars
    \/ StartCollect
    \/ Collect
    \/ Judge

CollectionSpec == CollectionInit /\ [][CollectionNext]_allVars

-----------------------------------------------------------------------------
(* mergeContract, Collect and gaps (plan.go:334-432, telemetry.go:32-132): *)
(* when every source a plan asks answers in full, evidence is complete     *)
(* unless a step has no target.  So no plan, and nothing collected before, *)
(* can keep the contract's own evidence from being asked for.              *)
AnsweredIsComplete ==
    complete = "no" => thin \/ \E s \in plan : ~Targeted(s)

(* gaps (plan.go:376-432) and hasLogScope (telemetry.go:277-287): complete *)
(* evidence holds every metric and the logs of the very scope the contract *)
(* requires, never another's in their place.  It does not say so of the    *)
(* status of a node: evidence keeps that without its target, so that the   *)
(* incident's own node can stand in for the related one (telemetry.go:109).*)
CompleteIsOfTheIncident ==
    complete = "yes" =>
        \A s \in {NormalStep(r) : r \in Required(incident.family)} :
            /\ s.tool = "service_metrics" => s.metrics \subseteq evidence
            /\ s.tool = "error_logs" => Scope(s.target) \in evidence

(* bedrock.go:28-29 ("related.operator for operator logs", "limit (1-20)") *)
(* says what a plan may ask for: a plan of such steps is not refused, and  *)
(* collected without an error when every source answers.                   *)
PromptHonoured ==
    Len(raw) \in 1..MaxSteps /\ (\A i \in DOMAIN raw : Offered(raw[i])) =>
        /\ source # "refused"
        /\ failed => thin
=============================================================================
