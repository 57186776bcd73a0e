# TLA+ model of the Nexus Monitoring Agent

This directory holds TLA+ modules for the agent under `src/`, the TLC
configurations that check them on small instances, and TLAPS proofs of the
properties that matter most. Line references are to
`src/internal/agent/<file>.go` unless a path is given.

## 1. The system

The agent takes incidents from Alertmanager and from its own polling of error
logs, collects evidence about each, asks an LLM for a root cause (RCA) and
posts the outcome to Discord.

```
 HTTP handlers (one goroutine each) --+                      +-- budget (call-budget.json)
                                      +-> Submit -> queue -> Run/Process -- registry (adaptive-rules.json)
 discovery loop -- catalog -----------+   seen                +-- RCA cache (memory)
                   (patterns.json)                            +-- LLM, collector, notifier
```

| Component | State | Operations | Interacts with |
|---|---|---|---|
| Intake (`pipeline.go` 67-152) | `queue` (bounded channel), `seen` (suppressions, under `seenMu`), counters | `Submit` by any goroutine, `Run` by one | called by HTTP and discovery; hands incidents to `Process` |
| Processing (`pipeline.go` 154-341) | `rcaCache`, under `cacheMu` | `Process`, `cachedRCA`, `cacheRCA` | budget, registry, LLM, collector |
| LLM budget (`ai_guard.go`) | `calls` of the last hour, and a file | `Allow`, load | `Process`, up to twice per incident |
| Learned plans (`adaptive_plan.go`) | `entries` by alert pattern, and a file | `Lookup`, `Observe`, `RecordValidation`, eviction, load | `Process` |
| Plans and contracts (`plan.go`, `pipeline.go` 343-386) | none | normalization, predefined plans, contract, merge, gaps | LLM's plan in, collector's plan out |
| Evidence collection (`telemetry.go`) | the incident's evidence | `Collect`, `logTarget`, `hasLogScope` | Prometheus, Loki, Tempo, Kubernetes |
| Discovery (`discovery.go`, `catalog.go`) | pattern catalog and cursors, and a file | `RunOnce`, `Observe`, eviction, load | Loki in, `Submit` out |
| State files (`state.go`) | three JSON files | `saveState` (temporary file, rename), `loadState` | budget, registry, catalog |
| HTTP (`http.go`) | none but its open requests | alert batch, health, metrics | Alertmanager, which repeats what was not answered 202; `Submit` |
| Bedrock, Discord, Kubernetes clients | none | one request each, with a timeout | `Process`, `Run`, `Collect` |
| Lifecycle (`src/cmd/agent/main.go`) | context, goroutines | start, signal, shutdown | all |

What makes it hard:

- *Concurrency.* `Submit` reads the clock before its lock, holds the lock
  twice, and sends on the channel in between without it. Any number of HTTP
  handlers and the discovery loop run it at once, with one consumer.
- *Failure.* A failed save is logged and forgotten. A restart then reads an
  older file, or none. LLM calls, collectors and the notifier fail singly. The
  process stops at any moment, in the middle of a save or of a batch too, and
  `run` waits for nobody when it is told to stop.
- *Order and repetition.* Alertmanager gives up on a request and repeats its
  batch while the first is still being handled. Loki windows overlap and records come late; an
  incident returns after its cooldown; a plan is normalized and merged
  again each time it is used.
- *Boundaries.* The queue, the cache, the catalog and the registry have
  limits at which they reject or evict; windows are compared with `Before` and
  `After`, each on its own side of the boundary.

What makes each component correct:

- intake: no key twice within a cooldown, no suppression without an incident
  behind it, no caller blocked, nothing lost between send and receive;
- the way from alert to notification: every request is answered, every batch
  gets through, no rejected batch leaves a suppression behind, no alert runs
  twice under one suppression, and each is heard of in the end whatever fails on
  the way;
- state files: never half written, never behind what was saved, never a reason
  not to start;
- budget: never over the limit in any window of an hour, never stricter;
- learned plans: a plan replaces the planner only after it has earned it, and
  loses its place only by two conclusive failures in a row;
- plans: the contract's evidence is always asked for and never more than
  eight steps, and a plan means the same when it is used again;
- collection: evidence is called complete when every source answered in full,
  and only if it holds the metrics and the logs, of the right scope, that the
  contract requires;
- discovery: a record counts once, a pattern is reported once and kept quiet
  only when it has earned that;
- processing: one budget grant for each LLM call, and only conclusive answers
  are cached or learned from.

The hazards, each at its line with the properties that would catch it, are the
list `hazards` of `PROJECT.json`.

## 2. Modules

`MC*` modules only give constants their values. One action stands for one
operation, or for one stretch of it that no other goroutine can come into.

| Module | Models | State and actions |
|---|---|---|
| `Admission` | abstract intake | a FIFO with a gap per key; `Admit`, `Deliver` |
| `Intake` | `Submit`, `Run` | `seen`, `queue`, one `pc` per caller. `Call` (clock), `CheckDuplicate`/`CheckNew` (first lock), `SendQueued`/`SendFull` (the `select`), `Count`/`Undo` (counter, second lock); `Take`, `Finish`, `Stop` for `Run` |
| `Agent` | Alertmanager, `HTTPServer.alerts`, `Run`, `Send`, `main` together | `conn` per alert group, `phase`, `group`, `index` per handler, `seen`, `queue`, `worker`, `cancelled`. `Notify`, `Abandon` (Alertmanager); `Authenticate` to `Accept`, among them `Submit` as `Duplicate`, `Suppress`, `Enqueue`, `Full`, `Reject`; `Take`, `StartSend`, `Withhold`, `Send*`, `Stop`; `Signal`, `Exit`, `Crash` |
| `AtomicFile` | abstract state file | a version in memory, one in the file; `Change`, `Save`, `Load` |
| `StateFile` | `saveState`, `loadState`, their callers, the start | `path`, `temp` and `writer` per file; `Change`, `Open`, `Write`, `Rename`, `Fail`, `Stop`, `Start`, `StartFails` |
| `CallBudget` | `callBudget`, its file | `calls`, `disk`; `AllowUnlimited`, `AllowGrant`, `AllowDeny`, `Restart` |
| `AdaptivePlans` | the registry, its file | `entries`, `disk`; `ObserveFresh`, `ObserveAgain`, `Validate`, `Fail`, `Demote`, `Restart` |
| `Discovery` | `RunOnce`, the catalog, its file | `cursors`, `patterns`, `disk`; `Emit` (a service logs), `Poll`, `ObserveService`, `SubmitAccepted`/`SubmitRejected`, `Restart` |
| `CollectionPlan` | where a plan comes from, normalization, merge | pure operators with the names of the Go functions; `Known`, `Reuse`, `Propose`, `Refuse`, `NoPlanner`, `MergeContract` |
| `Collection` (extends `CollectionPlan`) | `Collect` and the judgement of its result | `evidence`, `todo`; one action per fate of a step, `Judge` |
| `Processor` (instances `CallBudget`) | `Process`, the RCA cache | `pc` through `Process`; `Take*` up to the first blocking call, `PlanReturns`, `StartCollect`, `Collected*`, `Analyze*`, `Deliver`, `Restart` |
| `IntakeProofs`, `AgentProofs`, `StateFileProofs`, `CallBudgetProofs`, `AdaptivePlansProofs`, `DiscoveryProofs`, `CollectionProofs`, `ProcessorProofs` | proofs | |

How they fit: `Processor` checks that it uses the budget as `CallBudget` has
it used (`ImplementsBudget`), so that what is proved of `CallBudget` with a
working file holds of it. Its set `active` stands for the registry: it grows
and shrinks where `AdaptivePlans` lets `Observe` and `RecordValidation` do so.
`CollectionPlan!Reuse` takes any plan that was merged and verified in any
family, which is what the registry can hold for an incident. `Discovery` sees
of `Submit` only its answer. `Agent` sees of `Process` only that it takes a
while, and looks at the stretch of `Submit` between its two critical sections
without the clock, which is what `Intake` is about. `StateFile` implements
`AtomicFile`, the file that `CallBudget`, `AdaptivePlans` and `Discovery` have
in one variable.

Abstractions:

- An incident is its key in `Intake`; in `Processor` its pattern, by which plans
  are learned, and its key in the cache, which several patterns may share; and its
  kind, family and correlation in `CollectionPlan`.
- `Processor` has the guards of the cache against a TTL of 0 and an incident
  without a start, and the proofs cover them. In the instance neither occurs: the
  configuration refuses such a TTL (`config.go:80`, 149), and both sources give
  every incident a start (`http.go:110`, `discovery.go:66`).
- The status of a node is in the evidence without its target, as in the code. For
  a storage incident of a node, a step for the incident's own node comes before the
  contract's, which is then skipped; no property says whose status it is.
  The words by which `incidentFamily` chooses a family become: the family of
  the kind's own words, or any family tested before it.
- A critical section is one step. `Allow`, `Observe` and `RecordValidation`
  hold their lock to the end, and only the one worker calls them.
- In the modules with a file, a save replaces it as a whole or leaves it, and
  a stop in the middle is a failed save. `StateFile` has the steps in between
  and justifies this.
- A process stops, the operating system does not: what was written stays
  written. Nothing is synchronised to the disk, and what a failed node leaves
  of a renamed file is up to its file system.
- In `Agent`, the token is right or not, the API server answers or not, the
  payload can be decoded or not, each by choice; an alert is what decides
  whether it is passed over, and a key. A suppression expires at any moment,
  but not while a call of `Submit` still holds it. Without a webhook URL
  `Send` is one that succeeds.
- The clock is a counter and does not run backwards. Counters that are only
  compared with a threshold stop there.
- Grounding and confidence of an RCA are free choices, as is every answer of
  a remote service.

## 3. Runs

A run is a question; twelve of them cover the modules. Each property of a
passing run has a mutation of the code that breaks it, defined next to the
original ("Mutation: ...") and listed in `PROJECT.json`.

| Run | What it shows | Instance, and why it is enough |
|---|---|---|
| `Intake_safety` | suppressions are backed (`SuppressionBacked`) and owned (`UndoOwnsEntry`), counters agree (`Conservation`), no key enters twice within a cooldown (`DedupWindow`), `Submit` implements `Admission` | two callers, two keys, queue of two, cooldown 2, stall 1, clock to 5: an entry lives, expires and is purged; a caller is late by the stall; the queue fills and drains. More callers: the proofs |
| `Intake_acknowledged` (violated) | finding 1 | as above, without shutdown mattering |
| `Agent_delivery` | a suppression that no handler can still take back was set for an alert that entered the queue and stays in memory until its iteration ends (`Accounted`), nothing enters twice under one suppression (`OncePerSuppression`), requests return though the worker hangs (`RequestsReturn`), a batch larger than the queue gets through (`BatchGetsThrough`), a failed notification or a lost incident comes back after the cooldown (`HeardAtLast`) | one group with two alerts and one between them that is passed over, two handlers, a queue of one, two faults: the queue is too small for the batch, an abandoned request runs beside its repetition, and a fault can follow a fault. More of each: the proofs |
| `StateFile_crashes` | no file is torn (`NeverTorn`), what was saved is read again (`Durable`), the agent can always be started (`StartsAgain`), `saveState` and `loadState` implement `AtomicFile` | the catalog and one of the files a start can do without, two changes each, any number of failures and stops |
| `CallBudget_faults` | limit kept unless a restart lost a grant (`RollingLimit`), denials justified | limits 0, 1, 2, window of 2, clock to 5, two restarts, every save or load may fail: windows slide twice over a full list |
| `AdaptivePlans_faults` | active plans are earned, demotions justified, restarts change nothing that was saved | two patterns and room for one, two plans, two services, thresholds of two, window 1, clock to 2, one restart, saves and loads may fail |
| `Discovery_faults` | a record counts once, promotion is earned, a pattern is reported once | one service, two templates and a blank one, room for one pattern, two samples a poll, lookback and delay 1, three polls, failed saves, one restart with either mode |
| `Discovery_dropped` (violated) | finding 2 | no faults, no restart |
| `CollectionPlan_merge` | normal forms are stable (`Canonical`), the contract survives (`ContractKept`), merging again changes nothing (`MergeStable`), a learned plan used in another family asks for nothing but what was verified and that family's contract (`ReusedIsVerified`) | all kinds and families; every pair out of the 46 steps that reach a bound or a refusal, single steps at each boundary, plans of eight to ten steps; five learned plans with steps that some families forbid or word differently, each learned in every family |
| `Collection_evidence` | full answers make evidence complete (`AnsweredIsComplete`), complete evidence has the metrics and the logs of the scope the contract requires (`CompleteIsOfTheIncident`) | all kinds and families, five proposals that overlap the contracts differently and a learned plan, any source failing or answering in part |
| `Collection_prompt` (violated) | finding 3 | the same |
| `Processor_safety` | a cached answer was made, valid, under the same key within the TTL (`CachedWasValid`), cache and learned plans change only on conclusive answers (`LearnsFromCompleteEvidence`), each call of the LLM has its grant of the budget (`ImplementsBudget`) | a known pattern, an exact one, and two unknown ones that share a key, one of them under a second key too, cache of one, limits 0 to 2, TTL 1, window 2, clock to 3, three incidents, one restart |

Deadlock is checked where the system cannot stop. `Discovery` and `Processor`
runs end when their bounds on polls or incidents and on time are used up;
those switch the check off.

### Fairness

- `Agent!FairSpec`: weak fairness of each handler's steps, which are ordinary
  statements, short critical sections and a token review with a timeout, and
  which the Go scheduler runs whenever they can run. Reading the body is one of
  them and has no timeout (`main.go:47` sets that of the header only): that a client
  sends the body it announced, or closes, is an assumption. Weak fairness too of
  Alertmanager's repetitions, which go on while an alert fires; and of the end of
  `run` after a signal. The worker may hang for ever, suppressions may never expire: where a
  property needs that they do not, it says so as a premise. `BatchGetsThrough`
  needs a worker that goes on and suppressions that outlast the repetitions
  (with the defaults, 64 incidents can take longer than ten minutes, and then the
  end of a large batch may wait as long as its beginning keeps coming back);
  `HeardAtLast` needs a worker that goes on, batches that get through and
  cooldowns that end. That the worker goes on is what the timeouts of its calls
  are for (`bedrock.go:92`, `HTTPTimeout` for telemetry and Discord): each then
  counts as an error.
- `StateFile!FairSpec`: a process that ended is started again until it starts,
  as a container is.
- Nothing forces the clock of a model to move, a fault or a signal to come or a
  poll to start.

## 4. Proofs

All proofs hold for every value of the constants that the named assumptions
allow.

`IntakeProofs`, under `IntakeAssumption`: finitely many callers, a queue of at
least one (`NewProcessor` sees to that), and no call of `Submit` delayed by
a whole cooldown between reading the clock and its last step. The code does
not enforce the last one; with a cooldown of minutes it is safe, and without it
a rollback could delete another caller's suppression.

- `TypeCorrect`, `SuppressionCorrect`, `UndoCorrect`, `DedupCorrect`,
  `ConservationCorrect`: the invariants and action property of the run.
- `Refinement`: `Spec => ImplementsAdmission`. `SendQueued` maps to `Admit`, `Take`
  to `Deliver`, `Tick` to `Elapse`, everything else stutters.
- The argument is the invariant `IInv`. `SuppressionBacked` is not inductive by
  itself: that an undo removes only its own entry needs `UndoOwnsEntry`, which
  in turn needs `StallBounded` (a caller's clock reading is recent, so nobody
  can have found its entry expired). `DedupWindow` needs `GapGuarded`: after an
  admission either enough time has passed, or a suppression nobody can take
  back stands for the key.

`AgentProofs`, under `AgentAssumption` (some groups and keys, a queue of at
least one, payloads that are finite batches):

- `TypeCorrect`, `AccountedCorrect`, `OnceCorrect`, for any number of groups,
  alerts, handlers and faults. `Accounted` leaves out the suppressions a handler
  holds between its two critical sections: a repeated alert can be answered as a
  duplicate of one that is then rejected, which is finding 1. Nor does it say that
  the notification succeeds: a suppression outlives a `Send` that failed, and
  `HeardAtLast` says what follows.
- The argument is the invariant `AInv`. Between its two critical sections a
  handler holds a suppression under which nothing has entered (`HeldIsNew`) and
  which no other handler holds (`SoleHolder`); so it may queue it without
  repeating, and take it back without taking another's. Every suppression is
  held or has entered (`SeenIsTaken`), and what entered is in the queue or with
  the worker until its iteration ends (`EnteredIsKept`).

`StateFileProofs`, under `StateAssumption` (types of the constants only):

- `TypeCorrect`, `NeverTornCorrect`, `DurableCorrect`, and the refinement
  `ImplementsCorrect`: `Rename` maps to `Save`, `Change` and `Start` to `Change` and
  `Load`, everything else stutters.
- The argument is the invariant `SaveInv`: what is about to be renamed is the
  whole of memory (`TempIsWhole`), and memory never falls behind the file, nor
  the file behind a save, but after a start that went on without it
  (`MemoryAhead`, `SavedIsThere`).

`CallBudgetProofs`, under `BudgetAssumption` (types of the constants only):

- `TypeCorrect`, `RollingCorrect`, `DenialCorrect`, and `HourlyCorrect`, which
  assumes a configured state file that never fails.
- The argument is the invariant `BInv`: both the list in memory and the one in
  the file are made of grants in order (`Aligned`), and the list in memory
  covers every grant still within the hour unless a restart forgot one
  (`Covers`). A new grant then finds that the one `limit` before it has left
  the list, hence the hour.

`AdaptivePlansProofs`, under `AdaptiveAssumption` (finitely many patterns and
services, thresholds of at least one as `NewProcessor` sees to), with a state
file that may fail at any time:

- `TypeCorrect`, `EarnedCorrect`, `DemotionCorrect`, `RestartCorrect`.
- The argument is the invariant `PInv`. `ActiveEarned` speaks of active plans
  only; to be inductive it must say what each earlier state owes
  (`Backed`: a candidate no more observations than the unbroken run has, a
  shadow its matches on top of those that made it one, `Sound`: services enough
  for anything past a candidate, failures only for active plans), and say it of
  the file too, because a restart takes entries from there. `EvictionsKeep`
  shows that one eviction is enough, `RecordedRun` that the run goes on
  whenever the entry does.

`DiscoveryProofs`, under `DiscoveryAssumption` (finitely many services and
templates, limits of at least one), with a state file that may fail at any
time:

- `TypeCorrect`, `LearnedOnceCorrect`, `KnownEarnedCorrect`, and the action
  property `NovelOnceCorrect`.
- The argument is the invariant `DInv`. That a pattern's count is at most the
  number of its records says nothing about the next poll, whose window overlaps
  the last; to be inductive, the count must be at most the number of records
  that the service's cursor has passed (`Sound`), since those never count again.
  The file has cursors of its own, and `Sound` is said of it too: a restart takes
  both from it, so that an old file counts again only what it had not counted.
  `ToldIsMarked` is what keeps a report from being repeated, `FileInv` what a
  restart can lose of it.

`CollectionProofs`, under `PlanAssumption` (learned plans were proposed once; a
decoder puts numbers where numbers belong; the words of the contracts are valid
log terms), for any proposal, of any length:

- About plans: `PlansTypeCorrect`, `CanonicalCorrect`, `ContractKeptCorrect`,
  `MergeStableCorrect`, `ReusedIsVerifiedCorrect`, with the invariant `PlanInv`. The
  substance is in the lemmas about the operators: normalization is idempotent
  (`NormalIsNormal`), every contract consists of one or two acceptable steps with
  different tools (`ContractShape`), the order of the steps is total on scopes
  (`ScopeNumberFacts`), so that no more steps are kept than there is room for
  (`RoomIsKept`), merging therefore promises what `Sealed` says (`MergeSeals`), and
  leaves alone a plan of which that is true (`MergeKeepsSealed`).
- `OfferedRefusals`: a step the prompt offers is refused for one of four bounds the
  prompt does not state, and for nothing else. Two are the limits of finding 3; the
  others are a shortest duration over a minute for slow traces, and a log term that
  is too short, too long or has a line end.
- About collecting: `CollectionRunsPlans` (`CollectionSpec => Spec`, by which the
  theorems about plans hold of it), `CollectionTypeCorrect`,
  `AnsweredIsCompleteCorrect`, `CompleteIsOfTheIncidentCorrect`, for any answers of
  the sources, with the invariant `CollectionInv`. `AnsweredIsComplete` speaks of the
  end only; while steps are open it must say that every step that is done left
  its full answer (`AnsweredInFull`). A step passed over because its
  evidence is there is the hard case: for metrics it needs `SnapshotTaken`, that
  only a step of the plan can have taken the snapshot, and that there is one step
  for each scope, which is why merging comes first. `CompleteIsOfTheIncident`
  needs `OwnLogs`: an operator's logs are in no incident but one about secrets,
  whose contract asks for no others (`SecretsLogs`).

`ProcessorProofs`, under `ProcessorAssumption` (finitely many keys, a cache of at
least one, any TTL, 0 among them):

- `TypeCorrect`, `CachedCorrect`, `LearnsCorrect`; the refinement `BudgetCorrect`:
  taking or collecting with an answer of `Allow` maps to `AllowUnlimited`,
  `AllowGrant` or `AllowDeny`, what follows the answer to `Proceed`; and
  `LimitCorrect`, which takes `HourlyCorrect` over from `CallBudgetProofs` through
  that refinement: no way of incidents through `Process` exceeds the limit.
- The arguments: what is not an answer of the LLM only takes entries from the
  cache (`SilentShrinks`); every entry is a verdict of its key and expires `TTL`
  after it (`CacheBacked`); the planner is asked only for patterns without a plan of
  their own (`PlannedIsUnknown`); an answer of `Allow` is acted on before the next
  question (`AnswerHeard`).

Only model-checked: `RequestsReturn`, `BatchGetsThrough`, `HeardAtLast` and
`StartsAgain`, which are liveness under fairness, and the findings, which are
single behaviours. Every other property of a passing run is a theorem.

## 5. Findings

1. `Submit` can acknowledge an incident that nobody queues: the suppression
   of a call that is about to be rejected makes a second call return true
   (`AcknowledgedIsQueued`, `pipeline.go:109`). Alertmanager retries the rejected
   one, so the loss is of that acknowledgement, but discovery does not retry.
2. A new log pattern is marked as reported and saved before it is submitted;
   when the queue is full it is never reported (`DetectedIsSubmitted`,
   `discovery.go:72`).
3. The planner's prompt allows limits up to 20 for every tool; the
   normalization refuses more than 5 for traces and 10 for changes, and with
   the step the whole plan (`PromptHonoured`, `plan.go:136`). Two more bounds are not
   in the prompt at all (`plan.go:153`, 191): `OfferedRefusals`. The prompt also offers
   `related.operator` for every incident, while the collector knows an operator only
   for the secrets family, so that this step makes the evidence of any other
   incident incomplete (the second half of the property, `telemetry.go:294`).

## 6. Not modelled

- How a token is compared and a payload decoded, prompts, the layout of the
  Discord message, redaction, token counting, metrics text: pure or I/O,
  without state the properties speak of.
- The Kubernetes client: stateless requests, each an answer or an error to the
  collector. What it selects from a list of pods, events or replica sets is
  a sort and a filter whose result no other part depends on.
- Configuration: its results are the constants and their assumptions. Without
  a state directory nothing is saved or loaded, and a restart starts empty.
- Normalization of log messages into templates, and the choice of exact
  patterns: regular expressions over text; records carry their template.
- The queries inside the collector: each is an answer or an error.
- Inputs `loadState` can be given by hand: a file is one the agent wrote.

## 7. Plan

Done, in this order: intake with its abstract specification and proofs, the
budget with proofs, learned plans with proofs, discovery, plans and contracts,
collection, processing with proofs; then the agent from alert to notification with proofs,
state files with their abstract specification and proofs, and learned plans
reused across families; then the proofs about discovery, plans and collection.

Next: the registry composed with `CollectionPlan`, in which incidents with and
without a correlation id learn different plans and reset each other's
candidate. It delays learning and breaks no promise, so it comes last.
