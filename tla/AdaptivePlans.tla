--------------------------- MODULE AdaptivePlans ---------------------------
(***************************************************************************)
(* The registry of learned collection plans, adaptivePlanRegistry          *)
(* (internal/agent/adaptive_plan.go): a plan the LLM proposes for an alert *)
(* pattern becomes a candidate, then a shadow, then active; an active plan *)
(* replaces the planner call until its results fail twice in a row.  Every *)
(* change is saved and a restart reads it back.                            *)
(*                                                                         *)
(* A pattern is adaptivePlanKey, a plan the fingerprint of its normalized  *)
(* steps.  The one goroutine of Processor.Run is the only caller, and the  *)
(* guards say when it calls: Observe after a Lookup that found nothing,    *)
(* RecordValidation after one that did (pipeline.go:173, 228, 232).        *)
(***************************************************************************)
EXTENDS Naturals, FiniteSets

CONSTANTS
    Patterns, Plans, Services,
    MinObservations, MinServices, ShadowMatches, \* Config.AdaptivePlan*
    MaxEntries,  \* Config.MaxPatterns
    Window,      \* adaptiveObservationWindow, in clock units
    DiskFaults,  \* whether the state file can fail to be written or read
    MaxTime,     \* bound: the clock of the model stops here
    MaxCrashes   \* bound: how often the agent restarts

(* NewProcessor replaces values below 1 (pipeline.go:74-85).               *)
ASSUME AdaptiveAssumption ==
    /\ IsFiniteSet(Patterns) /\ IsFiniteSet(Services)
    /\ {MinObservations, MinServices, ShadowMatches, MaxEntries} \subseteq Nat \ {0}
    /\ Window \in Nat /\ MaxTime \in Nat /\ MaxCrashes \in Nat
    /\ DiskFaults \in BOOLEAN

VARIABLES
    now,      \* time.Now()
    entries,  \* adaptivePlanRegistry.entries
    disk,     \* adaptive-rules.json
    crashes,  \* how often the agent has restarted
    unsaved,  \* history: the file is not what is in memory
    run,      \* history: the unbroken run of observations of each pattern
    bad       \* history: failed validations in a row of each active plan

fileVars == <<disk, unsaved>>
vars == <<now, entries, fileVars, crashes, run, bad>>

(* adaptiveMaxConsecutiveFailures                                          *)
MaxFailures == 2

Absent == [state |-> "absent"]

(* Observations is only compared with MinObservations and stops there in   *)
(* the model; the history stops at what an active plan must show.          *)
Capped(n, top) == IF n < top THEN n ELSE top

(* The first observation only makes a candidate, whatever MinObservations. *)
Earned == (IF MinObservations = 1 THEN 2 ELSE MinObservations) + ShadowMatches

Entry ==
    [plan : Plans, state : {"candidate", "shadow", "active"},
     observations : 1..MinObservations, matches : 0..ShadowMatches,
     failures : 0..MaxFailures - 1, services : SUBSET Services, seen : Nat]

Present(m) == {p \in Patterns : m[p] # Absent}

TypeOK ==
    /\ now \in Nat /\ crashes \in Nat
    /\ unsaved \in BOOLEAN
    /\ entries \in [Patterns -> Entry \cup {Absent}]
    /\ disk \in [Patterns -> Entry \cup {Absent}]
    /\ Cardinality(Present(entries)) <= MaxEntries
    /\ run \in [Patterns -> [plan : Plans, count : 0..Earned, services : SUBSET Services, seen : Nat]]
    /\ bad \in [Patterns -> 0..MaxFailures]

Init ==
    /\ now = 0 /\ crashes = 0 /\ unsaved = FALSE
    /\ entries = [p \in Patterns |-> Absent]
    /\ disk = [p \in Patterns |-> Absent]
    /\ run \in [Patterns -> [plan : Plans, count : {0}, services : {{}}, seen : {0}]]
    /\ bad = [p \in Patterns |-> 0]

-----------------------------------------------------------------------------
Active(p) == entries[p].state = "active"

(* Mutation: the observation window is not looked at.                      *)
ContinuesForever(p, q) == entries[p] # Absent /\ entries[p].plan = q

(* The entry is of this plan and was observed within the window.           *)
Continues(p, q) ==
    /\ entries[p] # Absent
    /\ entries[p].plan = q
    /\ now - entries[p].seen <= Window

(* persistLocked, with a failure only logged.                              *)
Persist ==
    \/ disk' = entries' /\ unsaved' = FALSE
    \/ DiskFaults /\ UNCHANGED disk /\ unsaved' = TRUE

(* Mutation: no eviction.                                                  *)
EvictNone(m) == {m}

(* evictLocked: one entry at most is too many, and the loop takes it among *)
(* the least recently observed, in the order of a Go map.                  *)
Evictions(m) ==
    IF Cardinality(Present(m)) <= MaxEntries THEN {m}
    ELSE {[m EXCEPT ![p] = Absent] :
            p \in {o \in Present(m) : \A r \in Present(m) : m[o].seen <= m[r].seen}}

(* The history of every observation, whatever the registry makes of it.    *)
Recorded(p, s, q) ==
    LET r == run[p]
        broken == r.count = 0 \/ r.plan # q \/ now - r.seen > Window
    IN  /\ run' = [run EXCEPT ![p] =
               [plan |-> q,
                count |-> IF broken THEN 1 ELSE Capped(r.count + 1, Earned),
                services |-> IF broken THEN {s} ELSE r.services \cup {s},
                seen |-> now]]
        /\ bad' = [bad EXCEPT ![p] = 0]

(* Observe, when it starts over with a new candidate.                      *)
ObserveFresh(p, s, q) ==
    /\ ~Active(p)
    /\ ~Continues(p, q)
    /\ entries' \in Evictions([entries EXCEPT ![p] =
           [plan |-> q, state |-> "candidate", observations |-> 1, matches |-> 0,
            failures |-> 0, services |-> {s}, seen |-> now]])
    /\ Persist
    /\ Recorded(p, s, q)
    /\ UNCHANGED <<now, crashes>>

(* The entry with one more observation.                                    *)
Again(p, s) == [entries[p] EXCEPT
    !.observations = Capped(@ + 1, MinObservations), !.services = @ \cup {s}, !.seen = now]

(* What makes a candidate a shadow.                                        *)
Qualified(e) ==
    /\ e.observations >= MinObservations
    /\ Cardinality(e.services) >= MinServices

(* Observe, when the plan has been observed before.                        *)
ObserveAgain(p, s, q) ==
    /\ ~Active(p)
    /\ Continues(p, q)
    /\ LET e == Again(p, s) IN
        \/ /\ e.state = "candidate" /\ ~Qualified(e)
           /\ entries' = [entries EXCEPT ![p] = e]
        \/ /\ e.state = "candidate" /\ Qualified(e)
           /\ entries' = [entries EXCEPT ![p] = [e EXCEPT !.state = "shadow", !.matches = 0]]
        \/ /\ e.state = "shadow" /\ e.matches + 1 < ShadowMatches
           /\ entries' = [entries EXCEPT ![p] = [e EXCEPT !.matches = @ + 1]]
        \/ /\ e.state = "shadow" /\ e.matches + 1 >= ShadowMatches
           /\ entries' = [entries EXCEPT ![p] =
                  [e EXCEPT !.state = "active", !.matches = @ + 1]]
    /\ Persist
    /\ Recorded(p, s, q)
    /\ UNCHANGED <<now, crashes>>

(* Mutation: a valid result does not forgive an earlier failure.           *)
ValidateForgets(p) == Active(p) /\ bad' = [bad EXCEPT ![p] = 0]
    /\ UNCHANGED <<now, entries, fileVars, crashes, run>>

(* RecordValidation(incident, true): a failure is forgiven, and only then  *)
(* is anything saved.                                                      *)
Validate(p) ==
    /\ Active(p)
    /\ entries' = [entries EXCEPT ![p].failures = 0]
    /\ IF entries[p].failures > 0 THEN Persist ELSE UNCHANGED fileVars
    /\ bad' = [bad EXCEPT ![p] = 0]
    /\ UNCHANGED <<now, crashes, run>>

(* RecordValidation(incident, false), short of a demotion.                 *)
Fail(p) ==
    /\ Active(p)
    /\ entries[p].failures + 1 < MaxFailures
    /\ entries' = [entries EXCEPT ![p].failures = @ + 1]
    /\ Persist
    /\ bad' = [bad EXCEPT ![p] = Capped(@ + 1, MaxFailures)]
    /\ UNCHANGED <<now, crashes, run>>

(* Mutation: the demotion is not saved.                                    *)
DemoteUnsaved(p) ==
    /\ Active(p)
    /\ entries[p].failures + 1 >= MaxFailures
    /\ entries' = [entries EXCEPT ![p].state = "shadow", ![p].matches = 0, ![p].failures = 0]
    /\ bad' = [bad EXCEPT ![p] = 0]
    /\ UNCHANGED <<now, fileVars, crashes, run>>

(* RecordValidation(incident, false), at the limit: back to shadow.        *)
Demote(p) ==
    /\ Active(p)
    /\ entries[p].failures + 1 >= MaxFailures
    /\ entries' = [entries EXCEPT ![p].state = "shadow", ![p].matches = 0, ![p].failures = 0]
    /\ Persist
    /\ bad' = [bad EXCEPT ![p] = 0]
    /\ UNCHANGED <<now, crashes, run>>

(* The history an entry speaks of, which is what is left of it when the    *)
(* file is older than the registry was.                                    *)
Told(p, e) ==
    IF e = Absent THEN [run[p] EXCEPT !.count = 0, !.services = {}, !.seen = 0]
    ELSE [plan |-> e.plan,
          count |-> CASE e.state = "candidate" -> e.observations
                      [] e.state = "shadow" -> Earned - ShadowMatches + e.matches
                      [] e.state = "active" -> Earned,
          services |-> e.services,
          seen |-> e.seen]

(* newAdaptivePlanRegistry in a new process; with a file it cannot read it *)
(* starts empty.  The plans it reads were normalized when they were saved. *)
Restart ==
    /\ crashes < MaxCrashes
    /\ crashes' = crashes + 1
    /\ \/ entries' = disk
       \/ DiskFaults /\ entries' = [p \in Patterns |-> Absent]
    /\ unsaved' = (entries' # disk)
    /\ IF unsaved \/ unsaved'
       THEN /\ run' = [p \in Patterns |-> Told(p, entries'[p])]
            /\ bad' = [p \in Patterns |-> IF entries'[p] = Absent THEN 0 ELSE entries'[p].failures]
       ELSE UNCHANGED <<run, bad>>
    /\ UNCHANGED <<now, disk>>

Tick ==
    /\ now < MaxTime
    /\ now' = now + 1
    /\ UNCHANGED <<entries, fileVars, crashes, run, bad>>

Observe == \E p \in Patterns, s \in Services, q \in Plans :
    ObserveFresh(p, s, q) \/ ObserveAgain(p, s, q)

RecordValidation == \E p \in Patterns : Validate(p) \/ Fail(p) \/ Demote(p)

Next == Observe \/ RecordValidation \/ Restart \/ Tick

Spec == Init /\ [][Next]_vars

-----------------------------------------------------------------------------
(* Observe (adaptive_plan.go:76-107): a plan that replaces the planner was *)
(* proposed MinObservations times and then ShadowMatches times more for    *)
(* its pattern, with no other plan and no longer than a window in between, *)
(* for MinServices services, whatever was demoted, evicted, restarted or   *)
(* not saved meanwhile.  Only a restart from a stale file starts this      *)
(* account over, with what the file says.                                  *)
ActiveEarned ==
    \A p \in Patterns : Active(p) =>
        /\ run[p].plan = entries[p].plan
        /\ run[p].count >= Earned
        /\ Cardinality(run[p].services) >= MinServices

(* RecordValidation (adaptive_plan.go:109-133): only a second conclusive   *)
(* failure in a row takes an active plan back to shadow, restarts between  *)
(* the two included.                                                       *)
DemotionJustified ==
    [][\A p \in Patterns : Active(p) /\ entries'[p].state = "shadow" /\ crashes' = crashes =>
        bad[p] + 1 >= MaxFailures]_vars

(* persistLocked and newAdaptivePlanRegistry (adaptive_plan.go:39-62, 84,  *)
(* 117-131): a restart changes nothing unless the last save or load        *)
(* failed, so no failure is forgiven, no demotion undone and no plan       *)
(* re-earned by restarting.                                                *)
RestartTransparent ==
    [][crashes' # crashes /\ ~unsaved /\ ~unsaved' => entries' = entries]_vars
=============================================================================
