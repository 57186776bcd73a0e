----------------------------- MODULE Discovery -----------------------------
(***************************************************************************)
(* Discovery of new error log patterns: the polling loop Discovery.RunOnce *)
(* (internal/agent/discovery.go) and the catalog PatternCatalog.Observe    *)
(* (internal/agent/catalog.go) it keeps, with the catalog's file and       *)
(* restarts of the agent.                                                  *)
(*                                                                         *)
(* A log record is its service, time stamp and template (the message after *)
(* normalizeLogPattern); two records of one template and service do not    *)
(* share a stamp.  Loki shows a record up to MaxDelay after its stamp.     *)
(***************************************************************************)
EXTENDS Naturals, FiniteSets, FiniteSetsExt

CONSTANTS
    Services,     \* Config.DiscoveryServices
    Templates,
    Blank,        \* the template of a message that normalizes to nothing
    AutoPromote,  \* Config.PatternAutoPromote
    MaxPatterns,  \* Config.MaxPatterns
    MaxSamples,   \* Config.MaxLogSamples
    Lookback,     \* the five minutes RunOnce asks Loki for, in clock units
    MaxDelay,     \* how late Loki may show a record
    DiskFaults,   \* whether the catalog's file can fail to be written
    MaxTime,      \* bound: the clock of the model stops here
    MaxCrashes,   \* bound: how often the agent restarts
    MaxPolls      \* bound: how often the loop runs

ASSUME DiscoveryAssumption ==
    /\ IsFiniteSet(Services) /\ IsFiniteSet(Templates)
    /\ {AutoPromote, MaxPatterns, MaxSamples} \subseteq Nat \ {0}
    /\ {Lookback, MaxDelay, MaxTime, MaxCrashes, MaxPolls} \subseteq Nat
    /\ DiskFaults \in BOOLEAN

VARIABLES
    now,        \* time.Now()
    emitted,    \* the records Loki can show
    cursors,    \* PatternCatalog.Cursors
    patterns,   \* PatternCatalog.Patterns
    disk,       \* patterns.json
    mode,       \* Config.Mode
    todo,       \* services RunOnce has not polled yet
    incidents,  \* patterns RunOnce has still to submit
    crashes, polls,
    unsaved,    \* history: the last change is not in the file
    submitted,  \* history: patterns of which an incident was accepted
    told        \* history: patterns reported as new since they were added

catalogVars == <<cursors, patterns, disk, unsaved>>
loopVars == <<todo, incidents, polls>>
vars == <<now, emitted, catalogVars, mode, loopVars, crashes, submitted, told>>

Ids == Services \X Templates
Absent == [count |-> 0]
Pattern == [count : Nat \ {0}, known : BOOLEAN, alerted : BOOLEAN, last : Nat]
Present(m) == {id \in Ids : m[id] # Absent}

(* The records of a pattern.                                               *)
Records(id) == {r \in emitted : r.service = id[1] /\ r.template = id[2]}

TypeOK ==
    /\ now \in Nat /\ crashes \in Nat /\ polls \in Nat
    /\ emitted \subseteq [service : Services, at : Nat, template : Templates]
    /\ cursors \in [Services -> Nat]
    /\ patterns \in [Ids -> Pattern \cup {Absent}]
    /\ disk \in [cursors : [Services -> Nat], patterns : [Ids -> Pattern \cup {Absent}]]
    /\ Cardinality(Present(patterns)) <= MaxPatterns
    /\ mode \in {"shadow", "detect"} /\ unsaved \in BOOLEAN
    /\ todo \subseteq Services
    /\ incidents \subseteq Ids /\ submitted \subseteq Ids /\ told \subseteq Ids

Init ==
    /\ now = 1 /\ crashes = 0 /\ polls = 0
    /\ emitted = {}
    /\ cursors = [s \in Services |-> 0]
    /\ patterns = [id \in Ids |-> Absent]
    /\ disk = [cursors |-> cursors, patterns |-> patterns]
    /\ mode \in {"shadow", "detect"} /\ unsaved = FALSE
    /\ todo = {} /\ incidents = {} /\ submitted = {} /\ told = {}

-----------------------------------------------------------------------------
(* A service logs an error and Loki comes to show it, perhaps late.        *)
Emit(s, t) ==
    /\ \E stamp \in 1..now :
        /\ stamp + MaxDelay >= now
        /\ LET r == [service |-> s, at |-> stamp, template |-> t] IN
            r \notin emitted /\ emitted' = emitted \cup {r}
    /\ UNCHANGED <<now, catalogVars, mode, loopVars, crashes, submitted, told>>

(* What ErrorLogs may return: the newest MaxSamples records of the window, *)
(* or nothing when the query fails.                                        *)
Answers(s) ==
    LET shown == {r \in emitted : r.service = s /\ r.at + Lookback >= now}
        size == IF Cardinality(shown) < MaxSamples THEN Cardinality(shown) ELSE MaxSamples
    IN  {{}} \cup {a \in kSubset(size, shown) :
                     \A r \in a, other \in shown \ a : other.at <= r.at}

(* Mutation: records stamped like the cursor are read again.               *)
FreshAgain(s, logs) == {r \in logs : r.at >= cursors[s]}

(* The records after the cursor: sample.Timestamp.After(cursor).           *)
Fresh(s, logs) == {r \in logs : r.at > cursors[s]}

Counted(fresh, id) == {r \in fresh : r.template = id[2] /\ r.template # Blank /\ r.service = id[1]}

Latest(fresh) == Max({r.at : r \in fresh})

(* Mutation: promotion one record early.                                   *)
PromotedEarly(count, learn) == learn /\ count + 1 >= AutoPromote

(* Only a shadow-mode poll promotes.                                       *)
Promoted(count, learn) == learn /\ count >= AutoPromote

(* pattern.Known at the first fresh sample: promotion comes before the     *)
(* test that reports.                                                      *)
KnownAtFirst(id, learn) ==
    \/ patterns[id] # Absent /\ patterns[id].known
    \/ Promoted(patterns[id].count + 1, learn)

(* Mutation: Alerted is not looked at.                                     *)
NovelAgain(fresh, learn) ==
    {id \in Ids : Counted(fresh, id) # {} /\ ~KnownAtFirst(id, learn)}

(* The patterns Observe returns.                                           *)
Novel(fresh, learn) ==
    {id \in Ids :
        /\ Counted(fresh, id) # {}
        /\ ~KnownAtFirst(id, learn)
        /\ ~(patterns[id] # Absent /\ patterns[id].alerted)}

(* A pattern after the loop over the samples.                              *)
Learned(id, fresh, learn) ==
    LET n == Cardinality(Counted(fresh, id))
        old == patterns[id]
        count == old.count + n
    IN  IF n = 0 THEN old
        ELSE [count |-> count,
              known |-> (old # Absent /\ old.known) \/ Promoted(count, learn),
              alerted |-> (old # Absent /\ old.alerted) \/ id \in Novel(fresh, learn),
              last |-> Latest(Counted(fresh, id))]

(* Mutation: nothing is evicted.                                           *)
EvictNone(m) == {m}

(* evict: the MaxPatterns patterns seen last stay, ties in any order.      *)
Evictions(m) ==
    IF Cardinality(Present(m)) <= MaxPatterns THEN {m}
    ELSE {[id \in Ids |-> IF id \in kept THEN m[id] ELSE Absent] :
            kept \in {k \in kSubset(MaxPatterns, Present(m)) :
                        \A a \in k, b \in Present(m) \ k : m[b].last <= m[a].last}}

(* persistLocked: the error is logged and the loop goes on.                *)
Persist ==
    \/ disk' = [cursors |-> cursors', patterns |-> patterns'] /\ unsaved' = FALSE
    \/ DiskFaults /\ UNCHANGED disk /\ unsaved' = TRUE

(* The ticker fires and RunOnce starts.                                    *)
Poll ==
    /\ polls < MaxPolls
    /\ todo = {} /\ incidents = {}
    /\ todo' = Services
    /\ polls' = polls + 1
    /\ UNCHANGED <<now, emitted, catalogVars, mode, incidents, crashes, submitted, told>>

(* One service: ErrorLogs and Observe, and the incidents to submit.        *)
ObserveService(s, logs) ==
    /\ s \in todo
    /\ incidents = {}
    /\ LET fresh == Fresh(s, logs)
           learn == mode = "shadow"
           novel == Novel(fresh, learn)
       IN  /\ cursors' = IF fresh = {} THEN cursors ELSE [cursors EXCEPT ![s] = Latest(fresh)]
           /\ patterns' \in Evictions([id \in Ids |-> Learned(id, fresh, learn)])
           /\ incidents' = novel
           /\ told' = (told \cup novel) \cap Present(patterns')
    /\ Persist
    /\ todo' = todo \ {s}
    /\ UNCHANGED <<now, emitted, mode, polls, crashes, submitted>>

(* Processor.Submit returns true.                                          *)
SubmitAccepted(id) ==
    /\ id \in incidents
    /\ incidents' = incidents \ {id}
    /\ submitted' = submitted \cup {id}
    /\ UNCHANGED <<now, emitted, catalogVars, mode, todo, polls, crashes, told>>

(* Processor.Submit returns false, the queue being full; nothing is done.  *)
SubmitRejected(id) ==
    /\ id \in incidents
    /\ incidents' = incidents \ {id}
    /\ UNCHANGED <<now, emitted, catalogVars, mode, todo, polls, crashes, submitted, told>>

(* What a new process finds in the file, with what of the history it can    *)
(* know of; the new process may be configured for the other mode.          *)
Reborn ==
    /\ crashes < MaxCrashes
    /\ crashes' = crashes + 1
    /\ patterns' = disk.patterns
    /\ mode' \in {"shadow", "detect"}
    /\ todo' = {} /\ incidents' = {}
    /\ unsaved' = FALSE
    /\ told' = {id \in Present(patterns') : IF unsaved THEN patterns'[id].alerted ELSE id \in told}
    /\ UNCHANGED <<now, emitted, disk, polls, submitted>>

(* Mutation: the cursors are not in the file.                              *)
RestartCursorless == Reborn /\ cursors' = [s \in Services |-> 0]

(* The agent dies and NewPatternCatalog reads the file.                    *)
Restart == Reborn /\ cursors' = disk.cursors

Tick ==
    /\ now < MaxTime
    /\ now' = now + 1
    /\ UNCHANGED <<emitted, catalogVars, mode, loopVars, crashes, submitted, told>>

RunOnce ==
    \/ Poll
    \/ \E s \in Services : \E logs \in Answers(s) : ObserveService(s, logs)
    \/ \E id \in Ids : SubmitAccepted(id) \/ SubmitRejected(id)

Next ==
    \/ RunOnce
    \/ \E s \in Services, t \in Templates : Emit(s, t)
    \/ Restart
    \/ Tick

Spec == Init /\ [][Next]_vars

-----------------------------------------------------------------------------
(* Observe (catalog.go:59-100): overlapping Loki windows, late records,    *)
(* failed saves and restarts never make a record count twice.              *)
LearnedOnce ==
    \A id \in Present(patterns) : patterns[id].count <= Cardinality(Records(id))

(* Observe (catalog.go:90-92): a pattern is taken for known, and so kept   *)
(* quiet for ever, only after AutoPromote separate records of it.          *)
KnownEarned ==
    \A id \in Present(patterns) :
        patterns[id].known => Cardinality(Records(id)) >= AutoPromote

(* Observe and NewPatternCatalog (catalog.go:33-57, 93-99): a pattern is   *)
(* reported as new once, whatever the mode and however often the agent     *)
(* restarts, unless it was evicted meanwhile or a restart read a file in   *)
(* which the report is missing.                                            *)
NovelOnce ==
    [][\A id \in Ids : id \in incidents' /\ id \notin incidents => id \notin told]_vars

(* README.md:7 ("also detects anomalies application error patterns         *)
(* internally"): a new pattern the loop is done with became an incident.   *)
DetectedIsSubmitted == \A id \in told : id \in incidents \cup submitted
=============================================================================
