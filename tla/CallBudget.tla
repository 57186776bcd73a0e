----------------------------- MODULE CallBudget -----------------------------
(***************************************************************************)
(* The hourly budget of LLM calls, callBudget.Allow                        *)
(* (internal/agent/ai_guard.go), with its state file, the faults of that   *)
(* file and restarts of the agent.                                         *)
(*                                                                         *)
(* Allow runs under its mutex and returns after it has tried to save, so   *)
(* it is one step: a crash inside it is a crash before it, as far as any   *)
(* LLM call goes.  The clock never runs backwards, across restarts too.    *)
(***************************************************************************)
EXTENDS Naturals, Sequences, FiniteSets

CONSTANTS
    Limits,     \* values of Config.MaxBedrockCalls, 0 for no limit
    Hour,       \* the window, in clock units
    Persistent, \* whether STATE_DIR is set
    DiskFaults, \* whether the state file can fail to be written or read
    MaxTime,    \* bound: the clock of the model stops here
    MaxCrashes  \* bound: how often the agent restarts

ASSUME BudgetAssumption ==
    /\ Limits \subseteq Nat
    /\ Hour \in Nat
    /\ Persistent \in BOOLEAN /\ DiskFaults \in BOOLEAN
    /\ MaxTime \in Nat /\ MaxCrashes \in Nat

VARIABLES
    now,       \* time.Now()
    limit,     \* callBudget.limit
    calls,     \* callBudget.calls
    disk,      \* call-budget.json
    caller,    \* what the processor makes of the answer
    grants,    \* history: every call granted under a limit, oldest first
    unsaved,   \* history: a grant is in memory and not in the file
    forgotten, \* history: a restart lost such a grant
    crashes    \* how often the agent has restarted

vars == <<now, limit, calls, disk, caller, grants, unsaved, forgotten, crashes>>

TypeOK ==
    /\ now \in Nat
    /\ limit \in Limits
    /\ calls \in Seq(Nat) /\ Len(calls) <= limit
    /\ disk \in Seq(Nat) /\ Len(disk) <= limit
    /\ caller \in {"idle", "calling", "limited"}
    /\ grants \in Seq(Nat)
    /\ unsaved \in BOOLEAN
    /\ forgotten \in BOOLEAN
    /\ crashes \in Nat

Init ==
    /\ now = 0
    /\ limit \in Limits
    /\ calls = <<>>
    /\ disk = <<>>
    /\ caller = "idle"
    /\ grants = <<>>
    /\ unsaved = FALSE
    /\ forgotten = FALSE
    /\ crashes = 0

-----------------------------------------------------------------------------
(* Mutation: a call exactly one hour old is dropped.                       *)
ExpiredEarly(call) == call + Hour <= now

(* b.calls[first].Before(now - 1h): a call exactly one hour old is live.   *)
Expired(call) == call + Hour < now

(* Where the loop over the oldest calls stops.                             *)
FirstLive(first) ==
    /\ \A i \in 1..first : Expired(calls[i])
    /\ first < Len(calls) => ~Expired(calls[first + 1])

Live(first) == SubSeq(calls, first + 1, Len(calls))

(* saveState: the file is replaced as a whole or, when the save fails or   *)
(* there is no STATE_DIR, left as it was; a failure is only logged.        *)
Saved == Persistent /\ disk' = calls'
NotSaved == (DiskFaults \/ ~Persistent) /\ disk' = disk

(* return true without looking at the list                                 *)
AllowUnlimited ==
    /\ caller = "idle"
    /\ limit = 0
    /\ caller' = "calling"
    /\ UNCHANGED <<now, limit, calls, disk, grants, unsaved, forgotten, crashes>>

(* Mutation: one call over the limit is let through.                       *)
AllowGrantOver(first) ==
    /\ caller = "idle"
    /\ limit > 0
    /\ FirstLive(first)
    /\ Len(Live(first)) <= limit
    /\ calls' = Append(Live(first), now)
    /\ caller' = "calling"
    /\ grants' = Append(grants, now)
    /\ \/ Saved /\ unsaved' = FALSE
       \/ NotSaved /\ unsaved' = TRUE
    /\ UNCHANGED <<now, limit, forgotten, crashes>>

(* len(b.calls) < b.limit: record the call and return true                 *)
AllowGrant(first) ==
    /\ caller = "idle"
    /\ limit > 0
    /\ FirstLive(first)
    /\ Len(Live(first)) < limit
    /\ calls' = Append(Live(first), now)
    /\ caller' = "calling"
    /\ grants' = Append(grants, now)
    /\ \/ Saved /\ unsaved' = FALSE
       \/ NotSaved /\ unsaved' = TRUE
    /\ UNCHANGED <<now, limit, forgotten, crashes>>

(* Mutation: the last call of the hour is denied.                          *)
AllowDenyEager(first) ==
    /\ caller = "idle"
    /\ limit > 0
    /\ FirstLive(first)
    /\ Len(Live(first)) + 1 >= limit
    /\ calls' = Live(first)
    /\ caller' = "limited"
    /\ \/ Saved /\ unsaved' = FALSE
       \/ NotSaved /\ UNCHANGED unsaved
    /\ UNCHANGED <<now, limit, grants, forgotten, crashes>>

(* len(b.calls) >= b.limit: return false, but the shorter list stays       *)
AllowDeny(first) ==
    /\ caller = "idle"
    /\ limit > 0
    /\ FirstLive(first)
    /\ Len(Live(first)) >= limit
    /\ calls' = Live(first)
    /\ caller' = "limited"
    /\ \/ Saved /\ unsaved' = FALSE
       \/ NotSaved /\ UNCHANGED unsaved
    /\ UNCHANGED <<now, limit, grants, forgotten, crashes>>

(* The processor calls the LLM, or goes on with a fallback.                *)
Proceed ==
    /\ caller \in {"calling", "limited"}
    /\ caller' = "idle"
    /\ UNCHANGED <<now, limit, calls, disk, grants, unsaved, forgotten, crashes>>

(* Mutation: a new process does not read the file.                         *)
RestartEmpty ==
    /\ crashes < MaxCrashes
    /\ crashes' = crashes + 1
    /\ calls' = <<>>
    /\ caller' = "idle"
    /\ UNCHANGED <<now, limit, disk, grants, unsaved, forgotten>>

(* The agent dies, at any point, and newCallBudget reads the file; it goes *)
(* on with an empty list when it cannot.                                   *)
Restart ==
    /\ crashes < MaxCrashes
    /\ crashes' = crashes + 1
    /\ \/ calls' = disk /\ forgotten' = (forgotten \/ unsaved)
       \/ DiskFaults /\ calls' = <<>> /\ forgotten' = TRUE
    /\ caller' = "idle"
    /\ unsaved' = FALSE
    /\ UNCHANGED <<now, limit, disk, grants>>

Tick ==
    /\ now < MaxTime
    /\ now' = now + 1
    /\ UNCHANGED <<limit, calls, disk, caller, grants, unsaved, forgotten, crashes>>

Allow ==
    \/ AllowUnlimited
    \/ \E first \in 0..Len(calls) : AllowGrant(first) \/ AllowDeny(first)

Next == Allow \/ Proceed \/ Restart \/ Tick

Spec == Init /\ [][Next]_vars

-----------------------------------------------------------------------------
(* Allow (ai_guard.go:24-46), newCallBudget (16-22), with a state file     *)
(* that works: no more than `limit' calls are granted in any window of one *)
(* hour, ends included, however often the agent restarts.                  *)
HourlyLimit ==
    \A i \in 1..Len(grants) : i + limit <= Len(grants) => grants[i] + Hour < grants[i + limit]

(* The same, with any state file: it takes a restart that lost a grant to  *)
(* exceed the limit.  A failed save alone (ai_guard.go:30-34) does not.    *)
RollingLimit == ~forgotten => HourlyLimit

(* Allow (ai_guard.go:41-43): a call is denied only if `limit' calls were  *)
(* granted within the last hour, whatever the state file has been through: *)
(* a restart or a failed save never makes the agent stricter.              *)
DenialJustified ==
    [][caller = "idle" /\ caller' = "limited" =>
        /\ limit <= Len(grants)
        /\ grants[Len(grants) - limit + 1] + Hour >= now]_vars
=============================================================================
