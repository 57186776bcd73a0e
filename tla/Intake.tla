------------------------------- MODULE Intake -------------------------------
(***************************************************************************)
(* Incident intake: Processor.Submit, called at the same time by the HTTP  *)
(* handlers and the discovery loop, and the loop Processor.Run that drains *)
(* the queue (internal/agent/pipeline.go).                                 *)
(*                                                                         *)
(* Submit is five steps another goroutine can come between: it reads the   *)
(* time, looks at the suppression table `seen' under seenMu, tries the     *)
(* channel without the lock, and then counts the incident or takes the     *)
(* suppression back.  An incident is represented by its key (Incident.Key).*)
(* What Process does with one is the subject of module Processor.          *)
(***************************************************************************)
EXTENDS Naturals, Sequences, FiniteSets

CONSTANTS
    Threads,    \* goroutines that call Submit
    Keys,       \* incident keys
    QueueSize,  \* capacity of Processor.queue
    Cooldown,   \* Config.Cooldown, in clock units
    MaxStall,   \* longest time from time.Now() to the end of one Submit
    MaxTime     \* bound: the clock of the model stops here

(* NewProcessor raises QueueSize to 1.  That no call of Submit is delayed  *)
(* as long as a cooldown (ten minutes by default) is assumed: the code     *)
(* does not enforce it.                                                    *)
ASSUME IntakeAssumption ==
    /\ IsFiniteSet(Threads)
    /\ QueueSize \in Nat \ {0}
    /\ Cooldown \in Nat /\ MaxStall \in Nat /\ MaxTime \in Nat
    /\ MaxStall < Cooldown

VARIABLES
    clock,      \* time.Now()
    seen,       \* expiry of the suppression of a key, Never when absent
    queue,      \* the channel Processor.queue
    pc,         \* where each caller is in Submit
    key,        \* its incident
    at,         \* its `now'
    result,     \* what its last call returned, and why
    consumer,   \* the goroutine of Run
    cancelled,  \* the context of Run
    received,   \* Stats.Received
    processed,  \* Stats.Processed
    last        \* history: when a key last entered the queue

callerVars   == <<pc, key, at, result>>
consumerVars == <<consumer, processed>>
vars == <<clock, seen, queue, callerVars, consumerVars, cancelled, received, last>>

Never == 0

InFlight == {"lock", "send", "undo"}

(* Threads that hold a suppression of k they may still take back.          *)
Holders(k) == {t \in Threads : pc[t] \in {"send", "undo"} /\ key[t] = k}

TypeOK ==
    /\ clock \in Nat \ {0}
    /\ seen \in [Keys -> Nat]
    /\ queue \in Seq(Keys)
    /\ Len(queue) <= QueueSize
    /\ pc \in [Threads -> {"idle", "count"} \cup InFlight]
    /\ key \in [Threads -> Keys]
    /\ at \in [Threads -> Nat]
    /\ result \in [Threads -> {"none", "queued", "duplicate", "full"}]
    /\ consumer \in {"waiting", "working", "stopped"}
    /\ cancelled \in BOOLEAN
    /\ received \in Nat
    /\ processed \in Nat
    /\ last \in [Keys -> Nat]

Init ==
    /\ clock = 1
    /\ seen = [k \in Keys |-> Never]
    /\ queue = <<>>
    /\ pc = [t \in Threads |-> "idle"]
    /\ key \in [Threads -> Keys]
    /\ at = [t \in Threads |-> 0]
    /\ result = [t \in Threads |-> "none"]
    /\ consumer = "waiting"
    /\ cancelled = FALSE
    /\ received = 0
    /\ processed = 0
    /\ last = [k \in Keys |-> Never]

-----------------------------------------------------------------------------
(* Submit.                                                                 *)

(* now := time.Now(); key := incident.Key()                                *)
Call(t, k) ==
    /\ pc[t] = "idle"
    /\ pc' = [pc EXCEPT ![t] = "lock"]
    /\ key' = [key EXCEPT ![t] = k]
    /\ at' = [at EXCEPT ![t] = clock]
    /\ result' = [result EXCEPT ![t] = "none"]
    /\ UNCHANGED <<clock, seen, queue, consumerVars, cancelled, received, last>>

(* Mutation: the loop drops what has not expired.                          *)
PurgedInverted(now) == [k \in Keys |-> IF now < seen[k] THEN Never ELSE seen[k]]

(* The table after the loop that drops what has expired: now.After(exp).   *)
Purged(now) == [k \in Keys |-> IF now > seen[k] THEN Never ELSE seen[k]]

(* Mutation: an entry stops suppressing one unit early.                    *)
DuplicateEarly(t) == at[t] + 1 < seen[key[t]]

(* An entry that expires exactly now survives the loop but suppresses      *)
(* nothing.                                                                *)
Duplicate(t) == at[t] < seen[key[t]]

(* The first critical section of Submit, for a key under suppression.      *)
CheckDuplicate(t) ==
    /\ pc[t] = "lock"
    /\ Duplicate(t)
    /\ seen' = Purged(at[t])
    /\ pc' = [pc EXCEPT ![t] = "idle"]
    /\ result' = [result EXCEPT ![t] = "duplicate"]
    /\ UNCHANGED <<clock, queue, key, at, consumerVars, cancelled, received, last>>

(* Mutation: the suppression is never written.                             *)
CheckNewForgets(t) ==
    /\ pc[t] = "lock"
    /\ ~Duplicate(t)
    /\ seen' = Purged(at[t])
    /\ pc' = [pc EXCEPT ![t] = "send"]
    /\ UNCHANGED <<clock, queue, key, at, result, consumerVars, cancelled, received, last>>

(* The first critical section of Submit, for a key that is not.            *)
CheckNew(t) ==
    /\ pc[t] = "lock"
    /\ ~Duplicate(t)
    /\ seen' = [Purged(at[t]) EXCEPT ![key[t]] = at[t] + Cooldown]
    /\ pc' = [pc EXCEPT ![t] = "send"]
    /\ UNCHANGED <<clock, queue, key, at, result, consumerVars, cancelled, received, last>>

(* Mutation: room for one incident too many.                               *)
SendQueuedOver(t) ==
    /\ pc[t] = "send"
    /\ Len(queue) <= QueueSize
    /\ queue' = Append(queue, key[t])
    /\ last' = [last EXCEPT ![key[t]] = clock]
    /\ pc' = [pc EXCEPT ![t] = "count"]
    /\ UNCHANGED <<clock, seen, key, at, result, consumerVars, cancelled, received>>

(* The select on the channel, which never waits.                           *)
SendQueued(t) ==
    /\ pc[t] = "send"
    /\ Len(queue) < QueueSize
    /\ queue' = Append(queue, key[t])
    /\ last' = [last EXCEPT ![key[t]] = clock]
    /\ pc' = [pc EXCEPT ![t] = "count"]
    /\ UNCHANGED <<clock, seen, key, at, result, consumerVars, cancelled, received>>

(* Mutation: a send that failed is counted as received.                    *)
SendFullCounted(t) ==
    /\ pc[t] = "send"
    /\ Len(queue) >= QueueSize
    /\ pc' = [pc EXCEPT ![t] = "count"]
    /\ UNCHANGED <<clock, seen, queue, key, at, result, consumerVars, cancelled, received, last>>

(* The default case: the channel is full.                                  *)
SendFull(t) ==
    /\ pc[t] = "send"
    /\ Len(queue) >= QueueSize
    /\ pc' = [pc EXCEPT ![t] = "undo"]
    /\ UNCHANGED <<clock, seen, queue, key, at, result, consumerVars, cancelled, received, last>>

(* Stats.Received.Add(1); return true                                      *)
Count(t) ==
    /\ pc[t] = "count"
    /\ received' = received + 1
    /\ pc' = [pc EXCEPT ![t] = "idle"]
    /\ result' = [result EXCEPT ![t] = "queued"]
    /\ UNCHANGED <<clock, seen, queue, key, at, consumerVars, cancelled, last>>

(* Mutation: a rejected incident stays suppressed.                         *)
UndoForgotten(t) ==
    /\ pc[t] = "undo"
    /\ pc' = [pc EXCEPT ![t] = "idle"]
    /\ result' = [result EXCEPT ![t] = "full"]
    /\ UNCHANGED <<clock, seen, queue, key, at, consumerVars, cancelled, received, last>>

(* The second critical section: delete(p.seen, key); return false          *)
Undo(t) ==
    /\ pc[t] = "undo"
    /\ seen' = [seen EXCEPT ![key[t]] = Never]
    /\ pc' = [pc EXCEPT ![t] = "idle"]
    /\ result' = [result EXCEPT ![t] = "full"]
    /\ UNCHANGED <<clock, queue, key, at, consumerVars, cancelled, received, last>>

-----------------------------------------------------------------------------
(* Run.                                                                    *)

(* case incident := <-p.queue, with the first statement of Process.  The   *)
(* select may take it even when the context is done.                       *)
Take ==
    /\ consumer = "waiting"
    /\ queue # <<>>
    /\ queue' = Tail(queue)
    /\ processed' = processed + 1
    /\ consumer' = "working"
    /\ UNCHANGED <<clock, seen, callerVars, cancelled, received, last>>

(* The rest of the iteration: Process, then Send or Suppressed.  An error  *)
(* of Send is logged and the loop goes on.                                 *)
Finish ==
    /\ consumer = "working"
    /\ consumer' = "waiting"
    /\ UNCHANGED <<clock, seen, queue, callerVars, processed, cancelled, received, last>>

(* case <-ctx.Done(): what is in the queue stays there.                    *)
Stop ==
    /\ consumer = "waiting"
    /\ cancelled
    /\ consumer' = "stopped"
    /\ UNCHANGED <<clock, seen, queue, callerVars, processed, cancelled, received, last>>

(* SIGINT or SIGTERM ends the context; HTTP handlers may still be running. *)
Cancel ==
    /\ ~cancelled
    /\ cancelled' = TRUE
    /\ UNCHANGED <<clock, seen, queue, callerVars, consumerVars, received, last>>

(* Time passes, but not past MaxStall for a caller that is in Submit.      *)
Tick ==
    /\ clock < MaxTime
    /\ \A t \in Threads : pc[t] \in InFlight => clock < at[t] + MaxStall
    /\ clock' = clock + 1
    /\ UNCHANGED <<seen, queue, callerVars, consumerVars, cancelled, received, last>>

-----------------------------------------------------------------------------
Submit(t) ==
    \/ CheckDuplicate(t)
    \/ CheckNew(t)
    \/ SendQueued(t)
    \/ SendFull(t)
    \/ Count(t)
    \/ Undo(t)

Run == Take \/ Finish \/ Stop

Next ==
    \/ \E t \in Threads : Submit(t) \/ \E k \in Keys : Call(t, k)
    \/ Run
    \/ Cancel
    \/ Tick

Spec == Init /\ [][Next]_vars

-----------------------------------------------------------------------------
(* Properties.                                                             *)

Enters(k) == Len(queue') > Len(queue) /\ queue'[Len(queue')] = k

(* Submit (pipeline.go:100-127): a key never enters the queue twice within *)
(* a cooldown, less the time a call may be delayed between reading the     *)
(* clock and sending, however callers interleave and whatever is undone.   *)
DedupWindow ==
    [][\A k \in Keys : Enters(k) /\ last[k] # Never => clock + MaxStall >= last[k] + Cooldown]_vars

(* Submit (pipeline.go:114-124): a suppression that outlives the call that *)
(* made it stands for an incident that did enter the queue, no earlier     *)
(* than one cooldown before it expires; a rejected incident leaves none.   *)
SuppressionBacked ==
    \A k \in Keys :
        seen[k] # Never /\ Holders(k) = {} => last[k] # Never /\ last[k] + Cooldown >= seen[k]

(* Submit (pipeline.go:113-124): at most one caller is between setting and *)
(* settling the suppression of a key, and the entry is its own: the delete *)
(* on a full queue never removes the suppression another caller set.       *)
UndoOwnsEntry ==
    \A t \in Threads : pc[t] \in {"send", "undo"} =>
        /\ seen[key[t]] = at[t] + Cooldown
        /\ Holders(key[t]) = {t}

(* Submit and Run (pipeline.go:118-119, 134, 155): no incident is lost or  *)
(* made up between the counters: what was received, or is about to be      *)
(* counted, was processed or is in the queue.                              *)
Conservation ==
    received + Cardinality({t \in Threads : pc[t] = "count"}) = processed + Len(queue)

(* Intake implements Admission: one atomic step admits a key, at most once *)
(* in Cooldown less MaxStall (pipeline.go:100-152).                        *)
Abstract == INSTANCE Admission
    WITH now <- clock, pending <- queue, admitted <- last, Gap <- Cooldown - MaxStall
ImplementsAdmission == Abstract!Spec

(* What http_test.go:32-41 expects of an alert that was answered 202 ("alert *)
(* was not submitted"): when Submit has returned true for a key and nobody *)
(* is still working on that key, it has entered the queue.                 *)
AcknowledgedIsQueued ==
    \A t \in Threads :
        result[t] \in {"queued", "duplicate"} /\ Holders(key[t]) = {} => last[key[t]] # Never
=============================================================================
