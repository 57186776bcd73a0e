------------------------------- MODULE Agent -------------------------------
(***************************************************************************)
(* From an alert to its notification: Alertmanager posts groups of alerts, *)
(* the handler HTTPServer.alerts submits them one after the other          *)
(* (internal/agent/http.go), the worker Processor.Run processes them and   *)
(* sends what came of it to Discord (pipeline.go, discord.go), and main    *)
(* stops all of it on a signal (cmd/agent/main.go).                        *)
(*                                                                         *)
(* Time is left out: a suppression expires at any moment.  Module Intake   *)
(* has Submit with its clock, module Processor what Process does.          *)
(***************************************************************************)
EXTENDS Naturals, Sequences, FiniteSets

CONSTANTS
    Groups,     \* alert groups, each notified on its own by Alertmanager
    Handlers,   \* goroutines of the HTTP server; bounds the open requests
    Keys,       \* incident keys
    Watched,    \* Config.WatchedServices
    Payload,    \* what Alertmanager posts for a group
    QueueSize,  \* capacity of Processor.queue
    Mode,       \* Config.Mode
    MaxFaults   \* bound: what goes wrong outside of the agent, and its stops

Alert == [firing : BOOLEAN, node : BOOLEAN, service : STRING, key : Keys]

ASSUME AgentAssumption ==
    /\ Groups # {} /\ Keys # {}
    /\ QueueSize \in Nat \ {0} /\ MaxFaults \in Nat
    /\ Mode \in {"detect", "shadow"}
    /\ Payload \in [Groups -> [firing : BOOLEAN, alerts : Seq(Alert)]]

VARIABLES
    conn,       \* where Alertmanager is with a group: its open request, "idle" or "again"
    phase,      \* where each handler is
    group,      \* the group it handles
    index,      \* the alert it is at
    seen,       \* keys under suppression
    queue,      \* the channel Processor.queue
    worker,     \* the goroutine of Run
    current,    \* its incident
    cancelled,  \* the context of main
    faults,     \* how many there were
    entered,    \* history: keys queued since their last suppression began
    over,       \* history: of those, the ones whose incident came to an end
    unheard     \* history: keys queued and not notified since

serverVars == <<conn, phase, group, index>>
workerVars == <<worker, current>>
vars == <<serverVars, seen, queue, workerVars, cancelled, faults, entered, over, unheard>>

Open == {"auth", "next", "send", "undo"}

Alerts(h) == Payload[group[h]].alerts
More(h) == index[h] <= Len(Alerts(h))
KeyAt(h) == Alerts(h)[index[h]].key

(* The loop does not pass over the alert.  A node alert is for the node it *)
(* names, any other for a watched service.                                 *)
Admissible(h) ==
    LET alert == Alerts(h)[index[h]]
    IN  /\ Payload[group[h]].firing /\ alert.firing
        /\ IF alert.node THEN alert.service # "" ELSE alert.service \in Watched

(* Handlers that hold a suppression of k they may still take back.         *)
Holders(k) == {h \in Handlers : phase[h] \in {"send", "undo"} /\ KeyAt(h) = k}

InMemory(k) == (\E i \in DOMAIN queue : queue[i] = k) \/ (worker \in {"processing", "sending"} /\ current = k)

TypeOK ==
    /\ conn \in [Groups -> Handlers \cup {"idle", "again"}]
    /\ phase \in [Handlers -> Open \cup {"free"}]
    /\ group \in [Handlers -> Groups]
    /\ index \in [Handlers -> Nat \ {0}]
    /\ \A h \in Handlers : phase[h] \in {"send", "undo"} => More(h)
    /\ seen \subseteq Keys
    /\ queue \in Seq(Keys) /\ Len(queue) <= QueueSize
    /\ worker \in {"waiting", "processing", "sending", "stopped"}
    /\ current \in Keys
    /\ cancelled \in BOOLEAN
    /\ faults \in 0..MaxFaults
    /\ entered \subseteq Keys /\ over \subseteq entered /\ unheard \subseteq Keys

(* The values of what is not in use.                                       *)
NoGroup == CHOOSE g \in Groups : TRUE
NoKey == CHOOSE k \in Keys : TRUE

Init ==
    /\ conn = [g \in Groups |-> "idle"]
    /\ phase = [h \in Handlers |-> "free"]
    /\ group = [h \in Handlers |-> NoGroup]
    /\ index = [h \in Handlers |-> 1]
    /\ seen = {} /\ queue = <<>>
    /\ worker = "waiting" /\ current = NoKey
    /\ cancelled = FALSE
    /\ faults = 0
    /\ entered = {} /\ over = {} /\ unheard = {}

Fault == faults < MaxFaults /\ faults' = faults + 1

-----------------------------------------------------------------------------
(* Alertmanager.                                                           *)

(* A request for a group: for the first time, because the last one was not *)
(* answered or answered 503, or because its alerts still fire.             *)
Notify(g, h) ==
    /\ conn[g] \in {"idle", "again"} /\ phase[h] = "free"
    /\ conn' = [conn EXCEPT ![g] = h]
    /\ phase' = [phase EXCEPT ![h] = "auth"]
    /\ group' = [group EXCEPT ![h] = g]
    /\ UNCHANGED <<index, seen, queue, workerVars, cancelled, faults, entered, over, unheard>>

(* Alertmanager does not wait any longer.  The handler goes on.            *)
Abandon(g) ==
    /\ conn[g] \in Handlers /\ Fault
    /\ conn' = [conn EXCEPT ![g] = "again"]
    /\ UNCHANGED <<phase, group, index, seen, queue, workerVars, cancelled, entered, over, unheard>>

-----------------------------------------------------------------------------
(* HTTPServer.alerts.                                                      *)

(* The handler returns.  Its answer makes Alertmanager go to state r, if   *)
(* it still waits for it.                                                  *)
Answer(h, r) ==
    /\ conn' = [g \in Groups |-> IF conn[g] = h THEN r ELSE conn[g]]
    /\ phase' = [phase EXCEPT ![h] = "free"]
    /\ group' = [group EXCEPT ![h] = NoGroup]
    /\ index' = [index EXCEPT ![h] = 1]

Goto(h, p) == phase' = [phase EXCEPT ![h] = p] /\ UNCHANGED <<conn, group, index>>

(* Submit returned true: the next alert.                                   *)
Advance(h) ==
    /\ phase' = [phase EXCEPT ![h] = "next"]
    /\ index' = [index EXCEPT ![h] = @ + 1]
    /\ UNCHANGED <<conn, group>>

(* The token is the one of Alertmanager's service account, and the payload *)
(* is decoded.                                                             *)
Authenticate(h) ==
    /\ phase[h] = "auth"
    /\ Goto(h, "next")
    /\ UNCHANGED <<seen, queue, workerVars, cancelled, faults, entered, over, unheard>>

(* The Kubernetes API does not answer the token review, or the request has *)
(* gone, and the review with it: 503.                                      *)
AuthUnavailable(h) ==
    /\ phase[h] = "auth"
    /\ Fault \/ ((\A g \in Groups : conn[g] # h) /\ UNCHANGED faults)
    /\ Answer(h, "again")
    /\ UNCHANGED <<seen, queue, workerVars, cancelled, entered, over, unheard>>

(* 401 or 400, which Alertmanager does not repeat.                         *)
Refuse(h) ==
    /\ phase[h] = "auth" /\ Fault
    /\ Answer(h, "idle")
    /\ UNCHANGED <<seen, queue, workerVars, cancelled, entered, over, unheard>>

(* continue                                                                *)
Skip(h) ==
    /\ phase[h] = "next" /\ More(h) /\ ~Admissible(h)
    /\ Advance(h)
    /\ UNCHANGED <<seen, queue, workerVars, cancelled, faults, entered, over, unheard>>

(* Submit: the key is under suppression.                                   *)
Duplicate(h) ==
    /\ phase[h] = "next" /\ More(h) /\ Admissible(h) /\ KeyAt(h) \in seen
    /\ Advance(h)
    /\ UNCHANGED <<seen, queue, workerVars, cancelled, faults, entered, over, unheard>>

(* Submit: it is not, and now it is.                                       *)
Suppress(h) ==
    /\ phase[h] = "next" /\ More(h) /\ Admissible(h) /\ KeyAt(h) \notin seen
    /\ seen' = seen \cup {KeyAt(h)}
    /\ Goto(h, "send")
    /\ UNCHANGED <<queue, workerVars, cancelled, faults, entered, over, unheard>>

(* Mutation: room for one incident too many.                               *)
EnqueueOver(h) ==
    /\ phase[h] = "send" /\ Len(queue) <= QueueSize
    /\ queue' = Append(queue, KeyAt(h))
    /\ entered' = entered \cup {KeyAt(h)} /\ over' = over \ {KeyAt(h)}
    /\ unheard' = unheard \cup {KeyAt(h)}
    /\ Advance(h)
    /\ UNCHANGED <<seen, workerVars, cancelled, faults>>

(* Submit: there is room in the queue.                                     *)
Enqueue(h) ==
    /\ phase[h] = "send" /\ Len(queue) < QueueSize
    /\ queue' = Append(queue, KeyAt(h))
    /\ entered' = entered \cup {KeyAt(h)} /\ over' = over \ {KeyAt(h)}
    /\ unheard' = unheard \cup {KeyAt(h)}
    /\ Advance(h)
    /\ UNCHANGED <<seen, workerVars, cancelled, faults>>

(* Mutation: the handler waits for room.                                   *)
FullWaits(h) == phase[h] = "send" /\ Len(queue) >= QueueSize /\ UNCHANGED vars

(* Submit: there is none.                                                  *)
Full(h) ==
    /\ phase[h] = "send" /\ Len(queue) >= QueueSize
    /\ Goto(h, "undo")
    /\ UNCHANGED <<seen, queue, workerVars, cancelled, faults, entered, over, unheard>>

(* Mutation: the alert that was rejected stays suppressed.                 *)
RejectKeeps(h) ==
    /\ phase[h] = "undo"
    /\ Answer(h, "again")
    /\ UNCHANGED <<seen, queue, workerVars, cancelled, faults, entered, over, unheard>>

(* Mutation: the whole batch is taken back.                                *)
RejectAll(h) ==
    /\ phase[h] = "undo"
    /\ seen' = seen \ {Alerts(h)[i].key : i \in 1..index[h]}
    /\ Answer(h, "again")
    /\ UNCHANGED <<queue, workerVars, cancelled, faults, entered, over, unheard>>

(* Submit takes the suppression back and returns false; the handler leaves *)
(* the rest of the batch alone and answers 503.                            *)
Reject(h) ==
    /\ phase[h] = "undo"
    /\ seen' = seen \ {KeyAt(h)}
    /\ Answer(h, "again")
    /\ UNCHANGED <<queue, workerVars, cancelled, faults, entered, over, unheard>>

(* Every alert of the batch is dealt with: 202.                            *)
Accept(h) ==
    /\ phase[h] = "next" /\ ~More(h)
    /\ Answer(h, "idle")
    /\ UNCHANGED <<seen, queue, workerVars, cancelled, faults, entered, over, unheard>>

-----------------------------------------------------------------------------
(* Processor.Run.                                                          *)

(* The worker may still take an incident when the context has ended.       *)
Take ==
    /\ worker = "waiting" /\ queue # <<>>
    /\ current' = Head(queue) /\ queue' = Tail(queue)
    /\ worker' = "processing"
    /\ UNCHANGED <<serverVars, seen, cancelled, faults, entered, over, unheard>>

(* The iteration is over, and nothing will be done for its incident again. *)
Iterate(next) ==
    /\ worker' = next
    /\ current' = NoKey
    /\ over' = over \cup ({current} \cap entered)

(* Process returns and Send starts its request.                            *)
StartSend ==
    /\ worker = "processing" /\ Mode = "detect" /\ ~cancelled
    /\ worker' = "sending"
    /\ UNCHANGED <<serverVars, seen, queue, current, cancelled, faults, entered, over, unheard>>

(* Process returns, and nothing is sent: the mode forbids it, or the       *)
(* context has ended and Send fails at once.                               *)
Withhold ==
    /\ worker = "processing" /\ (Mode = "shadow" \/ cancelled)
    /\ Iterate("waiting")
    /\ UNCHANGED <<serverVars, seen, queue, cancelled, faults, entered, unheard>>

(* Discord has the message.                                                *)
SendOk ==
    /\ worker = "sending"
    /\ unheard' = unheard \ {current}
    /\ Iterate("waiting")
    /\ UNCHANGED <<serverVars, seen, queue, cancelled, faults, entered>>

(* Mutation: the loop ends with an error.                                  *)
SendFailsReturns ==
    /\ worker = "sending" /\ Fault
    /\ Iterate("stopped")
    /\ UNCHANGED <<serverVars, seen, queue, cancelled, entered, unheard>>

(* Send returns an error, which is only logged.                            *)
SendFails ==
    /\ worker = "sending" /\ Fault
    /\ Iterate("waiting")
    /\ UNCHANGED <<serverVars, seen, queue, cancelled, entered, unheard>>

(* The context ends while Discord is waited for.                           *)
SendCut ==
    /\ worker = "sending" /\ cancelled
    /\ Iterate("waiting")
    /\ UNCHANGED <<serverVars, seen, queue, cancelled, faults, entered, unheard>>

(* case <-ctx.Done()                                                       *)
Stop ==
    /\ worker = "waiting" /\ cancelled
    /\ worker' = "stopped"
    /\ UNCHANGED <<serverVars, seen, queue, current, cancelled, faults, entered, over, unheard>>

-----------------------------------------------------------------------------
(* main, and time.                                                         *)

(* Mutation: an entry suppresses whatever its expiry is.                   *)
ExpireNever(k) == k \in seen /\ FALSE /\ UNCHANGED vars

(* The suppression of k is past its cooldown.  No Submit takes that long.  *)
Expire(k) ==
    /\ k \in seen /\ Holders(k) = {}
    /\ seen' = seen \ {k} /\ entered' = entered \ {k} /\ over' = over \ {k}
    /\ UNCHANGED <<serverVars, queue, workerVars, cancelled, faults, unheard>>

(* SIGINT or SIGTERM.                                                      *)
Signal ==
    /\ ~cancelled /\ Fault
    /\ cancelled' = TRUE
    /\ UNCHANGED <<serverVars, seen, queue, workerVars, entered, over, unheard>>

(* The process ends, and with it requests, queue and suppressions, and is  *)
(* started again.                                                          *)
Restart ==
    /\ conn' = [g \in Groups |-> IF conn[g] = "idle" THEN "idle" ELSE "again"]
    /\ phase' = [h \in Handlers |-> "free"]
    /\ group' = [h \in Handlers |-> NoGroup]
    /\ index' = [h \in Handlers |-> 1]
    /\ seen' = {} /\ queue' = <<>>
    /\ worker' = "waiting" /\ current' = NoKey
    /\ cancelled' = FALSE
    /\ entered' = {} /\ over' = {}
    /\ UNCHANGED unheard

(* ListenAndServe returns when Shutdown begins, and run after it, whatever *)
(* handlers and worker are at.                                             *)
Exit == cancelled /\ Restart /\ UNCHANGED faults

(* The process is killed.                                                  *)
Crash == Fault /\ Restart

-----------------------------------------------------------------------------
Handle(h) ==
    \/ Authenticate(h) \/ AuthUnavailable(h) \/ Refuse(h)
    \/ Skip(h) \/ Duplicate(h) \/ Suppress(h) \/ Enqueue(h) \/ Full(h) \/ Reject(h)
    \/ Accept(h)

Run == Take \/ StartSend \/ Withhold \/ SendOk \/ SendFails \/ SendCut \/ Stop

Next ==
    \/ \E h \in Handlers : Handle(h) \/ \E g \in Groups : Notify(g, h)
    \/ \E g \in Groups : Abandon(g)
    \/ Run
    \/ \E k \in Keys : Expire(k)
    \/ Signal \/ Exit \/ Crash

Spec == Init /\ [][Next]_vars

(* A handler waits for the token review, which has a timeout, and for the  *)
(* body of the request, which has none (main.go:47): that Alertmanager     *)
(* sends what it began to send is assumed.  Alertmanager repeats a group   *)
(* as long as it fires; run returns.  The worker may hang: that it does    *)
(* not is a premise where it is needed.                                    *)
FairSpec ==
    /\ Spec
    /\ \A h \in Handlers : WF_vars(Handle(h))
    /\ \A g \in Groups : WF_vars(\E h \in Handlers : Notify(g, h))
    /\ WF_vars(Exit)

-----------------------------------------------------------------------------
(* Properties.                                                             *)

(* alerts, Submit and Run (http.go:90-135, pipeline.go:100-152): no        *)
(* suppression is left behind by a batch that was rejected, abandoned or   *)
(* repeated.  One that no handler can still take back was set for an alert *)
(* that entered the queue, and this alert is in the queue or with the      *)
(* worker until its iteration ends, be it with a Send that failed: the     *)
(* suppression may outlive that.  While a handler holds a suppression      *)
(* between its two critical sections nothing is said: a repeated alert may *)
(* then be answered as a duplicate of one that is rejected after all       *)
(* (Intake's AcknowledgedIsQueued).                                        *)
Accounted ==
    /\ \A k \in seen : Holders(k) = {} => k \in entered
    /\ \A k \in entered \ over : InMemory(k)

(* alerts and Submit (http.go:129-134, pipeline.go:109-125): however often *)
(* a batch is abandoned, rejected and sent again, also while an earlier    *)
(* request for it is still being handled, no alert of it enters the queue  *)
(* twice under one suppression.                                            *)
OncePerSuppression ==
    [][\A k \in Keys : k \in entered => Len(queue') <= Len(queue) \/ queue'[Len(queue')] # k]_vars

(* alerts (http.go:65-137): a request whose body arrives is answered       *)
(* although the worker may hang for ever: Submit does not wait for room.   *)
RequestsReturn == \A h \in Handlers : phase[h] # "free" ~> phase[h] = "free"

(* alerts (http.go:129-134): a batch that is larger than the queue gets    *)
(* through in the end: each time Alertmanager repeats it, the alerts that  *)
(* were accepted are passed over and more find room.  It needs a worker    *)
(* that goes on and suppressions that outlast the repetitions.             *)
BatchGetsThrough ==
    WF_vars(Run) /\ <>[][\A k \in Keys : ~Expire(k)]_vars =>
        \A g \in Groups : conn[g] # "idle" ~> conn[g] = "idle"

(* Run and run (pipeline.go:145-146, main.go:49-62): neither a failed      *)
(* notification nor a stop that loses what is in memory is final: while an *)
(* alert fires, it is queued again after its cooldown, and heard of in the *)
(* end.  It needs batches that get through and a worker that goes on.      *)
HeardAtLast ==
    /\ WF_vars(Run) /\ \A k \in Keys : WF_vars(Expire(k))
    /\ \A g \in Groups : []<>(conn[g] = "idle")
    => \A k \in Keys : Mode = "detect" /\ k \in unheard ~> k \notin unheard
=============================================================================
