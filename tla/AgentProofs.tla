----------------------------- MODULE AgentProofs -----------------------------
(***************************************************************************)
(* Proofs about Agent, for any groups of alerts, any number of requests    *)
(* and any queue size.                                                     *)
(***************************************************************************)
EXTENDS Agent, SequenceTheorems, TLAPS

(* A handler is between Submit's two critical sections.                    *)
Holding(h) == phase[h] \in {"send", "undo"}

(* It holds a suppression that has queued nothing yet.                     *)
HeldIsNew == \A h \in Handlers : Holding(h) => KeyAt(h) \in seen /\ KeyAt(h) \notin entered

(* No two handlers hold the suppression of one key.                        *)
SoleHolder ==
    \A h, i \in Handlers : Holding(h) /\ Holding(i) /\ KeyAt(h) = KeyAt(i) => h = i

(* What entered under a suppression is still suppressed.                   *)
EnteredIsSeen == entered \subseteq seen

(* What TypeOK says of the requests.                                       *)
ServerOK ==
    /\ conn \in [Groups -> Handlers \cup {"idle", "again"}]
    /\ phase \in [Handlers -> Open \cup {"free"}]
    /\ group \in [Handlers -> Groups]
    /\ index \in [Handlers -> Nat \ {0}]
    /\ \A h \in Handlers : phase[h] \in {"send", "undo"} => More(h)

(* The two parts of Accounted.                                             *)
SeenIsTaken == \A k \in seen : k \in entered \/ \E h \in Handlers : Holding(h) /\ KeyAt(h) = k
EnteredIsKept == \A k \in entered \ over : InMemory(k)

HeldInv == HeldIsNew /\ SoleHolder /\ EnteredIsSeen /\ SeenIsTaken
AInv == TypeOK /\ HeldInv /\ EnteredIsKept

-----------------------------------------------------------------------------
(* The alert a handler is at has a key.                                    *)
LEMMA KeyType ==
    ASSUME TypeOK, NEW h \in Handlers, More(h)
    PROVE  KeyAt(h) \in Keys
<1>1. Alerts(h) \in Seq(Alert)
    BY AgentAssumption DEF AgentAssumption, TypeOK, Alerts
<1>2. index[h] \in 1..Len(Alerts(h))
    BY <1>1, LenProperties DEF TypeOK, More
<1>3. Alerts(h)[index[h]] \in Alert
    BY <1>1, <1>2, ElementOfSeq
<1> QED
    BY <1>3 DEF KeyAt, Alert

(* The values of what is not in use have their types.                      *)
LEMMA Unused == NoGroup \in Groups /\ NoKey \in Keys
    BY AgentAssumption DEF AgentAssumption, NoGroup, NoKey

(* The initial state has its types.                                        *)
LEMMA InitTypeOK == Init => TypeOK
<1> SUFFICES ASSUME Init PROVE TypeOK
    OBVIOUS
<1>1. queue \in Seq(Keys) /\ Len(queue) <= QueueSize
    BY EmptySeq, AgentAssumption DEF Init, AgentAssumption
<1>2. conn \in [Groups -> Handlers \cup {"idle", "again"}]
    BY DEF Init
<1>3. phase \in [Handlers -> Open \cup {"free"}] /\ \A h \in Handlers : phase[h] = "free"
    BY DEF Init
<1>4. group \in [Handlers -> Groups] /\ index \in [Handlers -> Nat \ {0}]
    BY Unused DEF Init
<1>5. faults \in 0..MaxFaults
    BY AgentAssumption DEF Init, AgentAssumption
<1> QED
    BY <1>1, <1>2, <1>3, <1>4, <1>5, Unused DEF Init, TypeOK

(* The answer to a request.                                                *)
LEMMA AnswerType ==
    ASSUME TypeOK, NEW h \in Handlers, NEW r \in {"idle", "again"}, Answer(h, r)
    PROVE  ServerOK'
<1>1. conn' \in [Groups -> Handlers \cup {"idle", "again"}]
    BY DEF Answer, TypeOK
<1>2. /\ phase' \in [Handlers -> Open \cup {"free"}]
      /\ group' \in [Handlers -> Groups]
      /\ index' \in [Handlers -> Nat \ {0}]
    BY Unused DEF Answer, TypeOK
<1>3. \A i \in Handlers : phase'[i] \in {"send", "undo"} => More(i)'
    BY DEF Answer, TypeOK, More, Alerts
<1> QED
    BY <1>1, <1>2, <1>3 DEF ServerOK

(* The next alert of the batch.                                            *)
LEMMA AdvanceType ==
    ASSUME TypeOK, NEW h \in Handlers, Advance(h)
    PROVE  ServerOK'
<1>1. /\ phase' \in [Handlers -> Open \cup {"free"}]
      /\ index' \in [Handlers -> Nat \ {0}]
    BY DEF Advance, TypeOK, Open
<1>2. \A i \in Handlers : phase'[i] \in {"send", "undo"} => More(i)'
    BY DEF Advance, TypeOK, More, Alerts
<1> QED
    BY <1>1, <1>2 DEF Advance, TypeOK, ServerOK

(* The next step for the same alert.                                       *)
LEMMA GotoType ==
    ASSUME TypeOK, NEW h \in Handlers, NEW p \in Open, Goto(h, p),
           p \in {"send", "undo"} => More(h)
    PROVE  ServerOK'
<1>1. phase' \in [Handlers -> Open \cup {"free"}]
    BY DEF Goto, TypeOK
<1>2. \A i \in Handlers : phase'[i] \in {"send", "undo"} => More(i)'
    BY DEF Goto, TypeOK, More, Alerts
<1> QED
    BY <1>1, <1>2 DEF Goto, TypeOK, ServerOK

(* The requests do not change.                                             *)
LEMMA SameServerType == TypeOK /\ UNCHANGED serverVars => ServerOK'
    BY DEF TypeOK, ServerOK, serverVars, More, Alerts

(* The end of an iteration of Run.                                         *)
LEMMA IterateType ==
    ASSUME TypeOK, NEW w \in {"waiting", "stopped"}, Iterate(w), entered' = entered
    PROVE  worker' \in {"waiting", "stopped"} /\ current' \in Keys /\ over' \subseteq entered'
    BY Unused DEF Iterate, TypeOK

(* A fault that is counted leaves the count within its bound.              *)
LEMMA FaultType == TypeOK /\ Fault => faults' \in 0..MaxFaults
    BY AgentAssumption DEF AgentAssumption, TypeOK, Fault

(* What TypeOK says of the queue and the worker.                           *)
RestOK ==
    /\ seen \subseteq Keys
    /\ queue \in Seq(Keys) /\ Len(queue) <= QueueSize
    /\ worker \in {"waiting", "processing", "sending", "stopped"}
    /\ current \in Keys
    /\ cancelled \in BOOLEAN
    /\ faults \in 0..MaxFaults
    /\ entered \subseteq Keys /\ over \subseteq entered /\ unheard \subseteq Keys

(* Every step of a request leaves everything in its type.                  *)
LEMMA HandleType ==
    ASSUME TypeOK, NEW h \in Handlers, Handle(h)
    PROVE  ServerOK' /\ RestOK'
<1> USE DEF RestOK, workerVars
<1>1. CASE Authenticate(h)
    BY <1>1, GotoType DEF Authenticate, TypeOK, Open
<1>2. CASE AuthUnavailable(h)
    BY <1>2, AnswerType, FaultType DEF AuthUnavailable, TypeOK
<1>3. CASE Refuse(h)
    BY <1>3, AnswerType, FaultType DEF Refuse, TypeOK
<1>4. CASE Skip(h)
    BY <1>4, AdvanceType DEF Skip, TypeOK
<1>5. CASE Duplicate(h)
    BY <1>5, AdvanceType DEF Duplicate, TypeOK
<1>6. CASE Suppress(h)
    BY <1>6, GotoType, KeyType DEF Suppress, TypeOK, Open
<1>7. CASE Enqueue(h)
  <2>1. KeyAt(h) \in Keys
    BY <1>7, KeyType DEF Enqueue, TypeOK
  <2>2. queue' \in Seq(Keys) /\ Len(queue') = Len(queue) + 1 /\ Len(queue) \in Nat
    BY <1>7, <2>1, AppendProperties, LenProperties DEF Enqueue, TypeOK
  <2>3. Len(queue') <= QueueSize
    BY <1>7, <2>2, AgentAssumption DEF Enqueue, AgentAssumption
  <2> QED
    BY <1>7, <2>1, <2>2, <2>3, AdvanceType DEF Enqueue, TypeOK
<1>8. CASE Full(h)
    BY <1>8, GotoType DEF Full, TypeOK, Open
<1>9. CASE Reject(h)
    BY <1>9, AnswerType DEF Reject, TypeOK
<1>10. CASE Accept(h)
    BY <1>10, AnswerType DEF Accept, TypeOK
<1> QED
    BY <1>1, <1>2, <1>3, <1>4, <1>5, <1>6, <1>7, <1>8, <1>9, <1>10 DEF Handle

(* So does every step of the worker.                                       *)
LEMMA RunType == ASSUME TypeOK, Run PROVE ServerOK' /\ RestOK'
<1> USE SameServerType DEF RestOK
<1>1. CASE Take
  <2>1. Head(queue) \in Keys /\ Tail(queue) \in Seq(Keys) /\ Len(Tail(queue)) = Len(queue) - 1
        /\ Len(queue) \in Nat
    BY <1>1, HeadTailProperties, LenProperties DEF Take, TypeOK
  <2>2. Len(queue') <= QueueSize
    BY <1>1, <2>1, AgentAssumption DEF Take, TypeOK, AgentAssumption
  <2> QED
    BY <1>1, <2>1, <2>2 DEF Take, TypeOK
<1>2. CASE StartSend
    BY <1>2 DEF StartSend, TypeOK
<1>3. CASE Withhold
    BY <1>3, IterateType DEF Withhold, TypeOK
<1>4. CASE SendOk
    BY <1>4, IterateType DEF SendOk, TypeOK
<1>5. CASE SendFails
    BY <1>5, IterateType, FaultType DEF SendFails, TypeOK
<1>6. CASE SendCut
    BY <1>6, IterateType DEF SendCut, TypeOK
<1>7. CASE Stop
    BY <1>7 DEF Stop, TypeOK
<1> QED
    BY <1>1, <1>2, <1>3, <1>4, <1>5, <1>6, <1>7 DEF Run

(* And a new process.                                                      *)
LEMMA RestartType ==
    ASSUME TypeOK, Restart, faults' \in 0..MaxFaults
    PROVE  ServerOK' /\ RestOK'
<1>1. ServerOK'
  <2>1. conn' \in [Groups -> Handlers \cup {"idle", "again"}]
    BY DEF Restart, TypeOK
  <2>2. phase' \in [Handlers -> Open \cup {"free"}] /\ \A h \in Handlers : phase'[h] = "free"
    BY DEF Restart
  <2>3. group' \in [Handlers -> Groups] /\ index' \in [Handlers -> Nat \ {0}]
    BY Unused DEF Restart
  <2> QED
    BY <2>1, <2>2, <2>3 DEF ServerOK
<1>2. queue' \in Seq(Keys) /\ Len(queue') <= QueueSize
    BY EmptySeq, AgentAssumption DEF Restart, AgentAssumption
<1> QED
    BY <1>1, <1>2, Unused DEF Restart, RestOK, TypeOK

(* Every step leaves everything in its type.                               *)
LEMMA TypeStep == TypeOK /\ [Next]_vars => TypeOK'
<1> SUFFICES ASSUME TypeOK, [Next]_vars PROVE ServerOK' /\ RestOK'
    BY DEF TypeOK, ServerOK, RestOK
<1>1. ASSUME NEW h \in Handlers, Handle(h) PROVE ServerOK' /\ RestOK'
    BY <1>1, HandleType
<1>2. ASSUME NEW h \in Handlers, NEW g \in Groups, Notify(g, h) PROVE ServerOK' /\ RestOK'
  <2>1. /\ conn' \in [Groups -> Handlers \cup {"idle", "again"}]
        /\ phase' \in [Handlers -> Open \cup {"free"}]
        /\ group' \in [Handlers -> Groups] /\ index' \in [Handlers -> Nat \ {0}]
    BY <1>2 DEF Notify, TypeOK, Open
  <2>2. \A i \in Handlers : phase'[i] \in {"send", "undo"} => More(i)'
    BY <1>2 DEF Notify, TypeOK, More, Alerts
  <2> QED
    BY <1>2, <2>1, <2>2 DEF Notify, TypeOK, ServerOK, RestOK, workerVars
<1>3. ASSUME NEW g \in Groups, Abandon(g) PROVE ServerOK' /\ RestOK'
  <2>1. conn' \in [Groups -> Handlers \cup {"idle", "again"}]
    BY <1>3 DEF Abandon, TypeOK
  <2>2. \A i \in Handlers : phase'[i] \in {"send", "undo"} => More(i)'
    BY <1>3 DEF Abandon, TypeOK, More, Alerts
  <2> QED
    BY <1>3, <2>1, <2>2, FaultType DEF Abandon, TypeOK, ServerOK, RestOK, workerVars
<1>4. CASE Run
    BY <1>4, RunType
<1>5. ASSUME NEW k \in Keys, Expire(k) PROVE ServerOK' /\ RestOK'
    BY <1>5, SameServerType DEF Expire, TypeOK, RestOK, workerVars
<1>6. CASE Signal
    BY <1>6, SameServerType, FaultType DEF Signal, TypeOK, RestOK, workerVars
<1>7. CASE Exit
    BY <1>7, RestartType DEF Exit, TypeOK
<1>8. CASE Crash
    BY <1>8, RestartType, FaultType DEF Crash
<1>9. CASE UNCHANGED vars
    BY <1>9, SameServerType DEF vars, TypeOK, RestOK, workerVars
<1> QED
    BY <1>1, <1>2, <1>3, <1>4, <1>5, <1>6, <1>7, <1>8, <1>9 DEF Next

(* The requests, the queue and the history keep their types.               *)
THEOREM TypeCorrect == Spec => []TypeOK
    BY InitTypeOK, TypeStep, PTL DEF Spec

-----------------------------------------------------------------------------
(* A step of one handler leaves what the others are at alone.              *)
LEMMA OthersSame ==
    ASSUME TypeOK, NEW h \in Handlers,
           \/ \E p \in Open : Goto(h, p)
           \/ Advance(h)
           \/ \E r \in {"idle", "again"} : Answer(h, r)
    PROVE  \A i \in Handlers \ {h} : phase'[i] = phase[i] /\ KeyAt(i)' = KeyAt(i)
<1>1. \A i \in Handlers \ {h} : phase'[i] = phase[i] /\ group'[i] = group[i] /\ index'[i] = index[i]
    BY DEF Goto, Advance, Answer, TypeOK
<1> QED
    BY <1>1 DEF KeyAt, Alerts

(* The handler itself has let its suppression go after an answer or an     *)
(* advance.                                                                *)
LEMMA NotHolding ==
    ASSUME TypeOK, NEW h \in Handlers,
           Advance(h) \/ Goto(h, "next") \/ \E r \in {"idle", "again"} : Answer(h, r)
    PROVE  ~Holding(h)'
    BY DEF Advance, Goto, Answer, TypeOK, Holding

(* A step of a handler that holds nothing and takes nothing.               *)
LEMMA IdleHandlerHeld ==
    ASSUME TypeOK, HeldInv, NEW h \in Handlers, ~Holding(h), ~Holding(h)',
           \A i \in Handlers \ {h} : phase'[i] = phase[i] /\ KeyAt(i)' = KeyAt(i),
           UNCHANGED <<seen, entered>>
    PROVE  HeldInv'
<1>1. \A i \in Handlers : Holding(i)' => Holding(i) /\ KeyAt(i)' = KeyAt(i)
    BY DEF Holding
<1>2. \A i \in Handlers : Holding(i) => Holding(i)' /\ KeyAt(i)' = KeyAt(i)
    BY DEF Holding
<1>3. HeldIsNew' /\ EnteredIsSeen'
    BY <1>1 DEF HeldInv, HeldIsNew, EnteredIsSeen
<1>4. SoleHolder'
    BY <1>1 DEF HeldInv, SoleHolder
<1>5. SeenIsTaken'
    BY <1>2 DEF HeldInv, SeenIsTaken
<1> QED
    BY <1>3, <1>4, <1>5 DEF HeldInv

(* Nothing the suppressions depend on changes.                             *)
LEMMA SameHeld == HeldInv /\ UNCHANGED <<phase, group, index, seen, entered>> => HeldInv'
<1> SUFFICES ASSUME HeldInv, UNCHANGED <<phase, group, index, seen, entered>> PROVE HeldInv'
    OBVIOUS
<1>1. \A i \in Handlers : (Holding(i)' <=> Holding(i)) /\ KeyAt(i)' = KeyAt(i)
    BY DEF Holding, KeyAt, Alerts
<1> QED
    BY <1>1 DEF HeldInv, HeldIsNew, SoleHolder, EnteredIsSeen, SeenIsTaken

(* Every step of a handler keeps the suppressions in order.                *)
LEMMA HandleHeld ==
    ASSUME TypeOK, HeldInv, NEW h \in Handlers, Handle(h)
    PROVE  HeldInv'
<1>1. CASE Authenticate(h) \/ AuthUnavailable(h) \/ Refuse(h) \/ Skip(h) \/ Duplicate(h) \/ Accept(h)
  <2>1. ~Holding(h) /\ UNCHANGED <<seen, entered>>
    BY <1>1 DEF Authenticate, AuthUnavailable, Refuse, Skip, Duplicate, Accept, Holding
  <2>2. Goto(h, "next") \/ Advance(h) \/ \E r \in {"idle", "again"} : Answer(h, r)
    BY <1>1 DEF Authenticate, AuthUnavailable, Refuse, Skip, Duplicate, Accept
  <2> QED
    BY <2>1, <2>2, NotHolding, OthersSame, IdleHandlerHeld DEF Open
<1>2. CASE Suppress(h)
  <2>1. /\ Goto(h, "send") /\ ~Holding(h) /\ KeyAt(h) \notin seen
        /\ seen' = seen \cup {KeyAt(h)} /\ entered' = entered
    BY <1>2 DEF Suppress, Holding
  <2>2. \A i \in Handlers \ {h} : phase'[i] = phase[i] /\ KeyAt(i)' = KeyAt(i)
    BY <2>1, OthersSame DEF Open
  <2>3. Holding(h)' /\ KeyAt(h)' = KeyAt(h)
    BY <2>1 DEF Goto, Holding, KeyAt, Alerts, TypeOK
  <2>4. \A i \in Handlers \ {h} : Holding(i)' <=> Holding(i)
    BY <2>2 DEF Holding
  <2>5. \A i \in Handlers : Holding(i) => KeyAt(i) # KeyAt(h)
    BY <2>1 DEF HeldInv, HeldIsNew
  <2>6. HeldIsNew'
    BY <2>1, <2>2, <2>3, <2>4 DEF HeldInv, HeldIsNew, EnteredIsSeen
  <2>7. SoleHolder'
    BY <2>2, <2>3, <2>4, <2>5 DEF HeldInv, SoleHolder
  <2>8. EnteredIsSeen' /\ SeenIsTaken'
    BY <2>1, <2>2, <2>3, <2>4 DEF HeldInv, EnteredIsSeen, SeenIsTaken
  <2> QED
    BY <2>6, <2>7, <2>8 DEF HeldInv
<1>3. CASE Enqueue(h)
  <2>1. /\ Advance(h) /\ Holding(h) /\ seen' = seen /\ entered' = entered \cup {KeyAt(h)}
        /\ KeyAt(h) \in seen
    BY <1>3 DEF Enqueue, Holding, HeldInv, HeldIsNew
  <2>2. \A i \in Handlers \ {h} : (Holding(i)' <=> Holding(i)) /\ KeyAt(i)' = KeyAt(i)
    BY <2>1, OthersSame DEF Holding
  <2>3. ~Holding(h)'
    BY <2>1, NotHolding
  <2>4. \A i \in Handlers \ {h} : Holding(i) => KeyAt(i) # KeyAt(h)
    BY <2>1 DEF HeldInv, SoleHolder
  <2>5. HeldIsNew' /\ EnteredIsSeen'
    BY <2>1, <2>2, <2>3, <2>4 DEF HeldInv, HeldIsNew, EnteredIsSeen
  <2>6. SoleHolder'
    BY <2>2, <2>3 DEF HeldInv, SoleHolder
  <2>7. SeenIsTaken'
    BY <2>1, <2>2 DEF HeldInv, SeenIsTaken
  <2> QED
    BY <2>5, <2>6, <2>7 DEF HeldInv
<1>4. CASE Full(h)
  <2>1. Goto(h, "undo") /\ Holding(h) /\ UNCHANGED <<seen, entered>>
    BY <1>4 DEF Full, Holding
  <2>2. Holding(h)' /\ KeyAt(h)' = KeyAt(h)
    BY <2>1 DEF Goto, Holding, KeyAt, Alerts, TypeOK
  <2>3. \A i \in Handlers : (Holding(i)' <=> Holding(i)) /\ KeyAt(i)' = KeyAt(i)
    BY <2>1, <2>2, OthersSame DEF Holding, Open
  <2> QED
    BY <2>1, <2>3 DEF HeldInv, HeldIsNew, SoleHolder, EnteredIsSeen, SeenIsTaken
<1>5. CASE Reject(h)
  <2>1. /\ Answer(h, "again") /\ Holding(h) /\ seen' = seen \ {KeyAt(h)} /\ entered' = entered
        /\ KeyAt(h) \notin entered
    BY <1>5 DEF Reject, Holding, HeldInv, HeldIsNew
  <2>2. \A i \in Handlers \ {h} : (Holding(i)' <=> Holding(i)) /\ KeyAt(i)' = KeyAt(i)
    BY <2>1, OthersSame DEF Holding
  <2>3. ~Holding(h)'
    BY <2>1, NotHolding
  <2>4. \A i \in Handlers \ {h} : Holding(i) => KeyAt(i) # KeyAt(h)
    BY <2>1 DEF HeldInv, SoleHolder
  <2>5. HeldIsNew' /\ EnteredIsSeen'
    BY <2>1, <2>2, <2>3, <2>4 DEF HeldInv, HeldIsNew, EnteredIsSeen
  <2>6. SoleHolder'
    BY <2>2, <2>3 DEF HeldInv, SoleHolder
  <2>7. SeenIsTaken'
    BY <2>1, <2>2 DEF HeldInv, SeenIsTaken
  <2> QED
    BY <2>5, <2>6, <2>7 DEF HeldInv
<1> QED
    BY <1>1, <1>2, <1>3, <1>4, <1>5 DEF Handle

(* Every step keeps the suppressions in order.                             *)
LEMMA HeldStep == TypeOK /\ HeldInv /\ [Next]_vars => HeldInv'
<1> SUFFICES ASSUME TypeOK, HeldInv, [Next]_vars PROVE HeldInv'
    OBVIOUS
<1>1. ASSUME NEW h \in Handlers, Handle(h) PROVE HeldInv'
    BY <1>1, HandleHeld
<1>2. ASSUME NEW h \in Handlers, NEW g \in Groups, Notify(g, h) PROVE HeldInv'
  <2>1. ~Holding(h) /\ ~Holding(h)' /\ UNCHANGED <<seen, entered>>
    BY <1>2 DEF Notify, Holding, TypeOK
  <2>2. \A i \in Handlers \ {h} : phase'[i] = phase[i] /\ group'[i] = group[i] /\ index'[i] = index[i]
    BY <1>2 DEF Notify, TypeOK
  <2>3. \A i \in Handlers \ {h} : KeyAt(i)' = KeyAt(i)
    BY <2>2 DEF KeyAt, Alerts
  <2> QED
    BY <2>1, <2>2, <2>3, IdleHandlerHeld
<1>3. ASSUME NEW g \in Groups, Abandon(g) PROVE HeldInv'
    BY <1>3, SameHeld DEF Abandon
<1>4. CASE Run
    BY <1>4, SameHeld DEF Run, Take, StartSend, Withhold, SendOk, SendFails, SendCut, Stop, serverVars
<1>5. ASSUME NEW k \in Keys, Expire(k) PROVE HeldInv'
  <2>1. \A i \in Handlers : (Holding(i)' <=> Holding(i)) /\ KeyAt(i)' = KeyAt(i)
    BY <1>5 DEF Expire, serverVars, Holding, KeyAt, Alerts
  <2>2. seen' = seen \ {k} /\ entered' = entered \ {k}
    BY <1>5 DEF Expire
  <2>3. \A i \in Handlers : Holding(i) => KeyAt(i) # k
    BY <1>5 DEF Expire, Holders, Holding
  <2>4. HeldIsNew' /\ EnteredIsSeen'
    BY <2>1, <2>2, <2>3 DEF HeldInv, HeldIsNew, EnteredIsSeen
  <2>5. SoleHolder' /\ SeenIsTaken'
    BY <2>1, <2>2 DEF HeldInv, SoleHolder, SeenIsTaken
  <2> QED
    BY <2>4, <2>5 DEF HeldInv
<1>6. CASE Signal
    BY <1>6, SameHeld DEF Signal, serverVars
<1>7. CASE Exit \/ Crash
  <2>1. seen' = {} /\ entered' = {} /\ \A i \in Handlers : ~Holding(i)'
    BY <1>7 DEF Exit, Crash, Restart, Holding
  <2> QED
    BY <2>1 DEF HeldInv, HeldIsNew, SoleHolder, EnteredIsSeen, SeenIsTaken
<1>8. CASE UNCHANGED vars
    BY <1>8, SameHeld DEF vars, serverVars
<1> QED
    BY <1>1, <1>2, <1>3, <1>4, <1>5, <1>6, <1>7, <1>8 DEF Next

-----------------------------------------------------------------------------
(* What is in memory stays there when nothing it depends on changes.       *)
LEMMA SameKept == EnteredIsKept /\ UNCHANGED <<queue, workerVars, entered, over>> => EnteredIsKept'
    BY DEF EnteredIsKept, InMemory, workerVars

(* An iteration of Run that ends lets go of its own incident only.         *)
LEMMA IterateKept ==
    ASSUME EnteredIsKept, NEW w, Iterate(w), UNCHANGED <<queue, entered>>
    PROVE  EnteredIsKept'
    BY DEF EnteredIsKept, InMemory, Iterate

(* What entered under a suppression stays in memory until its end.         *)
LEMMA KeptStep == TypeOK /\ EnteredIsKept /\ [Next]_vars => EnteredIsKept'
<1> SUFFICES ASSUME TypeOK, EnteredIsKept, [Next]_vars PROVE EnteredIsKept'
    OBVIOUS
<1>1. ASSUME NEW h \in Handlers, Handle(h), ~Enqueue(h) PROVE EnteredIsKept'
    BY <1>1, SameKept DEF Handle, Authenticate, AuthUnavailable, Refuse, Skip, Duplicate, Suppress,
        Full, Reject, Accept
<1>2. ASSUME NEW h \in Handlers, Enqueue(h) PROVE EnteredIsKept'
  <2>1. KeyAt(h) \in Keys
    BY <1>2, KeyType DEF Enqueue, TypeOK
  <2>2. /\ \A i \in DOMAIN queue : i \in DOMAIN queue' /\ queue'[i] = queue[i]
        /\ \E i \in DOMAIN queue' : queue'[i] = KeyAt(h)
    BY <1>2, <2>1, AppendProperties, LenProperties DEF Enqueue, TypeOK
  <2>3. UNCHANGED <<worker, current>> /\ entered' \ over' \subseteq (entered \ over) \cup {KeyAt(h)}
    BY <1>2 DEF Enqueue, workerVars
  <2> QED
    BY <2>2, <2>3 DEF EnteredIsKept, InMemory
<1>3. CASE Take
  <2>1. /\ current' = queue[1] /\ worker = "waiting" /\ worker' = "processing"
        /\ UNCHANGED <<entered, over>>
    BY <1>3, HeadTailProperties DEF Take, TypeOK
  <2>2. \A i \in DOMAIN queue : i = 1 \/ (i - 1 \in DOMAIN queue' /\ queue'[i - 1] = queue[i])
    BY <1>3, HeadTailProperties, LenProperties DEF Take, TypeOK
  <2> QED
    BY <2>1, <2>2 DEF EnteredIsKept, InMemory
<1>4. CASE StartSend \/ Stop
    BY <1>4 DEF StartSend, Stop, EnteredIsKept, InMemory
<1>5. CASE Withhold \/ SendOk \/ SendFails \/ SendCut
    BY <1>5, IterateKept DEF Withhold, SendOk, SendFails, SendCut
<1>6. ASSUME NEW g \in Groups, Abandon(g) \/ \E h \in Handlers : Notify(g, h) PROVE EnteredIsKept'
    BY <1>6, SameKept DEF Abandon, Notify
<1>7. ASSUME NEW k \in Keys, Expire(k) PROVE EnteredIsKept'
    BY <1>7 DEF Expire, EnteredIsKept, InMemory, workerVars
<1>8. CASE Signal
    BY <1>8, SameKept DEF Signal
<1>9. CASE Exit \/ Crash
    BY <1>9 DEF Exit, Crash, Restart, EnteredIsKept
<1>10. CASE UNCHANGED vars
    BY <1>10, SameKept DEF vars
<1> QED
    BY <1>1, <1>2, <1>3, <1>4, <1>5, <1>6, <1>7, <1>8, <1>9, <1>10 DEF Next, Run

-----------------------------------------------------------------------------
(* The inductive invariant holds in the initial state and after each step. *)
THEOREM Inductive == Spec => []AInv
<1>1. Init => AInv
  <2>1. Init => HeldInv /\ EnteredIsKept
    BY DEF Init, HeldInv, HeldIsNew, SoleHolder, EnteredIsSeen, SeenIsTaken, EnteredIsKept, Holding
  <2> QED
    BY <2>1, InitTypeOK DEF AInv
<1>2. AInv /\ [Next]_vars => AInv'
    BY TypeStep, HeldStep, KeptStep DEF AInv
<1> QED
    BY <1>1, <1>2, PTL DEF Spec

(* A suppression that no handler can still take back was set for an alert  *)
(* that entered the queue, and this alert is in memory until its iteration *)
(* is over, well or not (Submit and Run, pipeline.go:100-152).             *)
THEOREM AccountedCorrect == Spec => []Accounted
<1>1. AInv => Accounted
  <2> SUFFICES ASSUME AInv PROVE Accounted
    OBVIOUS
  <2>1. \A k \in seen : Holders(k) = {} => k \in entered
    BY DEF AInv, HeldInv, SeenIsTaken, Holders, Holding
  <2> QED
    BY <2>1 DEF AInv, EnteredIsKept, Accounted
<1> QED
    BY <1>1, Inductive, PTL

(* No alert enters the queue twice under one suppression, whatever is      *)
(* abandoned, rejected and sent again (http.go:129-134).                   *)
THEOREM OnceCorrect == Spec => OncePerSuppression
<1>1. AInv /\ [Next]_vars =>
        [\A k \in Keys : k \in entered => Len(queue') <= Len(queue) \/ queue'[Len(queue')] # k]_vars
  <2> SUFFICES ASSUME AInv, Next, NEW k \in Keys, k \in entered
               PROVE  Len(queue') <= Len(queue) \/ queue'[Len(queue')] # k
    OBVIOUS
  <2> USE DEF AInv
  <2>0. Len(queue) \in Nat
    BY LenProperties DEF TypeOK
  <2>1. ASSUME NEW h \in Handlers, Enqueue(h) PROVE queue'[Len(queue')] # k
    <3>1. KeyAt(h) \in Keys /\ KeyAt(h) \notin entered
      BY <2>1, KeyType DEF Enqueue, TypeOK, HeldInv, HeldIsNew, Holding
    <3>2. queue'[Len(queue')] = KeyAt(h)
      BY <2>1, <3>1, AppendProperties DEF Enqueue, TypeOK
    <3> QED
      BY <3>1, <3>2
  <2>2. CASE Take
    BY <2>2, HeadTailProperties DEF Take, TypeOK
  <2>3. CASE Exit \/ Crash
    BY <2>0, <2>3, EmptySeq DEF Exit, Crash, Restart
  <2>4. ASSUME NEW h \in Handlers, Handle(h), ~Enqueue(h) PROVE queue' = queue
    BY <2>4 DEF Handle, Authenticate, AuthUnavailable, Refuse, Skip, Duplicate, Suppress, Full,
        Reject, Accept
  <2>5. Run /\ ~Take => queue' = queue
    BY DEF Run, StartSend, Withhold, SendOk, SendFails, SendCut, Stop
  <2>6. ASSUME NEW g \in Groups, Abandon(g) \/ \E h \in Handlers : Notify(g, h) PROVE queue' = queue
    BY <2>6 DEF Abandon, Notify
  <2>7. (\E x \in Keys : Expire(x)) \/ Signal => queue' = queue
    BY DEF Expire, Signal
  <2> QED
    BY <2>0, <2>1, <2>2, <2>3, <2>4, <2>5, <2>6, <2>7 DEF Next
<1> QED
    BY <1>1, Inductive, PTL DEF Spec, OncePerSuppression
=============================================================================
