---------------------------- MODULE IntakeProofs ----------------------------
(***************************************************************************)
(* Proofs about Intake, for any number of callers and keys, any queue size *)
(* and any cooldown longer than the stall of a call.                       *)
(***************************************************************************)
EXTENDS Intake, FiniteSetTheorems, SequenceTheorems, TLAPS

(* A caller in Submit read the clock at most MaxStall ago.                 *)
StallBounded ==
    \A t \in Threads : pc[t] \in InFlight =>
        at[t] \in Nat \ {0} /\ at[t] <= clock /\ clock <= at[t] + MaxStall

(* Either the last admission of a key is far enough back, or a suppression *)
(* that nobody can take back stands for it until then.                     *)
GapGuarded ==
    \A k \in Keys : last[k] # Never =>
        \/ clock + MaxStall >= last[k] + Cooldown
        \/ Holders(k) = {} /\ seen[k] + MaxStall >= last[k] + Cooldown

IInv == TypeOK /\ StallBounded /\ UndoOwnsEntry /\ GapGuarded /\ SuppressionBacked

-----------------------------------------------------------------------------
(* Init and every step keep every variable in its type (TypeOK), the queue *)
(* within its capacity included.                                           *)
LEMMA TypeStep == TypeOK /\ [Next]_vars => TypeOK'
<1> SUFFICES ASSUME TypeOK, [Next]_vars PROVE TypeOK'
    OBVIOUS
<1> USE IntakeAssumption DEF TypeOK, IntakeAssumption
<1>1. ASSUME NEW t \in Threads, NEW k \in Keys, Call(t, k) PROVE TypeOK'
    BY <1>1 DEF Call, consumerVars, InFlight
<1>2. ASSUME NEW t \in Threads, CheckDuplicate(t) PROVE TypeOK'
    BY <1>2 DEF CheckDuplicate, Purged, Never, consumerVars, InFlight
<1>3. ASSUME NEW t \in Threads, CheckNew(t) PROVE TypeOK'
    BY <1>3 DEF CheckNew, Purged, Never, consumerVars, InFlight
<1>4. ASSUME NEW t \in Threads, SendQueued(t) PROVE TypeOK'
    <2>1. queue' \in Seq(Keys) /\ Len(queue') = Len(queue) + 1
        BY <1>4, AppendProperties DEF SendQueued
    <2>2. Len(queue) \in Nat
        BY LenProperties
    <2> QED
        BY <1>4, <2>1, <2>2 DEF SendQueued, consumerVars, InFlight
<1>5. ASSUME NEW t \in Threads, SendFull(t) PROVE TypeOK'
    BY <1>5 DEF SendFull, consumerVars, InFlight
<1>6. ASSUME NEW t \in Threads, Count(t) PROVE TypeOK'
    BY <1>6 DEF Count, consumerVars, InFlight
<1>7. ASSUME NEW t \in Threads, Undo(t) PROVE TypeOK'
    BY <1>7 DEF Undo, Never, consumerVars, InFlight
<1>8. CASE Take
    <2>1. queue' \in Seq(Keys) /\ Len(queue') = Len(queue) - 1
        BY <1>8, HeadTailProperties DEF Take
    <2>2. Len(queue) \in Nat
        BY LenProperties
    <2> QED
        BY <1>8, <2>1, <2>2 DEF Take, callerVars
<1>9. CASE Finish \/ Stop \/ Cancel
    BY <1>9 DEF Finish, Stop, Cancel, callerVars, consumerVars
<1>10. CASE Tick
    BY <1>10 DEF Tick, callerVars, consumerVars
<1>11. CASE UNCHANGED vars
    BY <1>11 DEF vars, callerVars, consumerVars
<1> QED
    BY <1>1, <1>2, <1>3, <1>4, <1>5, <1>6, <1>7, <1>8, <1>9, <1>10, <1>11 DEF Next, Submit, Run

(* The initial state has its types; the empty queue fits any capacity.     *)
LEMMA InitTypeOK == Init => TypeOK
<1> SUFFICES ASSUME Init PROVE TypeOK
    OBVIOUS
<1>1. queue \in Seq(Keys) /\ Len(queue) = 0
    BY EmptySeq DEF Init
<1>2. Len(queue) <= QueueSize
    BY <1>1, IntakeAssumption DEF IntakeAssumption
<1>3. clock \in Nat \ {0} /\ seen \in [Keys -> Nat] /\ last \in [Keys -> Nat]
    BY DEF Init, Never
<1>4. key \in [Threads -> Keys] /\ at \in [Threads -> Nat]
    BY DEF Init
<1>5. pc \in [Threads -> {"idle", "count"} \cup InFlight]
    BY DEF Init
<1>6. result \in [Threads -> {"none", "queued", "duplicate", "full"}]
    BY DEF Init
<1>7. /\ consumer \in {"waiting", "working", "stopped"}
      /\ cancelled \in BOOLEAN
      /\ received \in Nat
      /\ processed \in Nat
    BY DEF Init
<1> QED
    BY <1>1, <1>2, <1>3, <1>4, <1>5, <1>6, <1>7 DEF TypeOK

(* Spec keeps every variable of intake in its type, whatever the bounds.   *)
THEOREM TypeCorrect == Spec => []TypeOK
    BY InitTypeOK, TypeStep, PTL DEF Spec

-----------------------------------------------------------------------------
(* The steps of Submit after the first, and the clock, keep a call within  *)
(* its stall; a call starts with none.                                     *)
LEMMA StallStep == TypeOK /\ StallBounded /\ [Next]_vars => StallBounded'
<1> SUFFICES ASSUME TypeOK, StallBounded, [Next]_vars,
                    NEW u \in Threads, pc'[u] \in InFlight
             PROVE  at'[u] \in Nat \ {0} /\ at'[u] <= clock' /\ clock' <= at'[u] + MaxStall
    BY DEF StallBounded
<1> USE IntakeAssumption DEF IntakeAssumption, TypeOK, StallBounded, InFlight
<1>1. ASSUME NEW t \in Threads, NEW k \in Keys, Call(t, k)
      PROVE  at'[u] \in Nat \ {0} /\ at'[u] <= clock' /\ clock' <= at'[u] + MaxStall
    BY <1>1 DEF Call
<1>2. ASSUME NEW t \in Threads, Submit(t)
      PROVE  at' = at /\ clock' = clock /\ pc[u] \in InFlight
    BY <1>2 DEF Submit, CheckDuplicate, CheckNew, SendQueued, SendFull, Count, Undo
<1>3. CASE Run \/ Cancel \/ UNCHANGED vars
    BY <1>3 DEF Run, Take, Finish, Stop, Cancel, vars, callerVars
<1>4. CASE Tick
    BY <1>4 DEF Tick, callerVars
<1> QED
    BY <1>1, <1>2, <1>3, <1>4 DEF Next

(* No step leaves two callers holding a suppression of one key, or one     *)
(* whose entry is another's (UndoOwnsEntry): a second caller finds the     *)
(* first one's entry unexpired, since a call is shorter than a cooldown.   *)
LEMMA OwnStep == TypeOK /\ StallBounded /\ UndoOwnsEntry /\ [Next]_vars => UndoOwnsEntry'
<1> SUFFICES ASSUME TypeOK, StallBounded, UndoOwnsEntry, [Next]_vars
             PROVE  UndoOwnsEntry'
    OBVIOUS
<1> USE IntakeAssumption DEF IntakeAssumption, TypeOK
<1>1. ASSUME NEW t \in Threads, NEW k \in Keys, Call(t, k) PROVE UndoOwnsEntry'
    BY <1>1 DEF Call, UndoOwnsEntry, Holders
<1>2. ASSUME NEW t \in Threads, pc[t] = "lock", seen' = Purged(at[t]),
             pc' = [pc EXCEPT ![t] = "idle"], key' = key, at' = at
      PROVE  UndoOwnsEntry'
    <2>1. \A u \in Threads : pc[u] \in {"send", "undo"} => seen'[key[u]] = seen[key[u]]
        BY <1>2 DEF Purged, UndoOwnsEntry, StallBounded, InFlight
    <2> QED
        BY <1>2, <2>1 DEF UndoOwnsEntry, Holders
<1>3. ASSUME NEW t \in Threads, CheckNew(t) PROVE UndoOwnsEntry'
    <2>1. \A u \in Threads : pc[u] \in {"send", "undo"} => key[u] # key[t]
        <3> SUFFICES ASSUME NEW u \in Threads, pc[u] \in {"send", "undo"}, key[u] = key[t]
                     PROVE  FALSE
            OBVIOUS
        <3>1. seen[key[t]] = at[u] + Cooldown
            BY DEF UndoOwnsEntry
        <3>2. at[t] <= clock /\ clock <= at[u] + MaxStall
            BY <1>3 DEF CheckNew, StallBounded, InFlight
        <3> QED
            BY <1>3, <3>1, <3>2 DEF CheckNew, Duplicate
    <2>2. \A u \in Threads : pc[u] \in {"send", "undo"} => seen'[key[u]] = seen[key[u]]
        BY <1>3, <2>1 DEF CheckNew, Purged, UndoOwnsEntry, StallBounded, InFlight
    <2>3. seen'[key[t]] = at[t] + Cooldown
        BY <1>3 DEF CheckNew, Purged
    <2> QED
        BY <1>3, <2>1, <2>2, <2>3 DEF CheckNew, UndoOwnsEntry, Holders
<1>4. ASSUME NEW t \in Threads, SendQueued(t) \/ SendFull(t) \/ Count(t)
      PROVE  UndoOwnsEntry'
    BY <1>4 DEF SendQueued, SendFull, Count, UndoOwnsEntry, Holders
<1>5. ASSUME NEW t \in Threads, Undo(t) PROVE UndoOwnsEntry'
    <2>1. \A u \in Threads : u # t /\ pc[u] \in {"send", "undo"} => key[u] # key[t]
        BY <1>5 DEF Undo, UndoOwnsEntry, Holders
    <2> QED
        BY <1>5, <2>1 DEF Undo, UndoOwnsEntry, Holders
<1>6. CASE Run \/ Cancel \/ Tick \/ UNCHANGED vars
    BY <1>6 DEF Run, Take, Finish, Stop, Cancel, Tick, vars, callerVars, UndoOwnsEntry, Holders
<1>7. ASSUME NEW t \in Threads, CheckDuplicate(t) PROVE UndoOwnsEntry'
    BY <1>2, <1>7 DEF CheckDuplicate
<1> QED
    BY <1>1, <1>3, <1>4, <1>5, <1>6, <1>7 DEF Next, Submit

-----------------------------------------------------------------------------
(* Every step keeps a key guarded against an early second admission, and   *)
(* every settled suppression backed by an admission.  One lemma, because   *)
(* the two are disturbed by the same steps.                                *)
LEMMA GuardStep == IInv /\ [Next]_vars => GapGuarded' /\ SuppressionBacked'
<1> SUFFICES ASSUME IInv, [Next]_vars, NEW k \in Keys
             PROVE  /\ last'[k] # Never =>
                         \/ clock' + MaxStall >= last'[k] + Cooldown
                         \/ Holders(k)' = {} /\ seen'[k] + MaxStall >= last'[k] + Cooldown
                    /\ seen'[k] # Never /\ Holders(k)' = {} =>
                         last'[k] # Never /\ last'[k] + Cooldown >= seen'[k]
    BY DEF GapGuarded, SuppressionBacked
<1> DEFINE Goal ==
               /\ last'[k] # Never =>
                    \/ clock' + MaxStall >= last'[k] + Cooldown
                    \/ Holders(k)' = {} /\ seen'[k] + MaxStall >= last'[k] + Cooldown
               /\ seen'[k] # Never /\ Holders(k)' = {} =>
                    last'[k] # Never /\ last'[k] + Cooldown >= seen'[k]
<1> USE IntakeAssumption DEF IntakeAssumption, IInv, TypeOK, Never
<1>1. ASSUME NEW t \in Threads, NEW j \in Keys, Call(t, j) PROVE Goal
    <2>1. Holders(k)' = Holders(k)
        BY <1>1 DEF Call, Holders
    <2> QED
        BY <1>1, <2>1 DEF Call, GapGuarded, SuppressionBacked
<1>2. ASSUME NEW t \in Threads, CheckDuplicate(t) PROVE Goal
    <2>1. Holders(k)' = Holders(k)
        BY <1>2 DEF CheckDuplicate, Holders
    <2>2. at[t] <= clock /\ (seen'[k] = seen[k] \/ (seen'[k] = 0 /\ at[t] > seen[k]))
        BY <1>2 DEF CheckDuplicate, StallBounded, InFlight, Purged
    <2> QED
        BY <1>2, <2>1, <2>2 DEF CheckDuplicate, GapGuarded, SuppressionBacked
<1>3. ASSUME NEW t \in Threads, CheckNew(t) PROVE Goal
    <2>1. at[t] <= clock /\ at[t] \in Nat \ {0} /\ pc[t] = "lock"
        BY <1>3 DEF CheckNew, StallBounded, InFlight
    <2>2. CASE key[t] = k
        <3>1. t \in Holders(k)'
            BY <1>3, <2>2 DEF CheckNew, Holders
        <3>2. at[t] >= seen[k]
            BY <1>3, <2>2 DEF CheckNew, Duplicate
        <3>3. last' = last /\ clock' = clock
            BY <1>3 DEF CheckNew
        <3> QED
            BY <2>1, <3>1, <3>2, <3>3 DEF GapGuarded
    <2>3. CASE key[t] # k
        <3>1. Holders(k)' = Holders(k)
            BY <1>3, <2>3 DEF CheckNew, Holders
        <3>2. seen'[k] = seen[k] \/ (seen'[k] = 0 /\ at[t] > seen[k])
            BY <1>3, <2>3 DEF CheckNew, Purged
        <3> QED
            BY <1>3, <2>1, <3>1, <3>2 DEF CheckNew, GapGuarded, SuppressionBacked
    <2> QED
        BY <2>2, <2>3
<1>4. ASSUME NEW t \in Threads, SendQueued(t) PROVE Goal
    <2>1. CASE key[t] = k
        <3>1. last'[k] = clock /\ clock' = clock /\ seen' = seen
            BY <1>4, <2>1 DEF SendQueued
        <3>2. seen[k] = at[t] + Cooldown /\ Holders(k) = {t}
            BY <1>4, <2>1 DEF SendQueued, UndoOwnsEntry
        <3>3. Holders(k)' = {}
            BY <1>4, <2>1, <3>2 DEF SendQueued, Holders
        <3>4. at[t] <= clock /\ clock <= at[t] + MaxStall
            BY <1>4 DEF SendQueued, StallBounded, InFlight
        <3> QED
            BY <3>1, <3>2, <3>3, <3>4
    <2>2. CASE key[t] # k
        <3>1. Holders(k)' = Holders(k) /\ last'[k] = last[k]
            BY <1>4, <2>2 DEF SendQueued, Holders
        <3> QED
            BY <1>4, <3>1 DEF SendQueued, GapGuarded, SuppressionBacked
    <2> QED
        BY <2>1, <2>2
<1>5. ASSUME NEW t \in Threads, SendFull(t) \/ Count(t) PROVE Goal
    <2>1. Holders(k)' = Holders(k)
        BY <1>5 DEF SendFull, Count, Holders
    <2> QED
        BY <1>5, <2>1 DEF SendFull, Count, GapGuarded, SuppressionBacked
<1>6. ASSUME NEW t \in Threads, Undo(t) PROVE Goal
    <2>1. CASE key[t] = k
        <3>1. t \in Holders(k)
            BY <1>6, <2>1 DEF Undo, Holders
        <3>2. seen'[k] = 0 /\ last' = last /\ clock' = clock
            BY <1>6, <2>1 DEF Undo
        <3> QED
            BY <3>1, <3>2 DEF GapGuarded
    <2>2. CASE key[t] # k
        <3>1. Holders(k)' = Holders(k) /\ seen'[k] = seen[k]
            BY <1>6, <2>2 DEF Undo, Holders
        <3> QED
            BY <1>6, <3>1 DEF Undo, GapGuarded, SuppressionBacked
    <2> QED
        BY <2>1, <2>2
<1>7. CASE Run \/ Cancel \/ Tick \/ UNCHANGED vars
    <2>1. Holders(k)' = Holders(k) /\ last' = last /\ seen' = seen
        BY <1>7 DEF Run, Take, Finish, Stop, Cancel, Tick, vars, callerVars, Holders
    <2>2. clock' \in Nat /\ clock' >= clock
        BY <1>7 DEF Run, Take, Finish, Stop, Cancel, Tick, vars
    <2> QED
        BY <2>1, <2>2 DEF GapGuarded, SuppressionBacked
<1> QED
    BY <1>1, <1>2, <1>3, <1>4, <1>5, <1>6, <1>7 DEF Next, Submit

-----------------------------------------------------------------------------
(* The invariant holds of the empty table and the idle callers.            *)
LEMMA InitIInv == Init => IInv
<1> SUFFICES ASSUME Init PROVE IInv
    OBVIOUS
<1>1. TypeOK
    BY InitTypeOK
<1>2. \A t \in Threads : pc[t] = "idle"
    BY DEF Init
<1>3. \A k \in Keys : seen[k] = Never /\ last[k] = Never
    BY DEF Init
<1> QED
    BY <1>1, <1>2, <1>3 DEF IInv, StallBounded, UndoOwnsEntry, GapGuarded, SuppressionBacked, InFlight

(* The four lemmas above together: the invariant is inductive.             *)
LEMMA NextIInv == IInv /\ [Next]_vars => IInv'
    BY TypeStep, StallStep, OwnStep, GuardStep DEF IInv

(* The inductive invariant of intake holds in every reachable state.       *)
THEOREM Inductive == Spec => []IInv
    BY InitIInv, NextIInv, PTL DEF Spec

(* Submit: a suppression that outlives its call stands for an incident     *)
(* that entered the queue, however many callers race                       *)
(* (pipeline.go:114-124).                                                  *)
THEOREM SuppressionCorrect == Spec => []SuppressionBacked
<1>1. IInv => SuppressionBacked
    BY DEF IInv
<1> QED
    BY <1>1, Inductive, PTL

(* Submit: the delete on a full queue removes the caller's own suppression *)
(* and no other (pipeline.go:121-125).                                     *)
THEOREM UndoCorrect == Spec => []UndoOwnsEntry
<1>1. IInv => UndoOwnsEntry
    BY DEF IInv
<1> QED
    BY <1>1, Inductive, PTL

-----------------------------------------------------------------------------
(* What a step does to the queue, seen from one send: it admits the        *)
(* sender's key, whose last admission is out of the window.                *)
LEMMA SendAdmits ==
    ASSUME IInv, NEW t \in Threads, SendQueued(t)
    PROVE  Abstract!Admit(key[t])
<1> USE IntakeAssumption DEF IntakeAssumption, IInv, TypeOK
<1>1. t \in Holders(key[t])
    BY DEF SendQueued, Holders
<1>2. key[t] \in Keys /\ last[key[t]] \in Nat
    OBVIOUS
<1>3. last[key[t]] # Never => clock + MaxStall >= last[key[t]] + Cooldown
    BY <1>1, <1>2 DEF GapGuarded
<1>4. last[key[t]] = Never \/ last[key[t]] + (Cooldown - MaxStall) <= clock
    BY <1>2, <1>3
<1> QED
    BY <1>4 DEF SendQueued, Abstract!Admit, Abstract!Never, Never

(* Submit and Run implement Admission (pipeline.go:100-152): sends admit,  *)
(* receives deliver, the clock elapses, all else stutters.                 *)
THEOREM Refinement == Spec => ImplementsAdmission
<1>1. Init => Abstract!Init
    BY DEF Init, Abstract!Init, Abstract!Never, Never
<1>2. IInv /\ [Next]_vars => [Abstract!Next]_(Abstract!vars)
    <2> SUFFICES ASSUME IInv, [Next]_vars PROVE [Abstract!Next]_(Abstract!vars)
        OBVIOUS
    <2>1. ASSUME NEW t \in Threads, SendQueued(t) PROVE Abstract!Next
        BY <2>1, SendAdmits DEF Abstract!Next, IInv, TypeOK
    <2>2. CASE Take
        BY <2>2 DEF Take, Abstract!Deliver, Abstract!Next
    <2>3. CASE Tick
        BY <2>3 DEF Tick, Abstract!Elapse, Abstract!Next
    <2>4. ASSUME NEW t \in Threads,
                 \/ CheckDuplicate(t) \/ CheckNew(t) \/ SendFull(t) \/ Count(t) \/ Undo(t)
                 \/ \E k \in Keys : Call(t, k)
          PROVE  UNCHANGED Abstract!vars
        BY <2>4 DEF CheckDuplicate, CheckNew, SendFull, Count, Undo, Call, Abstract!vars
    <2>5. CASE Finish \/ Stop \/ Cancel \/ UNCHANGED vars
        BY <2>5 DEF Finish, Stop, Cancel, vars, Abstract!vars
    <2> QED
        BY <2>1, <2>2, <2>3, <2>4, <2>5 DEF Next, Submit, Run
<1> QED
    BY <1>1, <1>2, Inductive, PTL DEF Spec, ImplementsAdmission, Abstract!Spec

(* Submit (pipeline.go:100-127): no key enters the queue twice within a    *)
(* cooldown less a stall.                                                  *)
THEOREM DedupCorrect == Spec => DedupWindow
<1> DEFINE Spaced == \A k \in Keys :
               Enters(k) /\ last[k] # Never => clock + MaxStall >= last[k] + Cooldown
<1>1. IInv /\ [Next]_vars => [Spaced]_vars
    <2> SUFFICES ASSUME IInv, [Next]_vars, NEW k \in Keys, Enters(k), last[k] # Never
                 PROVE  clock + MaxStall >= last[k] + Cooldown
        OBVIOUS
    <2> USE IntakeAssumption DEF IntakeAssumption, IInv, TypeOK
    <2>1. ASSUME NEW t \in Threads, SendQueued(t)
          PROVE  clock + MaxStall >= last[k] + Cooldown
        <3>1. k = key[t]
            BY <2>1, AppendProperties DEF SendQueued, Enters
        <3> QED
            BY <2>1, <3>1, SendAdmits DEF Abstract!Admit, Abstract!Never, Never
    <2>2. CASE Take
        <3>1. Len(queue') = Len(queue) - 1 /\ Len(queue) \in Nat
            BY <2>2, HeadTailProperties, LenProperties DEF Take
        <3> QED
            BY <3>1 DEF Enters
    <2>3. queue' = queue => FALSE
        BY LenProperties DEF Enters
    <2>4. ASSUME NEW t \in Threads,
                 \/ CheckDuplicate(t) \/ CheckNew(t) \/ SendFull(t) \/ Count(t) \/ Undo(t)
                 \/ \E j \in Keys : Call(t, j)
          PROVE  queue' = queue
        BY <2>4 DEF CheckDuplicate, CheckNew, SendFull, Count, Undo, Call
    <2>5. Finish \/ Stop \/ Cancel \/ Tick \/ UNCHANGED vars => queue' = queue
        BY DEF Finish, Stop, Cancel, Tick, vars
    <2> QED
        BY <2>1, <2>2, <2>3, <2>4, <2>5 DEF Next, Submit, Run
<1> QED
    BY <1>1, Inductive, PTL DEF Spec, DedupWindow

-----------------------------------------------------------------------------
(* Submit and Run (pipeline.go:118-119, 134, 155): every incident counted  *)
(* as received, or about to be, was processed or is in the queue.          *)
THEOREM ConservationCorrect == Spec => []Conservation
<1> DEFINE Counting == {t \in Threads : pc[t] = "count"}
<1> USE IntakeAssumption DEF IntakeAssumption
<1>1. Init => Conservation
    <2> SUFFICES ASSUME Init PROVE Conservation
        OBVIOUS
    <2>1. Counting = {} /\ Len(queue) = 0
        BY EmptySeq DEF Init
    <2> QED
        BY <2>1, FS_EmptySet DEF Conservation, Init
<1>2. TypeOK /\ Conservation /\ [Next]_vars => Conservation'
    <2> SUFFICES ASSUME TypeOK, Conservation, [Next]_vars PROVE Conservation'
        OBVIOUS
    <2>1. IsFiniteSet(Counting) /\ Cardinality(Counting) \in Nat /\ Len(queue) \in Nat
        BY FS_Subset, FS_CardinalityType, LenProperties DEF TypeOK
    <2>2. ASSUME NEW t \in Threads, SendQueued(t) PROVE Conservation'
        <3>1. Counting' = Counting \cup {t} /\ t \notin Counting
            BY <2>2 DEF SendQueued, TypeOK
        <3>2. Cardinality(Counting') = Cardinality(Counting) + 1
            BY <2>1, <3>1, FS_AddElement
        <3>3. Len(queue') = Len(queue) + 1
            BY <2>2, AppendProperties DEF SendQueued, TypeOK
        <3> QED
            BY <2>1, <2>2, <3>2, <3>3 DEF SendQueued, consumerVars, Conservation, TypeOK
    <2>3. ASSUME NEW t \in Threads, Count(t) PROVE Conservation'
        <3>1. Counting' = Counting \ {t} /\ t \in Counting
            BY <2>3 DEF Count, TypeOK
        <3>2. Cardinality(Counting') = Cardinality(Counting) - 1
            <4> HIDE DEF Counting
            <4>1. Cardinality(Counting \ {t}) = Cardinality(Counting) - 1
                BY <2>1, <3>1, FS_RemoveElement
            <4> QED
                BY <3>1, <4>1
        <3> QED
            BY <2>1, <2>3, <3>2 DEF Count, consumerVars, Conservation, TypeOK
    <2>4. CASE Take
        <3>1. Len(queue') = Len(queue) - 1
            BY <2>4, HeadTailProperties DEF Take, TypeOK
        <3> QED
            BY <2>1, <2>4, <3>1 DEF Take, callerVars, Conservation, TypeOK
    <2>5. ASSUME NEW t \in Threads,
                 \/ CheckDuplicate(t) \/ CheckNew(t) \/ SendFull(t) \/ Undo(t)
                 \/ \E k \in Keys : Call(t, k)
          PROVE  Conservation'
        <3>1. Counting' = Counting
            BY <2>5 DEF CheckDuplicate, CheckNew, SendFull, Undo, Call, TypeOK
        <3> QED
            BY <2>5, <3>1
            DEF CheckDuplicate, CheckNew, SendFull, Undo, Call, consumerVars, Conservation
    <2>6. CASE Finish \/ Stop \/ Cancel \/ Tick \/ UNCHANGED vars
        BY <2>6 DEF Finish, Stop, Cancel, Tick, vars, callerVars, consumerVars, Conservation
    <2> QED
        BY <2>2, <2>3, <2>4, <2>5, <2>6 DEF Next, Submit, Run
<1> QED
    BY <1>1, <1>2, TypeCorrect, PTL DEF Spec
=============================================================================
