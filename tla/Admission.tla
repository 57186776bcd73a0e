----------------------------- MODULE Admission -----------------------------
(***************************************************************************)
(* What incident intake promises, without threads, locks or a suppression  *)
(* table: a bounded FIFO into which an incident key is admitted in one     *)
(* step, never twice within Gap time units.  Intake implements it.         *)
(***************************************************************************)
EXTENDS Naturals, Sequences

CONSTANTS Keys, QueueSize, Gap

VARIABLES now, pending, admitted

vars == <<now, pending, admitted>>

Never == 0

Init == now = 1 /\ pending = <<>> /\ admitted = [k \in Keys |-> Never]

(* One admission of k: there is room, and the last one is Gap ago.         *)
Admit(k) ==
    /\ Len(pending) < QueueSize
    /\ admitted[k] = Never \/ admitted[k] + Gap <= now
    /\ pending' = Append(pending, k)
    /\ admitted' = [admitted EXCEPT ![k] = now]
    /\ UNCHANGED now

Deliver ==
    /\ pending # <<>>
    /\ pending' = Tail(pending)
    /\ UNCHANGED <<now, admitted>>

Elapse == now' = now + 1 /\ UNCHANGED <<pending, admitted>>

Next == (\E k \in Keys : Admit(k)) \/ Deliver \/ Elapse

Spec == Init /\ [][Next]_vars
=============================================================================
