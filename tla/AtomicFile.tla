----------------------------- MODULE AtomicFile -----------------------------
(***************************************************************************)
(* What the modules with a state file take it to be: a save replaces the   *)
(* content by what is in memory in one step or not at all, and a start     *)
(* reads the content or, where that is tolerated, nothing.  StateFile      *)
(* implements it.                                                          *)
(***************************************************************************)
EXTENDS Naturals

CONSTANTS Files, Lenient, MaxVersion

VARIABLES memory, content

vars == <<memory, content>>

Init == memory = [f \in Files |-> 0] /\ content = [f \in Files |-> 0]

Change(f) ==
    /\ memory[f] < MaxVersion
    /\ memory' = [memory EXCEPT ![f] = @ + 1]
    /\ UNCHANGED content

Save(f) == content' = [content EXCEPT ![f] = memory[f]] /\ UNCHANGED memory

Load ==
    /\ \E forgotten \in SUBSET Lenient :
        memory' = [f \in Files |-> IF f \in forgotten THEN 0 ELSE content[f]]
    /\ UNCHANGED content

Next == (\E f \in Files : Change(f) \/ Save(f)) \/ Load

Spec == Init /\ [][Next]_vars
=============================================================================
