------------------------------ MODULE StateFile ------------------------------
(***************************************************************************)
(* The state files of the agent: saveState and loadState                   *)
(* (internal/agent/state.go), the goroutines that save, the start in main  *)
(* that loads, and stops of the process at any moment in between.          *)
(*                                                                         *)
(* The state behind a file is a version, the number of changes since it    *)
(* was empty.  The operating system outlives the process: what was written *)
(* to a file stays there.                                                  *)
(***************************************************************************)
EXTENDS Naturals

CONSTANTS
    Files,      \* the files, each saved under the lock of its owner
    Lenient,    \* those a start can do without: the budget and the plans
    MaxVersion  \* bound on the versions

ASSUME StateAssumption == Lenient \subseteq Files /\ MaxVersion \in Nat

VARIABLES
    running,  \* whether main got past loading
    memory,   \* the version each owner has
    writer,   \* where each owner is in saveState
    path,     \* what is at the path of a file
    temp,     \* what is at its temporary path
    saved,    \* history: the latest version whose save returned nil
    dropped   \* history: whether a start went on without the file

vars == <<running, memory, writer, path, temp, saved, dropped>>

Versions == 0..MaxVersion
Torn == MaxVersion + 1    \* no JSON: a part of a version, or nothing at all
Missing == MaxVersion + 2 \* no file

Contents == Versions \cup {Torn, Missing}

(* Mutation: a file that does not exist is no empty state.                 *)
VersionRaw(content) == content

(* What loadState finds in a file that is no error to it.                  *)
Version(content) == IF content = Missing THEN 0 ELSE content

TypeOK ==
    /\ running \in BOOLEAN
    /\ memory \in [Files -> Versions]
    /\ writer \in [Files -> {"idle", "open", "write", "rename"}]
    /\ path \in [Files -> Contents] /\ temp \in [Files -> Contents]
    /\ saved \in [Files -> Versions]
    /\ dropped \in [Files -> BOOLEAN]
    /\ ~running => \A f \in Files : writer[f] = "idle"

Init ==
    /\ running = TRUE
    /\ memory = [f \in Files |-> 0]
    /\ writer = [f \in Files |-> "idle"]
    /\ path = [f \in Files |-> Missing]
    /\ temp = [f \in Files |-> Missing]
    /\ saved = [f \in Files |-> 0]
    /\ dropped = [f \in Files |-> FALSE]

-----------------------------------------------------------------------------
(* saveState                                                               *)

Goto(f, w) == writer' = [writer EXCEPT ![f] = w]

(* The owner changes its state and calls saveState, still under its lock.  *)
Change(f) ==
    /\ running /\ writer[f] = "idle" /\ memory[f] < MaxVersion
    /\ memory' = [memory EXCEPT ![f] = @ + 1]
    /\ Goto(f, "open")
    /\ UNCHANGED <<running, path, temp, saved, dropped>>

(* Mutation: the file itself is written.                                   *)
OpenInPlace(f) ==
    /\ writer[f] = "open"
    /\ path' = [path EXCEPT ![f] = Torn] /\ temp' = [temp EXCEPT ![f] = memory[f]]
    /\ Goto(f, "rename")
    /\ UNCHANGED <<running, memory, saved, dropped>>

(* WriteFile truncates the temporary file, or creates it.                  *)
Open(f) ==
    /\ writer[f] = "open"
    /\ temp' = [temp EXCEPT ![f] = Torn]
    /\ Goto(f, "write")
    /\ UNCHANGED <<running, memory, path, saved, dropped>>

(* WriteFile has written all of it.                                        *)
Write(f) ==
    /\ writer[f] = "write"
    /\ temp' = [temp EXCEPT ![f] = memory[f]]
    /\ Goto(f, "rename")
    /\ UNCHANGED <<running, memory, path, saved, dropped>>

(* The rename, and saveState returns nil.                                  *)
Rename(f) ==
    /\ writer[f] = "rename"
    /\ path' = [path EXCEPT ![f] = temp[f]] /\ temp' = [temp EXCEPT ![f] = Missing]
    /\ saved' = [saved EXCEPT ![f] = IF memory[f] > @ THEN memory[f] ELSE @]
    /\ Goto(f, "idle")
    /\ UNCHANGED <<running, memory, dropped>>

(* Mutation: an error of WriteFile is not looked at.                       *)
FailGoesOn(f) ==
    /\ writer[f] # "idle"
    /\ Goto(f, IF writer[f] = "write" THEN "rename" ELSE "idle")
    /\ UNCHANGED <<running, memory, path, temp, saved, dropped>>

(* MkdirAll, WriteFile or Rename fails; what it did so far stays.  The     *)
(* owner logs the error and goes on.                                       *)
Fail(f) ==
    /\ writer[f] # "idle"
    /\ Goto(f, "idle")
    /\ UNCHANGED <<running, memory, path, temp, saved, dropped>>

-----------------------------------------------------------------------------
(* The process.                                                            *)

(* It ends, killed or because run returned, wherever its goroutines are.   *)
Stop ==
    /\ running
    /\ running' = FALSE
    /\ writer' = [f \in Files |-> "idle"]
    /\ UNCHANGED <<memory, path, temp, saved, dropped>>

(* loadState returns no error if the file can be read.                     *)
Loads(f) == path[f] # Torn

(* Mutation: a start does without any file.                                *)
StartLenient ==
    /\ ~running
    /\ \E unread \in SUBSET Files :
        /\ \A f \in Files \ unread : Loads(f)
        /\ memory' = [f \in Files |-> IF f \in unread THEN 0 ELSE Version(path[f])]
        /\ dropped' = [f \in Files |-> dropped[f] \/ f \in unread]
    /\ running' = TRUE
    /\ UNCHANGED <<writer, path, temp, saved>>

(* The owners load their files.  Any of them may be unreadable for the     *)
(* moment: newCallBudget and newAdaptivePlanRegistry then start empty.     *)
Start ==
    /\ ~running
    /\ \E unread \in SUBSET Lenient :
        /\ \A f \in Files \ unread : Loads(f)
        /\ memory' = [f \in Files |-> IF f \in unread THEN 0 ELSE Version(path[f])]
        /\ dropped' = [f \in Files |-> dropped[f] \/ f \in unread]
    /\ running' = TRUE
    /\ UNCHANGED <<writer, path, temp, saved>>

(* NewPatternCatalog returns the error of loadState, run returns it, and   *)
(* the process ends.                                                       *)
StartFails == ~running /\ Files \ Lenient # {} /\ UNCHANGED vars

Next ==
    \/ \E f \in Files : Change(f) \/ Open(f) \/ Write(f) \/ Rename(f) \/ Fail(f)
    \/ Stop \/ Start \/ StartFails

Spec == Init /\ [][Next]_vars

(* A process that ended is started again until it starts.                  *)
FairSpec == Spec /\ WF_vars(Start)

-----------------------------------------------------------------------------
(* Properties.                                                             *)

(* saveState (state.go:34-38): whatever step of a save fails or is the     *)
(* last one of the process, the file has a version that was saved as a     *)
(* whole.                                                                  *)
NeverTorn == \A f \in Files : path[f] # Torn

(* saveState, loadState and the start (state.go:9-39, main.go:30-33): what *)
(* a save that returned nil wrote is what is read at later starts, unless  *)
(* a later version took its place.  Only the files a start can do without  *)
(* may fall back, after one that did so; the catalog never does.           *)
Durable ==
    \A f \in Files : Version(path[f]) < saved[f] => f \in Lenient /\ dropped[f]

(* run (main.go:30-33): after a stop at any moment, also in the middle of  *)
(* a save, the agent can be started again.                                 *)
StartsAgain == ~running ~> running

(* saveState and loadState implement the atomic file.                      *)
Abstract == INSTANCE AtomicFile WITH content <- [f \in Files |-> Version(path[f])]
ImplementsAtomicFile == Abstract!Spec
=============================================================================
