--------------------------- MODULE StateFileProofs ---------------------------
(***************************************************************************)
(* Proofs about StateFile, for any files and any number of versions.       *)
(***************************************************************************)
EXTENDS StateFile, TLAPS

(* What is about to be renamed is the whole of the state in memory.        *)
TempIsWhole == \A f \in Files : writer[f] = "rename" => temp[f] = memory[f]

(* Only a start that went on without the file lets memory fall behind it.  *)
MemoryAhead == running => \A f \in Files : dropped[f] \/ Version(path[f]) <= memory[f]

(* Only a save after such a start takes an older version.                  *)
SavedIsThere == \A f \in Files : dropped[f] \/ saved[f] <= Version(path[f])

DroppedIsLenient == \A f \in Files : dropped[f] => f \in Lenient

FileInv == TypeOK /\ NeverTorn /\ TempIsWhole
SaveInv == FileInv /\ MemoryAhead /\ SavedIsThere /\ DroppedIsLenient

(* A version, a torn file and a missing one are three different things.    *)
LEMMA ContentsDiffer ==
    /\ Torn \in Nat /\ Missing \in Nat /\ Torn # Missing
    /\ Torn \notin Versions /\ Missing \notin Versions /\ 0 \in Versions
    /\ \A v \in Versions : v \in Nat /\ Version(v) = v
    /\ Version(Missing) = 0
    /\ \A c \in Contents : c # Torn => Version(c) \in Versions
    BY StateAssumption DEF StateAssumption, Versions, Torn, Missing, Version, Contents

-----------------------------------------------------------------------------
(* The types, and that a file is never torn, hold in the initial state.    *)
LEMMA InitFileInv == Init => FileInv
<1> SUFFICES ASSUME Init PROVE FileInv
    OBVIOUS
<1>1. TypeOK
    BY ContentsDiffer DEF Init, TypeOK, Contents
<1>2. NeverTorn /\ TempIsWhole
    BY ContentsDiffer DEF Init, NeverTorn, TempIsWhole
<1> QED
    BY <1>1, <1>2 DEF FileInv

(* They hold after every step of a save.                                   *)
LEMMA SaveFileInv ==
    ASSUME FileInv, NEW f \in Files, Change(f) \/ Open(f) \/ Write(f) \/ Rename(f) \/ Fail(f)
    PROVE  FileInv'
<1> USE DEF FileInv
<1>1. CASE Change(f)
  <2>1. memory[f] + 1 \in Versions
    BY <1>1, StateAssumption DEF Change, TypeOK, Versions, StateAssumption
  <2>2. TypeOK'
    BY <1>1, <2>1 DEF Change, Goto, TypeOK
  <2>3. NeverTorn' /\ TempIsWhole'
    BY <1>1 DEF Change, Goto, TypeOK, NeverTorn, TempIsWhole
  <2> QED
    BY <2>2, <2>3
<1>2. CASE Open(f)
  <2>1. TypeOK'
    BY <1>2 DEF Open, Goto, TypeOK, Contents
  <2>2. NeverTorn' /\ TempIsWhole'
    BY <1>2 DEF Open, Goto, TypeOK, NeverTorn, TempIsWhole
  <2> QED
    BY <2>1, <2>2
<1>3. CASE Write(f)
  <2>1. TypeOK'
    BY <1>3 DEF Write, Goto, TypeOK, Contents
  <2>2. NeverTorn' /\ TempIsWhole'
    BY <1>3 DEF Write, Goto, TypeOK, NeverTorn, TempIsWhole
  <2> QED
    BY <2>1, <2>2
<1>4. CASE Rename(f)
  <2>1. TypeOK'
    BY <1>4 DEF Rename, Goto, TypeOK, Contents
  <2>2. NeverTorn' /\ TempIsWhole'
    BY <1>4, ContentsDiffer DEF Rename, Goto, TypeOK, NeverTorn, TempIsWhole
  <2> QED
    BY <2>1, <2>2
<1>5. CASE Fail(f)
  <2>1. TypeOK'
    BY <1>5 DEF Fail, Goto, TypeOK
  <2>2. NeverTorn' /\ TempIsWhole'
    BY <1>5 DEF Fail, Goto, TypeOK, NeverTorn, TempIsWhole
  <2> QED
    BY <2>1, <2>2
<1> QED
    BY <1>1, <1>2, <1>3, <1>4, <1>5

(* And after every other step.                                             *)
LEMMA FileStep == FileInv /\ [Next]_vars => FileInv'
<1> SUFFICES ASSUME FileInv, [Next]_vars PROVE FileInv'
    OBVIOUS
<1> USE DEF FileInv
<1>1. ASSUME NEW f \in Files, Change(f) \/ Open(f) \/ Write(f) \/ Rename(f) \/ Fail(f) PROVE FileInv'
    BY <1>1, SaveFileInv
<1>2. CASE Stop
    BY <1>2 DEF Stop, TypeOK, NeverTorn, TempIsWhole
<1>3. CASE Start
  <2>1. PICK unread \in SUBSET Lenient :
            /\ memory' = [f \in Files |-> IF f \in unread THEN 0 ELSE Version(path[f])]
            /\ dropped' = [f \in Files |-> dropped[f] \/ f \in unread]
    BY <1>3 DEF Start
  <2>2. memory' \in [Files -> Versions]
    BY <2>1, ContentsDiffer DEF TypeOK, NeverTorn
  <2>3. dropped' \in [Files -> BOOLEAN]
    BY <2>1 DEF TypeOK
  <2>4. TypeOK'
    BY <1>3, <2>2, <2>3 DEF Start, TypeOK
  <2>5. NeverTorn' /\ TempIsWhole'
    BY <1>3 DEF Start, TypeOK, NeverTorn, TempIsWhole
  <2> QED
    BY <2>4, <2>5
<1>4. CASE StartFails \/ UNCHANGED vars
    BY <1>4 DEF StartFails, vars, TypeOK, NeverTorn, TempIsWhole
<1> QED
    BY <1>1, <1>2, <1>3, <1>4 DEF Next

(* The types, and that what is renamed is whole.                           *)
LEMMA FileInvHolds == Spec => []FileInv
    BY InitFileInv, FileStep, PTL DEF Spec

(* The files and what is in memory keep their types.                       *)
THEOREM TypeCorrect == Spec => []TypeOK
<1>1. FileInv => TypeOK
    BY DEF FileInv
<1> QED
    BY <1>1, FileInvHolds, PTL

(* Whatever step of a save fails or is the last one, the file is whole     *)
(* (saveState, state.go:34-38).                                            *)
THEOREM NeverTornCorrect == Spec => []NeverTorn
<1>1. FileInv => NeverTorn
    BY DEF FileInv
<1> QED
    BY <1>1, FileInvHolds, PTL

-----------------------------------------------------------------------------
(* The order of versions is kept by every step.                            *)
LEMMA SaveStep == SaveInv /\ [Next]_vars => SaveInv'
<1> SUFFICES ASSUME SaveInv, [Next]_vars PROVE MemoryAhead' /\ SavedIsThere' /\ DroppedIsLenient'
    BY FileStep DEF SaveInv
<1> USE DEF SaveInv, FileInv
<1>0. /\ \A f \in Files : Version(path[f]) \in Nat /\ memory[f] \in Nat /\ saved[f] \in Nat
      /\ \A f \in Files : memory[f] \in Versions
    BY ContentsDiffer DEF TypeOK, NeverTorn
<1>1. ASSUME NEW f \in Files, Change(f) PROVE MemoryAhead' /\ SavedIsThere' /\ DroppedIsLenient'
  <2>1. \A g \in Files : memory'[g] = IF g = f THEN memory[g] + 1 ELSE memory[g]
    BY <1>1 DEF Change, TypeOK
  <2>2. \A g \in Files : memory'[g] >= memory[g] /\ memory'[g] \in Nat
    BY <1>0, <2>1
  <2>3. MemoryAhead'
    BY <1>0, <1>1, <2>2 DEF Change, MemoryAhead
  <2> QED
    BY <1>1, <2>3 DEF Change, SavedIsThere, DroppedIsLenient
<1>2. ASSUME NEW f \in Files, Open(f) \/ Write(f) \/ Fail(f)
      PROVE  MemoryAhead' /\ SavedIsThere' /\ DroppedIsLenient'
    BY <1>2 DEF Open, Write, Fail, MemoryAhead, SavedIsThere, DroppedIsLenient
<1>3. ASSUME NEW f \in Files, Rename(f) PROVE MemoryAhead' /\ SavedIsThere' /\ DroppedIsLenient'
  <2>1. running
    BY <1>3 DEF Rename, TypeOK
  <2>2. \A g \in Files \ {f} : path'[g] = path[g] /\ saved'[g] = saved[g]
    BY <1>3 DEF Rename, TypeOK
  <2>3. Version(path'[f]) = memory[f]
    BY <1>0, <1>3, ContentsDiffer DEF Rename, TypeOK, TempIsWhole
  <2>4. saved'[f] = IF memory[f] > saved[f] THEN memory[f] ELSE saved[f]
    BY <1>3 DEF Rename, TypeOK
  <2>5. dropped[f] \/ saved[f] <= memory[f]
    BY <1>0, <2>1 DEF MemoryAhead, SavedIsThere
  <2>6. MemoryAhead'
    BY <1>0, <1>3, <2>1, <2>2, <2>3 DEF Rename, MemoryAhead
  <2>7. dropped'[f] \/ saved'[f] <= Version(path'[f])
    BY <1>0, <1>3, <2>3, <2>4, <2>5 DEF Rename
  <2>8. SavedIsThere'
    BY <1>3, <2>2, <2>7 DEF Rename, SavedIsThere
  <2> QED
    BY <1>3, <2>6, <2>8 DEF Rename, DroppedIsLenient
<1>4. CASE Stop
    BY <1>4 DEF Stop, MemoryAhead, SavedIsThere, DroppedIsLenient
<1>5. CASE Start
  <2>1. PICK unread \in SUBSET Lenient :
            /\ memory' = [f \in Files |-> IF f \in unread THEN 0 ELSE Version(path[f])]
            /\ dropped' = [f \in Files |-> dropped[f] \/ f \in unread]
    BY <1>5 DEF Start
  <2>2. UNCHANGED <<path, saved>>
    BY <1>5 DEF Start
  <2>3. \A f \in Files : dropped'[f] <=> (dropped[f] \/ f \in unread)
    BY <2>1
  <2>4. MemoryAhead'
    BY <1>0, <2>1, <2>2, <2>3 DEF MemoryAhead
  <2>5. SavedIsThere' /\ DroppedIsLenient'
    BY <2>1, <2>2, <2>3 DEF SavedIsThere, DroppedIsLenient
  <2> QED
    BY <2>4, <2>5
<1>6. CASE StartFails \/ UNCHANGED vars
    BY <1>6 DEF StartFails, vars, MemoryAhead, SavedIsThere, DroppedIsLenient
<1> QED
    BY <1>1, <1>2, <1>3, <1>4, <1>5, <1>6 DEF Next

(* What a save that returned nil wrote is read at later starts, unless a   *)
(* newer version took its place or a start went on without the file        *)
(* (saveState and loadState, state.go:9-39).                               *)
THEOREM DurableCorrect == Spec => []Durable
<1>1. Init => SaveInv
  <2> SUFFICES ASSUME Init PROVE MemoryAhead /\ SavedIsThere /\ DroppedIsLenient
    BY InitFileInv DEF SaveInv
  <2> QED
    BY ContentsDiffer DEF Init, MemoryAhead, SavedIsThere, DroppedIsLenient
<1>2. SaveInv => Durable
  <2> SUFFICES ASSUME SaveInv, NEW f \in Files, Version(path[f]) < saved[f]
               PROVE  f \in Lenient /\ dropped[f]
    BY DEF Durable
  <2>1. Version(path[f]) \in Nat /\ saved[f] \in Nat
    BY ContentsDiffer DEF SaveInv, FileInv, TypeOK, NeverTorn
  <2>2. dropped[f]
    BY <2>1 DEF SaveInv, SavedIsThere
  <2> QED
    BY <2>2 DEF SaveInv, DroppedIsLenient
<1> QED
    BY <1>1, <1>2, SaveStep, PTL DEF Spec

-----------------------------------------------------------------------------
(* A save is one step on an atomic file, and a start reads it: what the    *)
(* other modules take a state file to be (state.go:9-39).                  *)
THEOREM ImplementsCorrect == Spec => ImplementsAtomicFile
<1>1. Init => Abstract!Init
    BY ContentsDiffer DEF Init, Abstract!Init
<1>2. FileInv /\ [Next]_vars => [Abstract!Next]_Abstract!vars
  <2> SUFFICES ASSUME FileInv, [Next]_vars
               PROVE  Abstract!Next \/ UNCHANGED Abstract!vars
    BY DEF Abstract!vars
  <2> USE DEF FileInv
  <2>1. ASSUME NEW f \in Files, Change(f) PROVE Abstract!Change(f)
    BY <2>1 DEF Change, Abstract!Change
  <2>2. ASSUME NEW f \in Files, Rename(f) PROVE Abstract!Save(f)
    <3>1. Version(path'[f]) = memory[f] /\ memory' = memory
      BY <2>2, ContentsDiffer DEF Rename, TypeOK, TempIsWhole
    <3>2. \A g \in Files \ {f} : path'[g] = path[g]
      BY <2>2 DEF Rename, TypeOK
    <3> QED
      BY <3>1, <3>2 DEF Abstract!Save
  <2>3. Start => Abstract!Load
    <3> SUFFICES ASSUME Start PROVE Abstract!Load
      OBVIOUS
    <3>1. PICK unread \in SUBSET Lenient :
              memory' = [f \in Files |-> IF f \in unread THEN 0 ELSE Version(path[f])]
      BY DEF Start
    <3>2. memory' = [f \in Files |-> IF f \in unread THEN 0 ELSE [g \in Files |-> Version(path[g])][f]]
      BY <3>1
    <3>3. UNCHANGED path
      BY DEF Start
    <3> QED
      BY <3>2, <3>3 DEF Abstract!Load
  <2>4. ASSUME NEW f \in Files, Open(f) \/ Write(f) \/ Fail(f) PROVE UNCHANGED Abstract!vars
    BY <2>4 DEF Open, Write, Fail, Abstract!vars
  <2>5. CASE Stop \/ StartFails \/ UNCHANGED vars
    BY <2>5 DEF Stop, StartFails, vars, Abstract!vars
  <2> QED
    BY <2>1, <2>2, <2>3, <2>4, <2>5 DEF Next, Abstract!Next
<1> QED
    BY <1>1, <1>2, FileInvHolds, PTL DEF Spec, ImplementsAtomicFile, Abstract!Spec
=============================================================================
