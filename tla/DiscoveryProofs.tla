-------------------------- MODULE DiscoveryProofs --------------------------
(***************************************************************************)
(* Proofs about Discovery, for any services, templates and limits, any     *)
(* delay of Loki, and any number of polls, failed saves and restarts.      *)
(***************************************************************************)
EXTENDS Discovery, FiniteSetTheorems, WellFoundedInduction, TLAPS

-----------------------------------------------------------------------------
(* Facts about finite sets and time stamps.                                *)

(* A set of naturals with an upper bound has a largest element.            *)
LEMMA Largest ==
    ASSUME NEW S \in SUBSET Nat, S # {}, NEW bound \in Nat, \A x \in S : x <= bound
    PROVE  Max(S) \in S /\ \A x \in S : x <= Max(S)
<1> DEFINE gaps == {bound - x : x \in S}
           less == OpToRel(<, Nat)
<1>0. \A x \in S : x \in Nat /\ bound - x \in Nat
    OBVIOUS
<1>1. gaps \subseteq Nat /\ gaps # {}
    BY <1>0
<1>2. PICK g \in gaps : \A h \in gaps : ~(<<h, g>> \in less)
    BY <1>1, NatLessThanWellFounded, WFMin
<1>3. \A h \in gaps : ~(h < g)
    BY <1>1, <1>2 DEF OpToRel
<1>4. PICK top \in S : g = bound - top
    OBVIOUS
<1>5. \A x \in S : ~(bound - x < bound - top)
    BY <1>3, <1>4
<1>6. \A x \in S : top >= x
    BY <1>0, <1>5
<1> QED
    BY <1>0, <1>4, <1>6 DEF Max

(* Finite sets are counted, and a part of one has no more elements.        *)
LEMMA Counts ==
    ASSUME NEW T, IsFiniteSet(T), NEW S \in SUBSET T
    PROVE  /\ IsFiniteSet(S)
           /\ Cardinality(S) \in Nat /\ Cardinality(T) \in Nat
           /\ Cardinality(S) <= Cardinality(T)
BY FS_Subset, FS_CardinalityType

LEMMA IdsFinite == IsFiniteSet(Ids)
BY DiscoveryAssumption, FS_Product DEF Ids

LEMMA PresentFinite ==
    ASSUME NEW m
    PROVE  IsFiniteSet(Present(m)) /\ Cardinality(Present(m)) \in Nat
<1>1. Present(m) \in SUBSET Ids
    BY DEF Present
<1> QED
    BY <1>1, IdsFinite, Counts

-----------------------------------------------------------------------------
(* The inductive invariant.                                                *)

Entries == Pattern \cup {Absent}

(* The records of a pattern in a log, and those up to the cursor of its    *)
(* service, which cannot count again.                                      *)
RecordsIn(log, id) == {r \in log : r.service = id[1] /\ r.template = id[2]}
Passed(log, id, c) == {r \in RecordsIn(log, id) : r.at <= c[id[1]]}

(* A catalog counts no more than the records its cursors have passed, and  *)
(* knows no pattern before its time.  This holds of the file as well, for  *)
(* its cursors.                                                            *)
Sound(m, c, log) ==
    \A id \in Present(m) :
        /\ m[id].count <= Cardinality(Passed(log, id, c))
        /\ m[id].known => Cardinality(RecordsIn(log, id)) >= AutoPromote

(* Loki shows finitely many records, none of the future.                   *)
LokiInv == IsFiniteSet(emitted) /\ \A r \in emitted : r.at <= now

(* The file holds what memory holds, unless the last save failed, and it   *)
(* never holds too much.                                                   *)
FileInv ==
    /\ ~unsaved => disk.patterns = patterns
    /\ Cardinality(Present(disk.patterns)) <= MaxPatterns

(* What was reported is marked as such.                                    *)
ToldIsMarked == \A id \in told : id \in Present(patterns) /\ patterns[id].alerted

DInv ==
    /\ TypeOK
    /\ LokiInv
    /\ FileInv
    /\ Sound(patterns, cursors, emitted) /\ Sound(disk.patterns, disk.cursors, emitted)
    /\ ToldIsMarked

LEMMA InitDInv == Init => DInv
<1> SUFFICES ASSUME Init PROVE DInv
    OBVIOUS
<1>1. Present(patterns) = {} /\ disk.patterns = patterns
    BY DEF Init, Present
<1>2. Cardinality(Present(patterns)) = 0 /\ 0 <= MaxPatterns
    BY <1>1, FS_EmptySet, DiscoveryAssumption
<1>3. patterns \in [Ids -> Entries] /\ cursors \in [Services -> Nat]
    BY DEF Init, Entries
<1>4. disk \in [cursors : [Services -> Nat], patterns : [Ids -> Entries]]
    BY <1>3 DEF Init
<1>5. unsaved \in BOOLEAN
    BY Zenon DEF Init
<1>6. TypeOK
    BY <1>2, <1>3, <1>4, <1>5 DEF Init, TypeOK, Entries
<1>7. LokiInv
    BY FS_EmptySet DEF Init, LokiInv
<1>8. FileInv
    BY <1>1, <1>2 DEF FileInv
<1>9. Sound(patterns, cursors, emitted) /\ Sound(disk.patterns, disk.cursors, emitted)
    BY <1>1 DEF Sound
<1> QED
    BY <1>6, <1>7, <1>8, <1>9 DEF Init, DInv, ToldIsMarked

-----------------------------------------------------------------------------
(* What records do to a catalog that is sound.                             *)

LEMMA EntryFields ==
    /\ Absent.count = 0
    /\ \A e \in Pattern : e # Absent /\ e.count \in Nat \ {0} /\ e.known \in BOOLEAN /\ e.alerted \in BOOLEAN
    /\ \A e \in Entries : e.count \in Nat /\ (e # Absent => e \in Pattern)
BY DEF Absent, Pattern, Entries

LEMMA RecordCounts ==
    ASSUME NEW log, IsFiniteSet(log), NEW id, NEW c
    PROVE  /\ IsFiniteSet(RecordsIn(log, id)) /\ Cardinality(RecordsIn(log, id)) \in Nat
           /\ IsFiniteSet(Passed(log, id, c)) /\ Cardinality(Passed(log, id, c)) \in Nat
           /\ Cardinality(Passed(log, id, c)) <= Cardinality(RecordsIn(log, id))
<1>1. RecordsIn(log, id) \in SUBSET log /\ Passed(log, id, c) \in SUBSET RecordsIn(log, id)
    BY DEF RecordsIn, Passed
<1> QED
    BY <1>1, Counts

(* A longer log leaves a catalog sound.                                    *)
LEMMA SoundGrows ==
    ASSUME NEW m \in [Ids -> Entries], NEW c, NEW log, NEW longer,
           IsFiniteSet(longer), log \subseteq longer, Sound(m, c, log)
    PROVE  Sound(m, c, longer)
<1> SUFFICES ASSUME NEW id \in Present(m)
             PROVE  /\ m[id].count <= Cardinality(Passed(longer, id, c))
                    /\ m[id].known => Cardinality(RecordsIn(longer, id)) >= AutoPromote
    BY DEF Sound
<1>1. IsFiniteSet(log)
    BY Counts
<1>2. Cardinality(Passed(log, id, c)) <= Cardinality(Passed(longer, id, c))
    <2>1. Passed(log, id, c) \in SUBSET Passed(longer, id, c)
        BY DEF Passed, RecordsIn
    <2> QED
        BY <2>1, RecordCounts, Counts
<1>3. Cardinality(RecordsIn(log, id)) <= Cardinality(RecordsIn(longer, id))
    <2>1. RecordsIn(log, id) \in SUBSET RecordsIn(longer, id)
        BY DEF RecordsIn
    <2> QED
        BY <2>1, RecordCounts, Counts
<1>4. /\ m[id].count <= Cardinality(Passed(log, id, c))
      /\ m[id].known => Cardinality(RecordsIn(log, id)) >= AutoPromote
    BY DEF Sound
<1>5. /\ m[id].count \in Nat /\ AutoPromote \in Nat
      /\ Cardinality(Passed(log, id, c)) \in Nat /\ Cardinality(Passed(longer, id, c)) \in Nat
      /\ Cardinality(RecordsIn(log, id)) \in Nat /\ Cardinality(RecordsIn(longer, id)) \in Nat
    BY <1>1, RecordCounts, EntryFields, DiscoveryAssumption DEF Present
<1>6. m[id].count <= Cardinality(Passed(longer, id, c))
    BY <1>2, <1>4, <1>5
<1>7. ASSUME m[id].known PROVE Cardinality(RecordsIn(longer, id)) >= AutoPromote
    BY <1>3, <1>4, <1>5, <1>7
<1> QED
    BY <1>6, <1>7

(* Eviction leaves no more than MaxPatterns entries and changes none.      *)
LEMMA EvictionsKeep ==
    ASSUME NEW m \in [Ids -> Entries], NEW n \in Evictions(m)
    PROVE  /\ n \in [Ids -> Entries]
           /\ \A id \in Ids : n[id] = m[id] \/ n[id] = Absent
           /\ Cardinality(Present(n)) <= MaxPatterns
<1>1. CASE Cardinality(Present(m)) <= MaxPatterns
    BY <1>1 DEF Evictions
<1>2. CASE ~(Cardinality(Present(m)) <= MaxPatterns)
    <2>1. PICK kept \in kSubset(MaxPatterns, Present(m)) :
              n = [id \in Ids |-> IF id \in kept THEN m[id] ELSE Absent]
        BY <1>2 DEF Evictions
    <2>2. kept \in SUBSET Present(m) /\ Cardinality(kept) = MaxPatterns
        BY <2>1 DEF kSubset
    <2>3. n \in [Ids -> Entries] /\ \A id \in Ids : n[id] = IF id \in kept THEN m[id] ELSE Absent
        BY <2>1 DEF Entries
    <2>4. Present(n) = kept
        BY <2>2, <2>3 DEF Present
    <2>5. Cardinality(Present(n)) <= MaxPatterns
        BY <2>2, <2>4, DiscoveryAssumption
    <2> QED
        BY <2>3, <2>5
<1> QED
    BY <1>1, <1>2

(* A pattern after the samples of a poll that came after the cursor.       *)
LEMMA LearnedFacts ==
    ASSUME patterns \in [Ids -> Entries], NEW fresh, IsFiniteSet(fresh), NEW top \in Nat,
           \A r \in fresh : r.at \in Nat /\ r.at <= top,
           NEW learn \in BOOLEAN, NEW id \in Ids
    PROVE  LET new == Learned(id, fresh, learn)
               n == Cardinality(Counted(fresh, id))
           IN  /\ IsFiniteSet(Counted(fresh, id)) /\ n \in Nat
               /\ new \in Entries
               /\ new.count = patterns[id].count + n
               /\ new = Absent => patterns[id] = Absent
               /\ new # Absent /\ new.known =>
                    \/ patterns[id] # Absent /\ patterns[id].known
                    \/ new.count >= AutoPromote
               /\ patterns[id] # Absent /\ patterns[id].alerted => new.alerted
               /\ id \in Novel(fresh, learn) => new # Absent /\ new.alerted
<1> DEFINE new == Learned(id, fresh, learn)
           counted == Counted(fresh, id)
           n == Cardinality(counted)
           old == patterns[id]
<1>1. IsFiniteSet(counted) /\ n \in Nat /\ counted \in SUBSET fresh
    <2>1. counted \in SUBSET fresh
        BY DEF Counted
    <2> QED
        BY <2>1, Counts
<1>2. n = 0 <=> counted = {}
    BY <1>1, FS_EmptySet
<1>3. old \in Entries
    OBVIOUS
<1>4. CASE n = 0
    <2>1. new = old
        BY <1>4 DEF Learned
    <2>2. id \notin Novel(fresh, learn)
        BY <1>2, <1>4 DEF Novel
    <2>3. old.count \in Nat
        BY <1>3, EntryFields
    <2> QED
        BY <1>1, <1>3, <1>4, <2>1, <2>2, <2>3
<1>5. CASE n # 0
    <2>1. Latest(counted) \in Nat
        <3>1. {r.at : r \in counted} \subseteq Nat /\ {r.at : r \in counted} # {}
            BY <1>1, <1>2, <1>5
        <3>2. \A x \in {r.at : r \in counted} : x <= top
            BY <1>1
        <3> HIDE DEF counted
        <3> QED
            BY <3>1, <3>2, Largest DEF Latest
    <2>2. old.count \in Nat
        BY <1>3, EntryFields
    <2>3. new = [count |-> old.count + n,
                 known |-> (old # Absent /\ old.known) \/ Promoted(old.count + n, learn),
                 alerted |-> (old # Absent /\ old.alerted) \/ id \in Novel(fresh, learn),
                 last |-> Latest(counted)]
        BY <1>5 DEF Learned
    <2>4. PICK k \in BOOLEAN, l \in BOOLEAN :
              /\ k = ((old # Absent /\ old.known) \/ Promoted(old.count + n, learn))
              /\ l = ((old # Absent /\ old.alerted) \/ id \in Novel(fresh, learn))
        BY Zenon
    <2>5. new = [count |-> old.count + n, known |-> k, alerted |-> l, last |-> Latest(counted)]
        BY <2>3, <2>4, Zenon
    <2> HIDE DEF new, old, n, counted
    <2>6. new.count = old.count + n /\ new.known = k /\ new.alerted = l
        BY <2>5
    <2>7. /\ new.known <=> (old # Absent /\ old.known) \/ Promoted(old.count + n, learn)
          /\ new.alerted <=> (old # Absent /\ old.alerted) \/ id \in Novel(fresh, learn)
        BY <2>4, <2>6, Zenon
    <2>8. new \in Pattern
        BY <1>1, <1>5, <2>1, <2>2, <2>5 DEF Pattern
    <2>9. new \in Entries /\ new # Absent
        BY <2>8, EntryFields DEF Entries
    <2>10. new.known => (old # Absent /\ old.known) \/ new.count >= AutoPromote
        BY <2>6, <2>7 DEF Promoted
    <2> QED
        BY <1>1, <2>6, <2>7, <2>9, <2>10 DEF new, old, n, counted
<1> QED
    BY <1>4, <1>5

-----------------------------------------------------------------------------
(* One poll of a service.                                                  *)

(* What Loki answers is of the log.                                        *)
LEMMA AnswersShown ==
    ASSUME NEW s \in Services, NEW logs \in Answers(s)
    PROVE  logs \subseteq emitted /\ \A r \in logs : r.service = s
<1> DEFINE shown == {r \in emitted : r.service = s /\ r.at + Lookback >= now}
           size == IF Cardinality(shown) < MaxSamples THEN Cardinality(shown) ELSE MaxSamples
<1>1. logs = {} \/ logs \in kSubset(size, shown)
    BY DEF Answers
<1> HIDE DEF size
<1>2. logs \subseteq shown
    BY <1>1 DEF kSubset
<1> QED
    BY <1>2

(* The cursor of a polled service moves over what was fresh, no other does. *)
LEMMA CursorMoves ==
    ASSUME DInv, NEW s \in Services, NEW logs \in Answers(s), ObserveService(s, logs)
    PROVE  LET fresh == Fresh(s, logs)
           IN  /\ fresh \subseteq emitted /\ IsFiniteSet(fresh)
               /\ \A r \in fresh : /\ r.service = s /\ r.at \in Nat /\ r.at <= now
                                  /\ cursors[s] < r.at /\ r.at <= cursors'[s]
               /\ cursors' \in [Services -> Nat]
               /\ \A t \in Services : cursors[t] <= cursors'[t]
<1> DEFINE fresh == Fresh(s, logs)
           stamps == {r.at : r \in fresh}
<1>1. fresh \subseteq emitted /\ fresh \in SUBSET emitted
    BY AnswersShown DEF Fresh
<1>2. IsFiniteSet(fresh)
    BY <1>1, Counts DEF DInv, LokiInv
<1>3. \A r \in emitted : r.at \in Nat
    BY DEF DInv, TypeOK
<1>4. \A r \in fresh : r.service = s /\ r.at \in Nat /\ r.at <= now /\ cursors[s] < r.at
    <2>1. cursors[s] \in Nat
        BY DEF DInv, TypeOK
    <2>2. \A r \in fresh : r.service = s /\ r.at > cursors[s]
        BY AnswersShown DEF Fresh
    <2>3. \A r \in fresh : r.at <= now
        BY <1>1 DEF DInv, LokiInv
    <2> QED
        BY <1>1, <1>3, <2>1, <2>2, <2>3
<1>5. cursors \in [Services -> Nat] /\ now \in Nat
    BY DEF DInv, TypeOK
<1>6. cursors' = IF fresh = {} THEN cursors ELSE [cursors EXCEPT ![s] = Latest(fresh)]
    BY DEF ObserveService
<1> HIDE DEF fresh
<1>7. CASE fresh = {}
    BY <1>1, <1>2, <1>5, <1>6, <1>7 DEF fresh
<1>8. CASE fresh # {}
    <2>1. stamps \subseteq Nat /\ stamps # {} /\ \A x \in stamps : x <= now
        BY <1>4, <1>8
    <2>2. Max(stamps) \in stamps /\ \A x \in stamps : x <= Max(stamps)
        BY <1>5, <2>1, Largest
    <2>3. Latest(fresh) = Max(stamps)
        BY DEF Latest
    <2>4. Latest(fresh) \in Nat /\ \A r \in fresh : r.at <= Latest(fresh)
        BY <2>1, <2>2, <2>3
    <2>5. cursors' = [cursors EXCEPT ![s] = Latest(fresh)]
        BY <1>6, <1>8
    <2>6. cursors[s] <= Latest(fresh)
        BY <1>4, <1>5, <1>8, <2>4
    <2>7. cursors' \in [Services -> Nat] /\ cursors'[s] = Latest(fresh)
        BY <1>5, <2>4, <2>5
    <2>8. \A t \in Services : cursors[t] <= cursors'[t]
        BY <1>5, <2>5, <2>6, <2>7
    <2>9. \A r \in fresh : r.at <= cursors'[s]
        BY <2>4, <2>7
    <2> QED
        BY <1>1, <1>2, <1>4, <2>7, <2>8, <2>9 DEF fresh
<1> QED
    BY <1>7, <1>8

(* The catalog after a poll: what was learned, or evicted.                 *)
LEMMA CatalogMoves ==
    ASSUME DInv, NEW s \in Services, NEW logs \in Answers(s), ObserveService(s, logs)
    PROVE  /\ patterns' \in [Ids -> Entries]
           /\ Cardinality(Present(patterns')) <= MaxPatterns
           /\ \A id \in Present(patterns') :
                patterns'[id] = Learned(id, Fresh(s, logs), mode = "shadow")
<1> DEFINE learn == mode = "shadow"
           m == [id \in Ids |-> Learned(id, Fresh(s, logs), learn)]
<1>1. patterns \in [Ids -> Entries]
    BY DEF DInv, TypeOK, Entries
<1>2. learn \in BOOLEAN
    BY Zenon
<1>3. now \in Nat
    BY DEF DInv, TypeOK
<1>4. IsFiniteSet(Fresh(s, logs)) /\ \A r \in Fresh(s, logs) : r.at \in Nat /\ r.at <= now
    BY CursorMoves
<1>5. patterns' \in Evictions(m)
    BY DEF ObserveService
<1> HIDE DEF learn
<1>6. \A id \in Ids : Learned(id, Fresh(s, logs), learn) \in Entries
    BY <1>1, <1>2, <1>3, <1>4, LearnedFacts
<1>7. m \in [Ids -> Entries]
    BY <1>6
<1>8. /\ patterns' \in [Ids -> Entries] /\ Cardinality(Present(patterns')) <= MaxPatterns
      /\ \A id \in Ids : patterns'[id] = m[id] \/ patterns'[id] = Absent
    BY <1>5, <1>7, EvictionsKeep
<1>9. \A id \in Present(patterns') : id \in Ids /\ patterns'[id] # Absent
    BY DEF Present
<1> QED
    BY <1>8, <1>9 DEF learn

(* What a poll counts lies between the old cursor and the new one, so it   *)
(* was not counted before and cannot be again.                             *)
LEMMA ObserveSound ==
    ASSUME DInv, NEW s \in Services, NEW logs \in Answers(s), ObserveService(s, logs)
    PROVE  Sound(patterns', cursors', emitted)
<1> DEFINE fresh == Fresh(s, logs)
           learn == mode = "shadow"
<1> SUFFICES ASSUME NEW id \in Present(patterns')
             PROVE  /\ patterns'[id].count <= Cardinality(Passed(emitted, id, cursors'))
                    /\ patterns'[id].known => Cardinality(RecordsIn(emitted, id)) >= AutoPromote
    BY DEF Sound
<1> DEFINE counted == Counted(fresh, id)
           before == Passed(emitted, id, cursors)
           after == Passed(emitted, id, cursors')
           old == patterns[id]
           new == patterns'[id]
<1>0. id \in Ids /\ id[1] \in Services /\ new # Absent
    BY DEF Present, Ids
<1>1. /\ patterns \in [Ids -> Entries] /\ old \in Entries /\ learn \in BOOLEAN /\ now \in Nat
      /\ cursors \in [Services -> Nat] /\ cursors' \in [Services -> Nat]
      /\ \A r \in emitted : r.at \in Nat
    BY <1>0, CursorMoves DEF DInv, TypeOK, Entries
<1>2. /\ IsFiniteSet(counted) /\ Cardinality(counted) \in Nat
      /\ new \in Entries /\ new.count = old.count + Cardinality(counted)
      /\ new.known => (old # Absent /\ old.known) \/ new.count >= AutoPromote
    <2>1. new = Learned(id, fresh, learn)
        BY CatalogMoves
    <2>2. IsFiniteSet(fresh) /\ \A r \in fresh : r.at \in Nat /\ r.at <= now
        BY CursorMoves
    <2> HIDE DEF fresh, learn
    <2> QED
        BY <1>0, <1>1, <2>1, <2>2, LearnedFacts
<1>3. IsFiniteSet(emitted)
    BY DEF DInv, LokiInv
<1>4. /\ IsFiniteSet(before) /\ Cardinality(before) \in Nat
      /\ IsFiniteSet(after) /\ Cardinality(after) \in Nat
      /\ Cardinality(after) <= Cardinality(RecordsIn(emitted, id))
      /\ Cardinality(RecordsIn(emitted, id)) \in Nat
    BY <1>3, RecordCounts
<1>5. before \subseteq after
    <2>1. cursors[id[1]] \in Nat /\ cursors'[id[1]] \in Nat /\ cursors[id[1]] <= cursors'[id[1]]
        BY <1>0, <1>1, CursorMoves
    <2> QED
        BY <1>1, <2>1 DEF Passed, RecordsIn
<1>6. counted \subseteq after /\ counted \cap before = {}
    <2> SUFFICES ASSUME NEW r \in counted PROVE r \in after /\ r \notin before
        OBVIOUS
    <2>1. r \in fresh /\ r.template = id[2] /\ r.service = id[1]
        BY DEF Counted
    <2>2. /\ r \in emitted /\ r.service = s /\ r.at \in Nat
          /\ cursors[s] < r.at /\ r.at <= cursors'[s]
        BY <2>1, CursorMoves
    <2>3. cursors[s] \in Nat
        BY <1>1
    <2> QED
        BY <2>1, <2>2, <2>3 DEF Passed, RecordsIn
<1> HIDE DEF counted, before, after, old, new
<1>7. Cardinality(before) + Cardinality(counted) <= Cardinality(after)
    <2>1. /\ IsFiniteSet(before \cup counted)
          /\ Cardinality(before \cup counted)
                = Cardinality(before) + Cardinality(counted) - Cardinality(before \cap counted)
        BY <1>2, <1>4, FS_Union
    <2>2. Cardinality(before \cap counted) = 0
        BY <1>6, FS_EmptySet
    <2>3. (before \cup counted) \in SUBSET after
        BY <1>5, <1>6
    <2>4. Cardinality(before \cup counted) <= Cardinality(after)
        BY <1>4, <2>3, Counts
    <2> QED
        BY <1>2, <1>4, <2>1, <2>2, <2>4
<1>8. old.count \in Nat /\ old.count <= Cardinality(before)
    <2>1. old.count \in Nat
        BY <1>1, EntryFields
    <2>2. CASE old = Absent
        BY <1>4, <2>1, <2>2, EntryFields
    <2>3. CASE old # Absent
        <3>1. id \in Present(patterns)
            BY <1>0, <2>3 DEF Present, old
        <3> QED
            BY <2>1, <3>1 DEF DInv, Sound, old, before
    <2> QED
        BY <2>1, <2>2, <2>3
<1>9. new.count <= Cardinality(after)
    BY <1>2, <1>4, <1>7, <1>8
<1>10. ASSUME new.known PROVE Cardinality(RecordsIn(emitted, id)) >= AutoPromote
    <2>1. CASE old # Absent /\ old.known
        <3>1. id \in Present(patterns)
            BY <1>0, <2>1 DEF Present, old
        <3> QED
            BY <2>1, <3>1 DEF DInv, Sound, old
    <2>2. CASE new.count >= AutoPromote
        BY <1>2, <1>4, <1>8, <1>9, <2>2, DiscoveryAssumption
    <2> QED
        BY <1>2, <1>10, <2>1, <2>2
<1> QED
    BY <1>9, <1>10 DEF new, after

LEMMA ObserveStep ==
    ASSUME DInv, NEW s \in Services, NEW logs \in Answers(s), ObserveService(s, logs)
    PROVE  DInv'
<1> DEFINE fresh == Fresh(s, logs)
           learn == mode = "shadow"
<1>1. UNCHANGED <<now, emitted, mode, polls, crashes, submitted>> /\ todo' = todo \ {s}
    BY DEF ObserveService
<1>2. cursors' \in [Services -> Nat] /\ patterns' \in [Ids -> Entries]
    BY CursorMoves, CatalogMoves
<1>3. incidents' = Novel(fresh, learn) /\ told' = (told \cup Novel(fresh, learn)) \cap Present(patterns')
    BY DEF ObserveService
<1>4. Novel(fresh, learn) \subseteq Ids
    BY DEF Novel
<1>5. /\ FileInv'
      /\ Sound(disk.patterns, disk.cursors, emitted)'
      /\ disk' \in [cursors : [Services -> Nat], patterns : [Ids -> Entries]]
      /\ unsaved' \in BOOLEAN
    <2>1. CASE disk' = [cursors |-> cursors', patterns |-> patterns'] /\ unsaved' = FALSE
        <3>1. disk'.patterns = patterns' /\ disk'.cursors = cursors'
            BY <2>1
        <3>2. FileInv'
            BY <3>1, CatalogMoves DEF FileInv
        <3>3. Sound(disk'.patterns, disk'.cursors, emitted')
            BY <1>1, <3>1, ObserveSound
        <3>4. disk' \in [cursors : [Services -> Nat], patterns : [Ids -> Entries]]
            BY <1>2, <2>1
        <3>5. unsaved' \in BOOLEAN
            BY <2>1, Zenon
        <3> QED
            BY <3>2, <3>3, <3>4, <3>5
    <2>2. CASE UNCHANGED disk /\ unsaved' = TRUE
        <3>1. unsaved' \in BOOLEAN /\ unsaved'
            BY <2>2, Zenon
        <3>2. FileInv'
            BY <2>2, <3>1 DEF DInv, FileInv
        <3> QED
            BY <1>1, <2>2, <3>1, <3>2 DEF DInv, TypeOK, Entries
    <2> QED
        BY <2>1, <2>2 DEF ObserveService, Persist
<1>6. TypeOK'
    BY <1>1, <1>2, <1>3, <1>4, <1>5, CatalogMoves DEF DInv, TypeOK, Entries
<1>7. ToldIsMarked'
    <2> SUFFICES ASSUME NEW id \in told' PROVE id \in Present(patterns') /\ patterns'[id].alerted
        BY DEF ToldIsMarked
    <2>1. id \in Present(patterns') /\ id \in Ids /\ (id \in told \/ id \in Novel(fresh, learn))
        BY <1>3 DEF Present
    <2>2. patterns'[id] = Learned(id, fresh, learn)
        BY <2>1, CatalogMoves
    <2>3. id \in told => patterns[id] # Absent /\ patterns[id].alerted
        BY DEF DInv, ToldIsMarked, Present
    <2>4. /\ patterns \in [Ids -> Entries] /\ learn \in BOOLEAN /\ now \in Nat
          /\ IsFiniteSet(fresh) /\ \A r \in fresh : r.at \in Nat /\ r.at <= now
        BY CursorMoves DEF DInv, TypeOK, Entries
    <2> HIDE DEF fresh, learn
    <2> QED
        BY <2>1, <2>2, <2>3, <2>4, LearnedFacts
<1>8. Sound(patterns, cursors, emitted)'
    BY <1>1, ObserveSound
<1>9. LokiInv'
    BY <1>1 DEF DInv, LokiInv
<1> QED
    BY <1>5, <1>6, <1>7, <1>8, <1>9 DEF DInv

-----------------------------------------------------------------------------
(* The other steps.                                                        *)

LEMMA EmitStep ==
    ASSUME DInv, NEW s \in Services, NEW t \in Templates, Emit(s, t)
    PROVE  DInv'
<1>1. PICK stamp \in 1..now : emitted' = emitted \cup {[service |-> s, at |-> stamp, template |-> t]}
    BY DEF Emit
<1>2. UNCHANGED <<now, cursors, patterns, disk, unsaved, mode, todo, incidents, polls, crashes, submitted, told>>
    BY DEF Emit, catalogVars, loopVars
<1>3. now \in Nat /\ patterns \in [Ids -> Entries] /\ disk.patterns \in [Ids -> Entries]
    BY DEF DInv, TypeOK, Entries
<1>4. TypeOK'
    BY <1>1, <1>2, <1>3 DEF DInv, TypeOK
<1>5. IsFiniteSet(emitted') /\ emitted \subseteq emitted'
    BY <1>1, FS_AddElement DEF DInv, LokiInv
<1>6. LokiInv'
    BY <1>1, <1>2, <1>3, <1>5 DEF DInv, LokiInv
<1>7. Sound(patterns, cursors, emitted') /\ Sound(disk.patterns, disk.cursors, emitted')
    BY <1>3, <1>5, SoundGrows DEF DInv
<1>8. FileInv' /\ ToldIsMarked'
    BY <1>2 DEF DInv, FileInv, ToldIsMarked
<1> QED
    BY <1>2, <1>4, <1>6, <1>7, <1>8 DEF DInv

(* A restart goes on with what the file holds, which is sound by itself.   *)
LEMMA RestartStep == DInv /\ Restart => DInv'
<1> SUFFICES ASSUME DInv, Restart PROVE DInv'
    OBVIOUS
<1>1. /\ patterns' = disk.patterns /\ cursors' = disk.cursors
      /\ todo' = {} /\ incidents' = {} /\ crashes' = crashes + 1
      /\ told' = {id \in Present(patterns') : IF unsaved THEN patterns'[id].alerted ELSE id \in told}
      /\ UNCHANGED <<now, emitted, disk, polls, submitted>>
    BY DEF Restart, Reborn
<1>2. unsaved' \in BOOLEAN /\ mode' \in {"shadow", "detect"}
    BY Zenon DEF Restart, Reborn
<1>3. Cardinality(Present(patterns')) <= MaxPatterns
    BY <1>1 DEF DInv, FileInv
<1>4. TypeOK'
    BY <1>1, <1>2, <1>3 DEF DInv, TypeOK, Present
<1>5. FileInv'
    BY <1>1, <1>3 DEF FileInv
<1>6. Sound(patterns, cursors, emitted)' /\ Sound(disk.patterns, disk.cursors, emitted)'
    BY <1>1 DEF DInv
<1>7. ToldIsMarked'
    <2> SUFFICES ASSUME NEW id \in told' PROVE id \in Present(patterns') /\ patterns'[id].alerted
        BY DEF ToldIsMarked
    <2>1. CASE unsaved
        BY <1>1, <2>1
    <2>2. CASE ~unsaved
        <3>1. id \in Present(patterns') /\ id \in told
            BY <1>1, <2>2
        <3>2. patterns' = patterns
            BY <1>1, <2>2 DEF DInv, FileInv
        <3> QED
            BY <3>1, <3>2 DEF DInv, ToldIsMarked
    <2> QED
        BY <2>1, <2>2
<1>8. LokiInv'
    BY <1>1 DEF DInv, LokiInv
<1> QED
    BY <1>4, <1>5, <1>6, <1>7, <1>8 DEF DInv

LEMMA QuietStep ==
    ASSUME DInv,
           \/ Poll \/ Tick \/ UNCHANGED vars
           \/ \E id \in Ids : SubmitAccepted(id) \/ SubmitRejected(id)
    PROVE  DInv'
<1>1. UNCHANGED <<emitted, cursors, patterns, disk, unsaved, mode, told>>
    BY DEF Poll, Tick, vars, SubmitAccepted, SubmitRejected, catalogVars, loopVars
<1>2. now' \in Nat /\ now <= now' /\ crashes' \in Nat
    BY DEF Poll, Tick, vars, SubmitAccepted, SubmitRejected, DInv, TypeOK
<1>3. polls' \in Nat /\ todo' \subseteq Services /\ incidents' \subseteq Ids /\ submitted' \subseteq Ids
    BY DEF Poll, Tick, vars, SubmitAccepted, SubmitRejected, loopVars, DInv, TypeOK
<1>4. TypeOK'
    BY <1>1, <1>2, <1>3 DEF DInv, TypeOK
<1>5. LokiInv'
    BY <1>1, <1>2 DEF DInv, LokiInv, TypeOK
<1>6. FileInv' /\ ToldIsMarked' /\ Sound(patterns, cursors, emitted)' /\ Sound(disk.patterns, disk.cursors, emitted)'
    BY <1>1 DEF DInv, FileInv, ToldIsMarked
<1> QED
    BY <1>4, <1>5, <1>6 DEF DInv

LEMMA NextDInv == DInv /\ [Next]_vars => DInv'
BY ObserveStep, EmitStep, RestartStep, QuietStep DEF Next, RunOnce

(* The inductive invariant: in memory and in the file, a catalog counts    *)
(* no more than its cursors have passed, and what was told is marked.      *)
THEOREM CatalogInductive == Spec => []DInv
BY InitDInv, NextDInv, PTL DEF Spec

(* Types, and that eviction keeps the catalog within MaxPatterns           *)
(* (catalog.go:102-125), whatever the file holds.                          *)
THEOREM TypeCorrect == Spec => []TypeOK
<1>1. DInv => TypeOK
    BY DEF DInv
<1> QED
    BY <1>1, CatalogInductive, PTL

LEMMA SoundCatalog ==
    ASSUME DInv, NEW id \in Present(patterns)
    PROVE  /\ patterns[id].count <= Cardinality(Records(id))
           /\ patterns[id].known => Cardinality(Records(id)) >= AutoPromote
<1>1. Records(id) = RecordsIn(emitted, id)
    BY DEF Records, RecordsIn
<1>2. /\ patterns[id].count <= Cardinality(Passed(emitted, id, cursors))
      /\ patterns[id].known => Cardinality(RecordsIn(emitted, id)) >= AutoPromote
    BY DEF DInv, Sound
<1>3. /\ Cardinality(Passed(emitted, id, cursors)) <= Cardinality(RecordsIn(emitted, id))
      /\ Cardinality(Passed(emitted, id, cursors)) \in Nat /\ Cardinality(RecordsIn(emitted, id)) \in Nat
    BY RecordCounts DEF DInv, LokiInv
<1>4. patterns[id].count \in Nat
    BY EntryFields DEF DInv, TypeOK, Entries, Present
<1> QED
    BY <1>1, <1>2, <1>3, <1>4

(* Observe (catalog.go:59-100): overlapping windows, late records, failed  *)
(* saves and restarts never make a record count twice.                     *)
THEOREM LearnedOnceCorrect == Spec => []LearnedOnce
<1>1. DInv => LearnedOnce
    BY SoundCatalog DEF LearnedOnce
<1> QED
    BY <1>1, CatalogInductive, PTL

(* Observe (catalog.go:90-92): a pattern is taken for known only after     *)
(* AutoPromote separate records of it.                                     *)
THEOREM KnownEarnedCorrect == Spec => []KnownEarned
<1>1. DInv => KnownEarned
    BY SoundCatalog DEF KnownEarned
<1> QED
    BY <1>1, CatalogInductive, PTL

(* Observe and NewPatternCatalog (catalog.go:33-57, 93-99): a pattern is   *)
(* reported as new once, unless it was evicted meanwhile or a restart read *)
(* a file in which the report is missing.                                  *)
THEOREM NovelOnceCorrect == Spec => NovelOnce
<1>1. DInv /\ [Next]_vars =>
        [\A id \in Ids : id \in incidents' /\ id \notin incidents => id \notin told]_vars
    <2> SUFFICES ASSUME DInv, Next, NEW id \in Ids, id \in incidents', id \notin incidents
                 PROVE  id \notin told
        BY DEF vars, loopVars
    <2>1. PICK s \in Services : \E logs \in Answers(s) : ObserveService(s, logs)
        BY DEF Next, RunOnce, Poll, SubmitAccepted, SubmitRejected, Emit, Restart, Reborn, Tick, loopVars
    <2>2. PICK logs \in Answers(s) : ObserveService(s, logs)
        BY <2>1
    <2>3. id \in Novel(Fresh(s, logs), mode = "shadow")
        BY <2>2, Zenon DEF ObserveService
    <2>4. ~(patterns[id] # Absent /\ patterns[id].alerted)
        BY <2>3 DEF Novel
    <2> QED
        BY <2>4 DEF DInv, ToldIsMarked, Present
<1> QED
    BY <1>1, CatalogInductive, PTL DEF Spec, NovelOnce
=============================================================================
