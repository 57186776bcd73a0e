------------------------ MODULE AdaptivePlansProofs ------------------------
(***************************************************************************)
(* Proofs about AdaptivePlans, for any patterns, plans, services and       *)
(* thresholds, with a state file that may fail at any time.                *)
(***************************************************************************)
EXTENDS AdaptivePlans, FiniteSetTheorems, TLAPS

(* The observations that make a shadow.                                    *)
Base == Earned - ShadowMatches

(* What is true of an entry by itself, in memory or in the file.           *)
Sound(e) ==
    /\ e.state # "active" => e.failures = 0
    /\ e.state # "candidate" => Cardinality(e.services) >= MinServices
    /\ e.state = "shadow" => e.matches < ShadowMatches

(* The entry e claims no more than the observations r.                     *)
Backed(e, r) ==
    /\ r.plan = e.plan
    /\ r.seen = e.seen
    /\ r.count >= 1
    /\ e.services \subseteq r.services
    /\ e.state = "candidate" => r.count >= e.observations
    /\ e.state = "shadow" => r.count >= Base + e.matches
    /\ e.state = "active" => r.count >= Earned

(* The entry m[p], if there is one, is sound, backed by the run r[p], and  *)
(* has no more failures than b[p].                                         *)
Accounted(m, r, b) ==
    \A p \in Patterns : m[p] \in Entry =>
        /\ Sound(m[p])
        /\ Backed(m[p], r[p])
        /\ m[p].failures <= b[p]

PInv ==
    /\ TypeOK
    /\ Cardinality(Present(disk)) <= MaxEntries
    /\ ~unsaved => disk = entries
    /\ \A p \in Patterns : disk[p] \in Entry => Sound(disk[p])
    /\ Accounted(entries, run, bad)

-----------------------------------------------------------------------------
(* Facts about constants, entries and sets of them.                        *)
LEMMA Thresholds ==
    /\ MinObservations \in Nat \ {0} /\ MinServices \in Nat \ {0}
    /\ ShadowMatches \in Nat \ {0} /\ MaxEntries \in Nat \ {0}
    /\ Earned \in Nat /\ Base \in Nat /\ Earned = Base + ShadowMatches
    /\ Base >= MinObservations /\ Base >= 2 /\ (Base = MinObservations \/ Base = 2)
BY AdaptiveAssumption DEF AdaptiveAssumption, Base, Earned

(* An entry is not the absence of one.                                     *)
LEMMA EntryPresent ==
    /\ \A e \in Entry : e # Absent /\ e.state # "absent"
    /\ Absent \notin Entry /\ Absent.state = "absent"
BY DEF Entry, Absent

(* An entry whose state, matches or failures change.                       *)
States == {"candidate", "shadow", "active"}

Moved(e, x, y) == [e EXCEPT !.state = x, !.matches = y]

Matched(e, y) == [e EXCEPT !.matches = y]

Failed(e, y) == [e EXCEPT !.failures = y]

(* What the changed entry f keeps of e.                                    *)
Keeps(f, e) ==
    /\ f \in Entry
    /\ f.plan = e.plan /\ f.seen = e.seen /\ f.services = e.services
    /\ f.observations = e.observations

LEMMA Changed ==
    /\ \A e \in Entry, x \in States, y \in 0..ShadowMatches :
        /\ Keeps(Moved(e, x, y), e)
        /\ Moved(e, x, y).state = x /\ Moved(e, x, y).matches = y
        /\ Moved(e, x, y).failures = e.failures
    /\ \A e \in Entry, y \in 0..ShadowMatches :
        /\ Keeps(Matched(e, y), e)
        /\ Matched(e, y).state = e.state /\ Matched(e, y).matches = y
        /\ Matched(e, y).failures = e.failures
    /\ \A e \in Entry, y \in 0..MaxFailures - 1 :
        /\ Keeps(Failed(e, y), e)
        /\ Failed(e, y).state = e.state /\ Failed(e, y).matches = e.matches
        /\ Failed(e, y).failures = y
<1>1. ASSUME NEW e \in Entry, NEW x \in States, NEW y \in 0..ShadowMatches
      PROVE  /\ Keeps(Moved(e, x, y), e)
             /\ Moved(e, x, y).state = x /\ Moved(e, x, y).matches = y
             /\ Moved(e, x, y).failures = e.failures
    BY DEF Moved, Entry, States, Keeps
<1>2. ASSUME NEW e \in Entry, NEW y \in 0..ShadowMatches
      PROVE  /\ Keeps(Matched(e, y), e)
             /\ Matched(e, y).state = e.state /\ Matched(e, y).matches = y
             /\ Matched(e, y).failures = e.failures
    BY DEF Matched, Entry, Keeps
<1>3. ASSUME NEW e \in Entry, NEW y \in 0..MaxFailures - 1
      PROVE  /\ Keeps(Failed(e, y), e)
             /\ Failed(e, y).state = e.state /\ Failed(e, y).matches = e.matches
             /\ Failed(e, y).failures = y
    BY DEF Failed, Entry, Keeps
<1> QED
    BY <1>1, <1>2, <1>3

(* More services, more votes.                                              *)
LEMMA MoreServices ==
    ASSUME NEW S \in SUBSET Services, NEW T \in SUBSET Services, S \subseteq T
    PROVE  /\ Cardinality(S) \in Nat /\ Cardinality(T) \in Nat
           /\ Cardinality(S) <= Cardinality(T)
<1>1. IsFiniteSet(T)
    BY FS_Subset, AdaptiveAssumption DEF AdaptiveAssumption
<1> QED
    BY <1>1, FS_Subset, FS_CardinalityType

LEMMA PresentFinite ==
    ASSUME NEW m
    PROVE  IsFiniteSet(Present(m)) /\ Cardinality(Present(m)) \in Nat
<1>1. IsFiniteSet(Present(m))
    BY FS_Subset, AdaptiveAssumption DEF AdaptiveAssumption, Present
<1> QED
    BY <1>1, FS_CardinalityType

(* Eviction brings one entry too many back within the limit and touches no *)
(* entry it leaves.                                                        *)
LEMMA EvictionsKeep ==
    ASSUME NEW m \in [Patterns -> Entry \cup {Absent}],
           Cardinality(Present(m)) <= MaxEntries + 1,
           NEW n \in Evictions(m)
    PROVE  /\ n \in [Patterns -> Entry \cup {Absent}]
           /\ \A p \in Patterns : n[p] = m[p] \/ n[p] = Absent
           /\ Cardinality(Present(n)) <= MaxEntries
<1> USE Thresholds
<1>1. CASE Cardinality(Present(m)) <= MaxEntries
    BY <1>1 DEF Evictions
<1>2. CASE ~(Cardinality(Present(m)) <= MaxEntries)
    <2>1. PICK p \in Present(m) : n = [m EXCEPT ![p] = Absent]
        BY <1>2 DEF Evictions
    <2>2. Present(n) = Present(m) \ {p}
        BY <2>1 DEF Present
    <2>3. IsFiniteSet(Present(m)) /\ Cardinality(Present(m)) \in Nat
        BY PresentFinite
    <2>4. Cardinality(Present(m) \ {p}) = Cardinality(Present(m)) - 1
        BY <2>3, FS_RemoveElement
    <2>5. p \in Patterns
        BY DEF Present
    <2>6. Cardinality(Present(n)) <= MaxEntries
        <3> DEFINE c == Cardinality(Present(m))
        <3>1. Cardinality(Present(n)) = c - 1 /\ c \in Nat /\ c <= MaxEntries + 1 /\ MaxEntries \in Nat
            BY <2>2, <2>3, <2>4
        <3> HIDE DEF c
        <3> QED
            BY <3>1
    <2>7. n \in [Patterns -> Entry \cup {Absent}] /\ \A o \in Patterns : n[o] = m[o] \/ n[o] = Absent
        BY <2>1, <2>5
    <2> QED
        BY <2>6, <2>7
<1> QED
    BY <1>1, <1>2

-----------------------------------------------------------------------------
(* What every step has to show, and what remains to be said of the file.   *)
LEMMA Settle ==
    ASSUME PInv,
           now' \in Nat, crashes' \in Nat,
           entries' \in [Patterns -> Entry \cup {Absent}],
           Cardinality(Present(entries')) <= MaxEntries,
           run' \in [Patterns -> [plan : Plans, count : 0..Earned, services : SUBSET Services, seen : Nat]],
           bad' \in [Patterns -> 0..MaxFailures],
           Accounted(entries', run', bad'),
           Persist \/ (UNCHANGED disk /\ unsaved' \in BOOLEAN /\ (~unsaved' => entries' = disk))
    PROVE  PInv'
<1>1. /\ disk' \in [Patterns -> Entry \cup {Absent}]
      /\ unsaved' \in BOOLEAN
      /\ disk' = entries' \/ disk' = disk
      /\ ~unsaved' => disk' = entries'
    BY DEF Persist, PInv, TypeOK
<1>2. /\ Cardinality(Present(disk')) <= MaxEntries
      /\ \A p \in Patterns : disk'[p] \in Entry => Sound(disk'[p])
    BY <1>1 DEF PInv, Accounted
<1>3. /\ Present(entries)' = Present(entries') /\ Present(disk)' = Present(disk')
      /\ Accounted(entries, run, bad)' = Accounted(entries', run', bad')
    BY DEF Present, Accounted, Sound, Backed
<1>4. TypeOK'
    BY <1>1, <1>3 DEF TypeOK
<1>5. \A p \in Patterns : disk'[p] \in Entry => Sound(disk[p])'
    BY <1>2 DEF Sound
<1> QED
    BY <1>1, <1>2, <1>3, <1>4, <1>5 DEF PInv

(* An entry that changes in place changes nothing about who is present.    *)
LEMMA PresentSame ==
    ASSUME TypeOK, NEW p \in Patterns, NEW e \in Entry, entries[p] \in Entry,
           entries' = [entries EXCEPT ![p] = e]
    PROVE  /\ entries' \in [Patterns -> Entry \cup {Absent}]
           /\ Cardinality(Present(entries')) <= MaxEntries
<1>1. Present(entries') = Present(entries)
    BY EntryPresent DEF Present, TypeOK
<1> QED
    BY <1>1 DEF TypeOK

(* An entry of the registry is backed by its run, and a run that is not    *)
(* broken goes on.                                                         *)
LEMMA RecordedRun ==
    ASSUME TypeOK, NEW p \in Patterns, NEW s \in Services, NEW q \in Plans, Recorded(p, s, q)
    PROVE  /\ run' \in [Patterns -> [plan : Plans, count : 0..Earned, services : SUBSET Services, seen : Nat]]
           /\ bad' \in [Patterns -> 0..MaxFailures]
           /\ run'[p].plan = q /\ run'[p].seen = now /\ run'[p].count >= 1 /\ s \in run'[p].services
           /\ \A o \in Patterns \ {p} : run'[o] = run[o] /\ bad'[o] = bad[o]
           /\ bad'[p] = 0
           /\ run[p].count >= 1 /\ run[p].plan = q /\ now - run[p].seen <= Window =>
                /\ run'[p].services = run[p].services \cup {s}
                /\ run'[p].count = Capped(run[p].count + 1, Earned)
<1> DEFINE broken == run[p].count = 0 \/ run[p].plan # q \/ now - run[p].seen > Window
           r == [plan |-> q,
                 count |-> IF broken THEN 1 ELSE Capped(run[p].count + 1, Earned),
                 services |-> IF broken THEN {s} ELSE run[p].services \cup {s},
                 seen |-> now]
<1>1. run' = [run EXCEPT ![p] = r] /\ bad' = [bad EXCEPT ![p] = 0]
    BY DEF Recorded
<1>2. /\ run[p] \in [plan : Plans, count : 0..Earned, services : SUBSET Services, seen : Nat]
      /\ now \in Nat
    BY DEF TypeOK
<1>3. /\ r \in [plan : Plans, count : 0..Earned, services : SUBSET Services, seen : Nat]
      /\ r.count >= 1 /\ s \in r.services /\ r.plan = q /\ r.seen = now
    BY <1>2, Thresholds DEF Capped
<1>4. run[p].count >= 1 /\ run[p].plan = q /\ now - run[p].seen <= Window => ~broken
    BY <1>2, AdaptiveAssumption DEF AdaptiveAssumption
<1>5. ~broken => /\ r.services = run[p].services \cup {s}
                 /\ r.count = Capped(run[p].count + 1, Earned)
    OBVIOUS
<1> HIDE DEF r, broken
<1>6. run'[p] = r /\ bad'[p] = 0
    BY <1>1 DEF TypeOK
<1>7. /\ run' \in [Patterns -> [plan : Plans, count : 0..Earned, services : SUBSET Services, seen : Nat]]
      /\ bad' \in [Patterns -> 0..MaxFailures]
      /\ \A o \in Patterns \ {p} : run'[o] = run[o] /\ bad'[o] = bad[o]
    BY <1>1, <1>3 DEF TypeOK, MaxFailures
<1> QED
    BY <1>3, <1>4, <1>5, <1>6, <1>7

LEMMA InitPInv == Init => PInv
<1> SUFFICES ASSUME Init PROVE PInv
    OBVIOUS
<1>1. Cardinality({}) = 0
    BY FS_EmptySet
<1>2. Present(entries) = {} /\ Present(disk) = {}
    BY DEF Init, Present
<1>3. Cardinality(Present(entries)) <= MaxEntries /\ Cardinality(Present(disk)) <= MaxEntries
    BY <1>1, <1>2, Thresholds
<1>4. TypeOK
    <2>1. run \in [Patterns -> [plan : Plans, count : 0..Earned, services : SUBSET Services, seen : Nat]]
        BY Thresholds DEF Init
    <2>2. bad \in [Patterns -> 0..MaxFailures]
        BY DEF Init, MaxFailures
    <2> QED
        BY <1>3, <2>1, <2>2 DEF Init, TypeOK
<1>5. \A p \in Patterns : entries[p] \notin Entry /\ disk[p] \notin Entry
    BY EntryPresent DEF Init
<1> QED
    BY <1>3, <1>4, <1>5 DEF PInv, Accounted, Init

(* Observe, starting over: a candidate of one observation, and perhaps one *)
(* entry less.                                                             *)
LEMMA FreshStep ==
    ASSUME PInv, NEW p \in Patterns, NEW s \in Services, NEW q \in Plans, ObserveFresh(p, s, q)
    PROVE  PInv'
<1> DEFINE e == [plan |-> q, state |-> "candidate", observations |-> 1, matches |-> 0,
                 failures |-> 0, services |-> {s}, seen |-> now]
           m == [entries EXCEPT ![p] = e]
<1>1. e \in Entry /\ Sound(e) /\ m \in [Patterns -> Entry \cup {Absent}]
    BY Thresholds DEF Entry, MaxFailures, PInv, TypeOK, Sound
<1>2. Cardinality(Present(m)) <= MaxEntries + 1
    <2>1. Present(m) = Present(entries) \cup {p}
        BY <1>1, EntryPresent DEF Present, PInv, TypeOK
    <2>2. IsFiniteSet(Present(entries)) /\ Cardinality(Present(entries)) \in Nat
        BY PresentFinite
    <2>4. Cardinality(Present(entries)) <= MaxEntries
        BY DEF PInv, TypeOK
    <2> DEFINE c == Cardinality(Present(entries))
               d == Cardinality(Present(m))
    <2>5. c \in Nat /\ c <= MaxEntries /\ (d = c \/ d = c + 1)
        BY <2>1, <2>2, <2>4, FS_AddElement
    <2> HIDE DEF c, d
    <2>6. d <= MaxEntries + 1
        BY <2>5, Thresholds
    <2> QED
        BY <2>6 DEF d
<1>3. /\ entries' \in Evictions(m) /\ Persist /\ Recorded(p, s, q)
      /\ now' = now /\ crashes' = crashes
    BY DEF ObserveFresh
<1>4. /\ entries' \in [Patterns -> Entry \cup {Absent}]
      /\ \A o \in Patterns : entries'[o] = m[o] \/ entries'[o] = Absent
      /\ Cardinality(Present(entries')) <= MaxEntries
    <2> HIDE DEF m
    <2> QED
        BY <1>1, <1>2, <1>3, EvictionsKeep
<1>5. Accounted(entries', run', bad')
    <2> SUFFICES ASSUME NEW o \in Patterns, entries'[o] \in Entry
                 PROVE  /\ Sound(entries'[o])
                        /\ Backed(entries'[o], run'[o])
                        /\ entries'[o].failures <= bad'[o]
        BY DEF Accounted
    <2>1. entries'[o] = m[o]
        BY <1>4, EntryPresent
    <2>2. CASE o = p
        <3>1. entries'[o] = e
            BY <2>1, <2>2 DEF PInv, TypeOK
        <3> QED
            BY <2>2, <3>1, <1>1, <1>3, RecordedRun DEF PInv, Backed
    <2>3. CASE o # p
        BY <2>1, <2>3, <1>3, RecordedRun DEF PInv, Accounted, TypeOK
    <2> QED
        BY <2>2, <2>3
<1> QED
    BY <1>3, <1>4, <1>5, RecordedRun, Settle DEF PInv, TypeOK

(* Observe, once more: whatever becomes of the entry, it claims no more    *)
(* than the run, which goes on.                                            *)
LEMMA AgainStep ==
    ASSUME PInv, NEW p \in Patterns, NEW s \in Services, NEW q \in Plans, ObserveAgain(p, s, q)
    PROVE  PInv'
<1> DEFINE old == entries[p]
           g == Again(p, s)
<1>1. /\ Recorded(p, s, q) /\ Persist /\ Continues(p, q) /\ ~Active(p)
      /\ now' = now /\ crashes' = crashes /\ TypeOK
    BY DEF ObserveAgain, PInv
<1>2. /\ old \in Entry /\ old.plan = q /\ old.state \in {"candidate", "shadow"}
      /\ Sound(old) /\ Backed(old, run[p])
      /\ now - old.seen <= Window
    BY <1>1 DEF Continues, Active, PInv, TypeOK, Accounted, Entry
<1>3. /\ run'[p].plan = q /\ run'[p].seen = now /\ run'[p].count \in Nat
      /\ run'[p].services = run[p].services \cup {s}
      /\ run'[p].count = Capped(run[p].count + 1, Earned)
      /\ bad'[p] = 0
    BY <1>1, <1>2, RecordedRun DEF Backed
<1>4. /\ g \in Entry /\ g.plan = q /\ g.state = old.state /\ g.matches = old.matches
      /\ g.failures = 0 /\ g.services = old.services \cup {s} /\ g.seen = now
      /\ g.observations = Capped(old.observations + 1, MinObservations)
    <2>1. /\ Capped(old.observations + 1, MinObservations) \in 1..MinObservations
          /\ now \in Nat /\ old.services \cup {s} \in SUBSET Services
        BY <1>1, <1>2, Thresholds DEF Entry, Capped, TypeOK
    <2> DEFINE o == Capped(old.observations + 1, MinObservations)
               v == old.services \cup {s}
    <2>2. g = [old EXCEPT !.observations = o, !.services = v, !.seen = now]
        BY DEF Again
    <2> HIDE DEF o, v, g, old
    <2>3. /\ g \in Entry /\ g.plan = old.plan /\ g.state = old.state /\ g.matches = old.matches
          /\ g.failures = old.failures /\ g.services = v /\ g.seen = now /\ g.observations = o
        BY <1>2, <2>1, <2>2 DEF Entry, o, v
    <2>4. old.failures = 0
        BY <1>2 DEF Sound
    <2> QED
        BY <1>2, <2>3, <2>4 DEF o, v
<1>5. Cardinality(old.services) <= Cardinality(g.services)
      /\ Cardinality(old.services) \in Nat /\ Cardinality(g.services) \in Nat
    BY <1>2, <1>4, MoreServices DEF Entry
<1>6. g.services \subseteq run'[p].services
    BY <1>2, <1>3, <1>4 DEF Backed
<1>7. /\ old.observations \in Nat /\ old.matches \in Nat
      /\ run[p].count \in Nat /\ run[p].count >= 1
    BY <1>1, <1>2 DEF Entry, Backed, TypeOK
<1> DEFINE Good(f) ==
        /\ f \in Entry /\ entries' = [entries EXCEPT ![p] = f]
        /\ Sound(f) /\ Backed(f, run'[p]) /\ f.failures = 0
<1>8. \E f : Good(f)
    <2> HIDE DEF g, old
    <2>1. CASE g.state = "candidate" /\ ~Qualified(g) /\ entries' = [entries EXCEPT ![p] = g]
        <3>1. Good(g)
            BY <2>1, <1>2, <1>3, <1>4, <1>5, <1>6, <1>7, Thresholds DEF Sound, Backed, Capped
        <3> QED
            BY <3>1
    <2>2. CASE /\ g.state = "candidate" /\ Qualified(g)
               /\ entries' = [entries EXCEPT ![p] = [g EXCEPT !.state = "shadow", !.matches = 0]]
        <3> DEFINE f == Moved(g, "shadow", 0)
        <3>0. "shadow" \in States /\ 0 \in 0..ShadowMatches
            BY Thresholds DEF States
        <3>1. /\ f \in Entry /\ f.plan = g.plan /\ f.seen = g.seen /\ f.services = g.services
              /\ f.state = "shadow" /\ f.matches = 0 /\ f.failures = 0
            BY <3>0, <1>4, Changed DEF Keeps
        <3> HIDE DEF f
        <3>2. run'[p].count >= Base
            BY <2>2, <1>2, <1>3, <1>4, <1>7, Thresholds DEF Backed, Capped, Qualified
        <3>3. Cardinality(f.services) >= MinServices
            BY <2>2, <3>1 DEF Qualified
        <3>4. Sound(f) /\ Backed(f, run'[p])
            BY <3>1, <3>2, <3>3, <1>3, <1>4, <1>6, Thresholds DEF Sound, Backed
        <3> QED
            BY <2>2, <3>1, <3>4 DEF f, Moved
    <2>3. CASE /\ g.state = "shadow" /\ g.matches + 1 < ShadowMatches
               /\ entries' = [entries EXCEPT ![p] = [g EXCEPT !.matches = @ + 1]]
        <3> DEFINE f == Matched(g, g.matches + 1)
        <3>0. g.matches + 1 \in 0..ShadowMatches
            BY <2>3, <1>4, <1>7, Thresholds
        <3>1. /\ f \in Entry /\ f.plan = g.plan /\ f.seen = g.seen /\ f.services = g.services
              /\ f.state = "shadow" /\ f.matches = g.matches + 1 /\ f.failures = 0
            BY <2>3, <3>0, <1>4, Changed DEF Keeps
        <3> HIDE DEF f
        <3>2. run'[p].count >= Base + f.matches
            BY <2>3, <3>1, <1>2, <1>3, <1>4, <1>7, Thresholds DEF Backed, Capped
        <3>3. Cardinality(f.services) >= MinServices
            BY <2>3, <3>1, <1>2, <1>4, <1>5, Thresholds DEF Sound
        <3>4. Sound(f) /\ Backed(f, run'[p])
            BY <2>3, <3>1, <3>2, <3>3, <1>3, <1>4, <1>6, <1>7, Thresholds DEF Sound, Backed
        <3> QED
            BY <2>3, <3>1, <3>4 DEF f, Matched
    <2>4. CASE /\ g.state = "shadow" /\ g.matches + 1 >= ShadowMatches
               /\ entries' = [entries EXCEPT ![p] = [g EXCEPT !.state = "active", !.matches = @ + 1]]
        <3> DEFINE f == Moved(g, "active", g.matches + 1)
        <3>0. "active" \in States /\ g.matches + 1 \in 0..ShadowMatches
            BY <2>4, <1>2, <1>4, <1>7, Thresholds DEF Sound, States
        <3>1. /\ f \in Entry /\ f.plan = g.plan /\ f.seen = g.seen /\ f.services = g.services
              /\ f.state = "active" /\ f.failures = 0
            BY <3>0, <1>4, Changed DEF Keeps
        <3> HIDE DEF f
        <3>2. run'[p].count >= Earned
            BY <2>4, <1>2, <1>3, <1>4, <1>7, Thresholds DEF Backed, Capped
        <3>3. Cardinality(f.services) >= MinServices
            BY <2>4, <3>1, <1>2, <1>4, <1>5, Thresholds DEF Sound
        <3>4. Sound(f) /\ Backed(f, run'[p])
            BY <3>1, <3>2, <3>3, <1>3, <1>4, <1>6, Thresholds DEF Sound, Backed
        <3> QED
            BY <2>4, <3>1, <3>4 DEF f, Moved
    <2> QED
        BY <2>1, <2>2, <2>3, <2>4 DEF ObserveAgain, g
<1>9. PICK f : Good(f)
    BY <1>8
<1>10. Accounted(entries', run', bad')
    <2> SUFFICES ASSUME NEW o \in Patterns, entries'[o] \in Entry
                 PROVE  /\ Sound(entries'[o])
                        /\ Backed(entries'[o], run'[o])
                        /\ entries'[o].failures <= bad'[o]
        BY DEF Accounted
    <2>1. CASE o = p
        <3>1. entries'[o] = f
            BY <2>1, <1>1, <1>9 DEF TypeOK
        <3> QED
            BY <2>1, <3>1, <1>3, <1>9
    <2>2. CASE o # p
        <3>1. entries'[o] = entries[o] /\ run'[o] = run[o] /\ bad'[o] = bad[o]
            BY <2>2, <1>1, <1>9, RecordedRun DEF TypeOK
        <3> QED
            BY <3>1 DEF PInv, Accounted
    <2> QED
        BY <2>1, <2>2
<1> QED
    BY <1>1, <1>2, <1>9, <1>10, RecordedRun, PresentSame, Settle DEF PInv, TypeOK

(* RecordValidation changes an entry in place and leaves the run alone.    *)
LEMMA InPlace ==
    ASSUME PInv, NEW p \in Patterns, entries[p] \in Entry, NEW f, NEW b \in 0..MaxFailures,
           f \in Entry, Sound(f), Backed(f, run[p]), f.failures <= b,
           entries' = [entries EXCEPT ![p] = f], bad' = [bad EXCEPT ![p] = b],
           UNCHANGED <<now, crashes, run>>,
           Persist \/ (f = entries[p] /\ UNCHANGED fileVars)
    PROVE  PInv'
<1>1. TypeOK
    BY DEF PInv
<1>2. /\ entries' \in [Patterns -> Entry \cup {Absent}]
      /\ Cardinality(Present(entries')) <= MaxEntries
    BY <1>1, PresentSame
<1>3. bad' \in [Patterns -> 0..MaxFailures]
    BY <1>1 DEF TypeOK
<1>4. Accounted(entries', run', bad')
    <2> SUFFICES ASSUME NEW o \in Patterns, entries'[o] \in Entry
                 PROVE  /\ Sound(entries'[o])
                        /\ Backed(entries'[o], run'[o])
                        /\ entries'[o].failures <= bad'[o]
        BY DEF Accounted
    <2>1. CASE o = p
        BY <2>1, <1>1 DEF TypeOK
    <2>2. CASE o # p
        <3>1. entries'[o] = entries[o] /\ run'[o] = run[o] /\ bad'[o] = bad[o]
            BY <2>2, <1>1 DEF TypeOK
        <3> QED
            BY <3>1 DEF PInv, Accounted
    <2> QED
        BY <2>1, <2>2
<1>5. \/ Persist
      \/ UNCHANGED disk /\ unsaved' \in BOOLEAN /\ (~unsaved' => entries' = disk)
    <2>1. CASE f = entries[p] /\ UNCHANGED fileVars
        <3>1. entries' = entries
            BY <2>1, <1>1 DEF TypeOK
        <3> QED
            BY <2>1, <3>1, <1>1 DEF fileVars, TypeOK, PInv
    <2> QED
        BY <2>1
<1>6. /\ now' \in Nat /\ crashes' \in Nat
      /\ run' \in [Patterns -> [plan : Plans, count : 0..Earned, services : SUBSET Services, seen : Nat]]
    BY <1>1 DEF TypeOK
<1> QED
    BY <1>2, <1>3, <1>4, <1>5, <1>6, Settle

(* What an active plan is, before its result is judged.                    *)
LEMMA Judged ==
    ASSUME PInv, NEW p \in Patterns, Active(p)
    PROVE  /\ entries[p] \in Entry /\ entries[p].failures \in 0..MaxFailures - 1
           /\ Sound(entries[p]) /\ Backed(entries[p], run[p])
           /\ entries[p].failures <= bad[p] /\ bad[p] \in 0..MaxFailures
           /\ run[p].count \in Nat
<1>1. entries[p] \in Entry
    BY EntryPresent DEF Active, PInv, TypeOK
<1>2. entries[p].failures \in 0..MaxFailures - 1
    BY <1>1 DEF Entry
<1> QED
    BY <1>1, <1>2 DEF PInv, Accounted, TypeOK

(* RecordValidation, valid: no failure is left to account for.             *)
LEMMA ValidateStep == ASSUME PInv, NEW p \in Patterns, Validate(p) PROVE PInv'
<1> DEFINE f == Failed(entries[p], 0)
<1>1. Active(p) /\ UNCHANGED <<now, crashes, run>> /\ bad' = [bad EXCEPT ![p] = 0]
    BY DEF Validate
<1>2. entries' = [entries EXCEPT ![p] = f]
    BY DEF Validate, Failed
<1>3. 0 \in 0..MaxFailures /\ 0 \in 0..MaxFailures - 1
    BY DEF MaxFailures
<1>4. f \in Entry /\ Keeps(f, entries[p]) /\ f.failures = 0
      /\ f.state = entries[p].state /\ f.matches = entries[p].matches
    BY <1>1, <1>3, Judged, Changed DEF Keeps
<1>5. Persist \/ (f = entries[p] /\ UNCHANGED fileVars)
    <2>1. entries[p].failures > 0 => Persist
        BY DEF Validate
    <2>2. ~(entries[p].failures > 0) => UNCHANGED fileVars /\ entries[p].failures = 0
        BY <1>1, Judged DEF Validate, MaxFailures
    <2>3. ASSUME entries[p].failures = 0 PROVE f = entries[p]
        BY <1>1, <2>3, Judged DEF Failed, Entry
    <2> QED
        BY <2>1, <2>2, <2>3
<1> HIDE DEF f
<1>6. Sound(f) /\ Backed(f, run[p])
    BY <1>1, <1>4, Judged DEF Sound, Backed, Keeps
<1>7. f.failures <= 0
    BY <1>4
<1> QED
    BY <1>1, <1>2, <1>3, <1>4, <1>5, <1>6, <1>7, Judged, InPlace

(* RecordValidation, a first failure: it is counted on both sides.         *)
LEMMA FailStep == ASSUME PInv, NEW p \in Patterns, Fail(p) PROVE PInv'
<1> DEFINE n == entries[p].failures + 1
           b == Capped(bad[p] + 1, MaxFailures)
           f == Failed(entries[p], n)
<1>1. Active(p) /\ Persist /\ UNCHANGED <<now, crashes, run>> /\ bad' = [bad EXCEPT ![p] = b]
    BY DEF Fail
<1>2. entries' = [entries EXCEPT ![p] = f]
    BY DEF Fail, Failed
<1>3. n \in 0..MaxFailures - 1 /\ b \in 0..MaxFailures /\ n <= b
    BY <1>1, Judged DEF Fail, MaxFailures, Capped
<1> HIDE DEF n, b
<1>4. f \in Entry /\ Keeps(f, entries[p]) /\ f.failures = n
      /\ f.state = entries[p].state /\ f.matches = entries[p].matches
    BY <1>1, <1>3, Judged, Changed DEF Keeps
<1> HIDE DEF f
<1>5. f.state = "active"
    BY <1>1, <1>4 DEF Active
<1>6. Sound(f) /\ Backed(f, run[p])
    BY <1>1, <1>4, <1>5, Judged DEF Sound, Backed, Keeps
<1> QED
    BY <1>1, <1>2, <1>3, <1>4, <1>6, Judged, InPlace

(* RecordValidation, the last failure: a shadow with its matches to earn.  *)
LEMMA DemoteStep == ASSUME PInv, NEW p \in Patterns, Demote(p) PROVE PInv'
<1> DEFINE e == Moved(entries[p], "shadow", 0)
           f == Failed(e, 0)
<1>1. Active(p) /\ Persist /\ UNCHANGED <<now, crashes, run>> /\ bad' = [bad EXCEPT ![p] = 0]
    BY DEF Demote
<1>2. entries' = [entries EXCEPT ![p] = f]
    BY <1>1 DEF Demote, Failed, Moved, PInv, TypeOK
<1>3. /\ 0 \in 0..MaxFailures /\ 0 \in 0..MaxFailures - 1 /\ 0 \in 0..ShadowMatches
      /\ "shadow" \in States
    BY Thresholds DEF MaxFailures, States
<1>4. /\ e \in Entry /\ Keeps(e, entries[p]) /\ e.state = "shadow" /\ e.matches = 0
    BY <1>1, <1>3, Judged, Changed DEF Keeps
<1> HIDE DEF e
<1>5. /\ f \in Entry /\ Keeps(f, e) /\ f.state = "shadow" /\ f.matches = 0 /\ f.failures = 0
    BY <1>3, <1>4, Changed DEF Keeps
<1> HIDE DEF f
<1>6. Sound(f) /\ Backed(f, run[p])
    BY <1>1, <1>4, <1>5, Judged, Thresholds DEF Sound, Backed, Keeps, Active
<1>7. f.failures <= 0
    BY <1>5
<1> QED
    BY <1>1, <1>2, <1>3, <1>5, <1>6, <1>7, Judged, InPlace

(* What an entry tells of its observations backs it.                       *)
LEMMA ToldBacks ==
    ASSUME TypeOK, NEW p \in Patterns, NEW e \in Entry \cup {Absent}
    PROVE  /\ Told(p, e) \in [plan : Plans, count : 0..Earned, services : SUBSET Services, seen : Nat]
           /\ e \in Entry => Backed(e, Told(p, e))
<1>1. CASE e = Absent
    <2>1. run[p] \in [plan : Plans, count : 0..Earned, services : SUBSET Services, seen : Nat]
        BY DEF TypeOK
    <2>2. 0 \in 0..Earned /\ {} \in SUBSET Services /\ 0 \in Nat
        BY Thresholds
    <2>3. Told(p, e) = [run[p] EXCEPT !.count = 0, !.services = {}, !.seen = 0]
        BY <1>1 DEF Told
    <2>4. Told(p, e) \in [plan : Plans, count : 0..Earned, services : SUBSET Services, seen : Nat]
        BY <2>1, <2>2, <2>3
    <2> QED
        BY <1>1, <2>4, EntryPresent
<1>2. CASE e \in Entry
    <2>1. /\ e # Absent /\ e.plan \in Plans /\ e.services \in SUBSET Services /\ e.seen \in Nat
          /\ e.state \in States /\ e.observations \in 1..MinObservations /\ e.matches \in 0..ShadowMatches
        BY <1>2, EntryPresent DEF Entry, States
    <2> DEFINE c == CASE e.state = "candidate" -> e.observations
                      [] e.state = "shadow" -> Earned - ShadowMatches + e.matches
                      [] e.state = "active" -> Earned
    <2>2. c \in 0..Earned /\ c >= 1
        BY <2>1, Thresholds DEF States, Base
    <2>3. /\ e.state = "candidate" => c = e.observations
          /\ e.state = "shadow" => c = Base + e.matches
          /\ e.state = "active" => c = Earned
        BY DEF Base
    <2>4. Told(p, e) = [plan |-> e.plan, count |-> c, services |-> e.services, seen |-> e.seen]
        BY <2>1 DEF Told
    <2> HIDE DEF c
    <2>5. Backed(e, Told(p, e))
        BY <2>1, <2>2, <2>3, <2>4, Thresholds DEF Backed
    <2> QED
        BY <2>1, <2>2, <2>4, <2>5
<1> QED
    BY <1>1, <1>2

(* A restart: what the file says is as well founded as what was in memory. *)
LEMMA RestartStep == ASSUME PInv, Restart PROVE PInv'
<1>1. /\ TypeOK /\ now' = now /\ crashes' = crashes + 1 /\ disk' = disk
      /\ unsaved' = (entries' # disk)
    BY DEF Restart, PInv
<1>2. /\ entries' \in [Patterns -> Entry \cup {Absent}]
      /\ Cardinality(Present(entries')) <= MaxEntries
      /\ \A p \in Patterns : entries'[p] = disk[p] \/ entries'[p] = Absent
    <2>1. CASE entries' = disk
        BY <1>1, <2>1 DEF PInv, TypeOK
    <2>2. CASE entries' = [p \in Patterns |-> Absent]
        <3>1. Present(entries') = {}
            BY <2>2 DEF Present
        <3> QED
            BY <2>2, <3>1, FS_EmptySet, Thresholds
    <2> QED
        BY <2>1, <2>2 DEF Restart
<1>3. CASE unsaved \/ unsaved'
    <2>1. /\ run' = [p \in Patterns |-> Told(p, entries'[p])]
          /\ bad' = [p \in Patterns |-> IF entries'[p] = Absent THEN 0 ELSE entries'[p].failures]
        BY <1>3 DEF Restart
    <2>2. run' \in [Patterns -> [plan : Plans, count : 0..Earned, services : SUBSET Services, seen : Nat]]
        BY <1>1, <1>2, <2>1, ToldBacks
    <2>3. bad' \in [Patterns -> 0..MaxFailures]
        BY <1>2, <2>1 DEF Entry, MaxFailures
    <2>4. Accounted(entries', run', bad')
        <3> SUFFICES ASSUME NEW p \in Patterns, entries'[p] \in Entry
                     PROVE  /\ Sound(entries'[p])
                            /\ Backed(entries'[p], run'[p])
                            /\ entries'[p].failures <= bad'[p]
            BY DEF Accounted
        <3>1. Sound(entries'[p])
            BY <1>2, EntryPresent DEF PInv
        <3>2. Backed(entries'[p], run'[p])
            BY <1>1, <2>1, ToldBacks
        <3>3. bad'[p] = entries'[p].failures /\ entries'[p].failures \in Nat
            BY <2>1, EntryPresent DEF Entry, MaxFailures
        <3> QED
            BY <3>1, <3>2, <3>3
    <2>5. now' \in Nat /\ crashes' \in Nat
        BY <1>1 DEF TypeOK
    <2>6. UNCHANGED disk /\ unsaved' \in BOOLEAN /\ (~unsaved' => entries' = disk)
        BY <1>1, Zenon
    <2> QED
        BY <1>2, <2>2, <2>3, <2>4, <2>5, <2>6, Settle
<1>4. CASE ~unsaved /\ ~unsaved'
    <2>1. run' = run /\ bad' = bad
        BY <1>4 DEF Restart
    <2>2. entries' = entries
        BY <1>1, <1>4 DEF PInv
    <2> QED
        BY <1>1, <1>2, <2>1, <2>2, Settle DEF PInv, TypeOK
<1> QED
    BY <1>3, <1>4

(* The clock, and steps that change nothing.                               *)
LEMMA IdleStep == ASSUME PInv, Tick \/ UNCHANGED vars PROVE PInv'
<1>1. /\ now' \in Nat /\ crashes' \in Nat
      /\ UNCHANGED <<entries, disk, unsaved, run, bad>>
    BY DEF Tick, vars, fileVars, PInv, TypeOK
<1>2. Accounted(entries', run', bad')
    BY <1>1 DEF PInv
<1> QED
    BY <1>1, <1>2, Settle DEF PInv, TypeOK

LEMMA NextPInv == PInv /\ [Next]_vars => PInv'
<1> SUFFICES ASSUME PInv, [Next]_vars PROVE PInv'
    OBVIOUS
<1>1. ASSUME NEW p \in Patterns, NEW s \in Services, NEW q \in Plans, ObserveFresh(p, s, q)
      PROVE  PInv'
    BY <1>1, FreshStep
<1>2. ASSUME NEW p \in Patterns, NEW s \in Services, NEW q \in Plans, ObserveAgain(p, s, q)
      PROVE  PInv'
    BY <1>2, AgainStep
<1>3. ASSUME NEW p \in Patterns, Validate(p) PROVE PInv'
    BY <1>3, ValidateStep
<1>4. ASSUME NEW p \in Patterns, Fail(p) PROVE PInv'
    BY <1>4, FailStep
<1>5. ASSUME NEW p \in Patterns, Demote(p) PROVE PInv'
    BY <1>5, DemoteStep
<1>6. ASSUME Restart PROVE PInv'
    BY <1>6, RestartStep
<1>7. ASSUME Tick \/ UNCHANGED vars PROVE PInv'
    BY <1>7, IdleStep
<1> QED
    BY <1>1, <1>2, <1>3, <1>4, <1>5, <1>6, <1>7 DEF Next, Observe, RecordValidation

-----------------------------------------------------------------------------
(* Every operation of the registry, restarts from a file of any age        *)
(* included, keeps each entry sound and backed by what was observed.       *)
THEOREM PlansInductive == Spec => []PInv
<1> QED
    BY InitPInv, NextPInv, PTL DEF Spec

(* evictLocked (adaptive_plan.go) keeps the registry within MaxPatterns,   *)
(* after every call and after every restart.                               *)
THEOREM TypeCorrect == Spec => []TypeOK
<1>1. PInv => TypeOK
    BY DEF PInv
<1> QED
    BY <1>1, PlansInductive, PTL

(* Observe (adaptive_plan.go:76-107): a plan replaces the planner only     *)
(* when its unbroken run of observations earned it, for any thresholds.    *)
THEOREM EarnedCorrect == Spec => []ActiveEarned
<1>1. PInv => ActiveEarned
    <2> SUFFICES ASSUME PInv, NEW p \in Patterns, Active(p)
                 PROVE  /\ run[p].plan = entries[p].plan
                        /\ run[p].count >= Earned
                        /\ Cardinality(run[p].services) >= MinServices
        BY DEF ActiveEarned
    <2>1. Sound(entries[p]) /\ Backed(entries[p], run[p]) /\ entries[p] \in Entry
        BY Judged
    <2>2. entries[p].services \in SUBSET Services /\ run[p].services \in SUBSET Services
        BY <2>1 DEF Entry, PInv, TypeOK
    <2>3. Cardinality(entries[p].services) >= MinServices
        BY <2>1 DEF Sound, Active
    <2>4. Cardinality(run[p].services) >= MinServices
        BY <2>1, <2>2, <2>3, MoreServices, Thresholds DEF Backed
    <2> QED
        BY <2>1, <2>4 DEF Backed, Active
<1> QED
    BY <1>1, PlansInductive, PTL

(* RecordValidation (adaptive_plan.go:109-133): an entry never counts more *)
(* failures than there were in a row, so no plan is demoted for fewer than *)
(* adaptiveMaxConsecutiveFailures.                                         *)
THEOREM DemotionCorrect == Spec => DemotionJustified
<1> DEFINE Justified == \A p \in Patterns :
        Active(p) /\ entries'[p].state = "shadow" /\ crashes' = crashes => bad[p] + 1 >= MaxFailures
<1>1. ASSUME PInv, [Next]_vars PROVE Justified
    <2> SUFFICES ASSUME NEW p \in Patterns,
                        Active(p), entries'[p].state = "shadow", crashes' = crashes
                 PROVE  bad[p] + 1 >= MaxFailures
        OBVIOUS
    <2>1. TypeOK /\ entries[p].state = "active"
        BY <1>1 DEF PInv, Active
    <2>2. ASSUME NEW o \in Patterns, NEW s \in Services, NEW q \in Plans, ObserveFresh(o, s, q)
          PROVE  FALSE
        <3> DEFINE e == [plan |-> q, state |-> "candidate", observations |-> 1, matches |-> 0,
                         failures |-> 0, services |-> {s}, seen |-> now]
                   m == [entries EXCEPT ![o] = e]
        <3>1. o # p /\ entries' \in Evictions(m)
            BY <2>2 DEF ObserveFresh
        <3>2. m[p] = entries[p]
            BY <3>1, <2>1 DEF TypeOK
        <3>3. m \in [Patterns -> Entry \cup {Absent}]
            BY <2>1, Thresholds DEF TypeOK, Entry, MaxFailures
        <3>4. entries'[p] = m[p] \/ entries'[p] = Absent
            <4> HIDE DEF m
            <4> QED
                BY <3>1, <3>3 DEF Evictions
        <3> QED
            BY <3>2, <3>4, <2>1, EntryPresent
    <2>3. ASSUME NEW o \in Patterns, NEW s \in Services, NEW q \in Plans, ObserveAgain(o, s, q)
          PROVE  FALSE
        <3>1. o # p /\ \E f : entries' = [entries EXCEPT ![o] = f]
            BY <2>3 DEF ObserveAgain
        <3> QED
            BY <3>1, <2>1 DEF TypeOK
    <2>4. ASSUME NEW o \in Patterns, Validate(o) PROVE FALSE
        BY <2>1, <2>4, <1>1, Judged DEF Validate, TypeOK, Entry
    <2>5. ASSUME NEW o \in Patterns, Fail(o) PROVE FALSE
        BY <2>1, <2>5, <1>1, Judged DEF Fail, TypeOK, Entry
    <2>6. ASSUME NEW o \in Patterns, Demote(o) PROVE bad[p] + 1 >= MaxFailures
        <3>1. CASE o = p
            BY <3>1, <2>6, <1>1, Judged DEF Demote, MaxFailures
        <3>2. CASE o # p
            BY <3>2, <2>1, <2>6 DEF Demote, TypeOK
        <3> QED
            BY <3>1, <3>2
    <2>7. ASSUME Restart PROVE FALSE
        BY <2>1, <2>7 DEF Restart, TypeOK
    <2>8. ASSUME Tick \/ UNCHANGED vars PROVE FALSE
        BY <2>1, <2>8 DEF Tick, vars
    <2> QED
        BY <1>1, <2>2, <2>3, <2>4, <2>5, <2>6, <2>7, <2>8 DEF Next, Observe, RecordValidation
<1> QED
    BY <1>1, PlansInductive, PTL DEF Spec, DemotionJustified

(* newAdaptivePlanRegistry (adaptive_plan.go:39-62): what a restart reads  *)
(* back is what was in memory, unless a save or this load failed.          *)
THEOREM RestartCorrect == Spec => RestartTransparent
<1>1. ASSUME PInv, [Next]_vars, crashes' # crashes, ~unsaved, ~unsaved'
      PROVE  entries' = entries
    <2>1. Restart
        BY <1>1 DEF Next, Observe, RecordValidation, ObserveFresh, ObserveAgain,
                    Validate, Fail, Demote, Tick, vars
    <2> QED
        BY <1>1, <2>1 DEF Restart, PInv
<1> QED
    BY <1>1, PlansInductive, PTL DEF Spec, RestartTransparent
=============================================================================
