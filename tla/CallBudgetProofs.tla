-------------------------- MODULE CallBudgetProofs --------------------------
(***************************************************************************)
(* Proofs about CallBudget, for any limits, window and number of restarts. *)
(***************************************************************************)
EXTENDS CallBudget, SequenceTheorems, TLAPS

(* The list s, compared with the history h from the end.                   *)
At(s, h, j) == Len(h) - Len(s) + j

(* Grants are recorded in the order of the clock t.                        *)
Ordered(h, t) ==
    /\ \A i \in 1..Len(h) : h[i] <= t
    /\ \A i, j \in 1..Len(h) : i <= j => h[i] <= h[j]

(* Whatever was lost, s never claims a later call than the history has.    *)
Aligned(s, h) ==
    /\ Len(s) <= Len(h)
    /\ \A j \in 1..Len(s) : s[j] <= h[At(s, h, j)]

(* The list s ends as the history ends, and what it lacks has expired.     *)
Covers(s, h, t) ==
    /\ Len(s) <= Len(h)
    /\ \A j \in 1..Len(s) : s[j] = h[At(s, h, j)]
    /\ \A i \in 1..Len(h) - Len(s) : h[i] + Hour < t

(* The list in memory, and the file unless a save is missing, know every   *)
(* live grant until a restart loses one.                                   *)
Remembered ==
    /\ ~forgotten => Covers(calls, grants, now)
    /\ ~forgotten /\ ~unsaved => Covers(disk, grants, now)

BInv ==
    /\ TypeOK
    /\ Ordered(grants, now)
    /\ Aligned(calls, grants) /\ Aligned(disk, grants)
    /\ Remembered
    /\ RollingLimit

-----------------------------------------------------------------------------
(* Facts about lists and histories.                                        *)

(* The elements and the length of a list with one more call.               *)
LEMMA Appended ==
    ASSUME NEW s \in Seq(Nat), NEW t \in Nat
    PROVE  /\ Len(s) \in Nat
           /\ \A i \in 1..Len(s) : s[i] \in Nat
           /\ Append(s, t) \in Seq(Nat)
           /\ Len(Append(s, t)) = Len(s) + 1
           /\ \A i \in 1..Len(s) : Append(s, t)[i] = s[i]
           /\ Append(s, t)[Len(s) + 1] = t
    BY LenProperties, ElementOfSeq, AppendProperties

(* A grant at the present keeps the history ordered.                       *)
LEMMA OrderedAppend ==
    ASSUME NEW h \in Seq(Nat), NEW t \in Nat, Ordered(h, t)
    PROVE  Ordered(Append(h, t), t)
    BY Appended DEF Ordered

(* A grant recorded in the list and in the history keeps them aligned.     *)
LEMMA AlignedAppend ==
    ASSUME NEW s \in Seq(Nat), NEW h \in Seq(Nat), NEW t \in Nat, Aligned(s, h)
    PROVE  Aligned(Append(s, t), Append(h, t))
<1> DEFINE S == Append(s, t)
           H == Append(h, t)
<1>1. /\ Len(s) \in Nat /\ Len(S) = Len(s) + 1 /\ S[Len(s) + 1] = t
      /\ \A i \in 1..Len(s) : S[i] = s[i]
    BY Appended
<1>2. /\ Len(h) \in Nat /\ Len(H) = Len(h) + 1 /\ H[Len(h) + 1] = t
      /\ \A i \in 1..Len(h) : H[i] = h[i]
    BY Appended
<1>3. Len(s) <= Len(h) /\ \A j \in 1..Len(s) : s[j] <= h[Len(h) - Len(s) + j]
    BY DEF Aligned, At
<1> HIDE DEF S, H
<1>4. ASSUME NEW j \in 1..Len(S) PROVE S[j] <= H[Len(H) - Len(S) + j]
    <2>1. CASE j = Len(s) + 1
        BY <1>1, <1>2, <1>3, <2>1
    <2>2. CASE j \in 1..Len(s)
        <3>1. Len(h) - Len(s) + j \in 1..Len(h) /\ Len(H) - Len(S) = Len(h) - Len(s)
            BY <1>1, <1>2, <1>3, <2>2
        <3> QED
            BY <1>1, <1>2, <1>3, <2>2, <3>1
    <2> QED
        BY <1>1, <2>1, <2>2
<1>5. Len(S) <= Len(H)
    BY <1>1, <1>2, <1>3
<1> QED
    BY <1>4, <1>5 DEF Aligned, At, S, H

(* A grant that a list misses leaves it behind the history.                *)
LEMMA AlignedBehind ==
    ASSUME NEW s \in Seq(Nat), NEW h \in Seq(Nat), NEW t \in Nat,
           Aligned(s, h), Ordered(h, t)
    PROVE  Aligned(s, Append(h, t))
<1> DEFINE H == Append(h, t)
<1>1. Len(s) \in Nat /\ \A i \in 1..Len(s) : s[i] \in Nat
    BY Appended
<1>2. /\ Len(h) \in Nat /\ Len(H) = Len(h) + 1 /\ H[Len(h) + 1] = t
      /\ \A i \in 1..Len(h) : h[i] \in Nat /\ H[i] = h[i]
    BY Appended
<1>3. Len(s) <= Len(h) /\ \A j \in 1..Len(s) : s[j] <= h[Len(h) - Len(s) + j]
    BY DEF Aligned, At
<1>4. /\ \A i \in 1..Len(h) : h[i] <= t
      /\ \A i, j \in 1..Len(h) : i <= j => h[i] <= h[j]
    BY DEF Ordered
<1> HIDE DEF H
<1>5. ASSUME NEW j \in 1..Len(s) PROVE s[j] <= H[Len(H) - Len(s) + j]
    <2>1. PICK i \in 1..Len(h) : i = Len(h) - Len(s) + j
        BY <1>1, <1>2, <1>3
    <2>2. Len(H) - Len(s) + j = i + 1
        BY <1>1, <1>2, <2>1
    <2>3. s[j] <= h[i]
        BY <1>3, <2>1
    <2>4. CASE i = Len(h)
        BY <1>1, <1>2, <1>4, <2>2, <2>3, <2>4
    <2>5. CASE i < Len(h)
        <3>1. i + 1 \in 1..Len(h)
            BY <1>2, <2>5
        <3>2. h[i] <= h[i + 1] /\ H[i + 1] = h[i + 1]
            BY <1>2, <1>4, <3>1
        <3>3. h[i] \in Nat /\ h[i + 1] \in Nat /\ s[j] \in Nat
            BY <1>1, <1>2, <3>1
        <3>4. s[j] <= H[i + 1]
            BY <2>3, <3>2, <3>3
        <3> QED
            BY <2>2, <3>4
    <2> QED
        BY <1>2, <2>4, <2>5
<1>6. Len(s) <= Len(H)
    BY <1>1, <1>2, <1>3
<1> QED
    BY <1>5, <1>6 DEF Aligned, At, H

(* A grant recorded in both keeps the list covering the history.           *)
LEMMA CoversAppend ==
    ASSUME NEW s \in Seq(Nat), NEW h \in Seq(Nat), NEW t \in Nat, Covers(s, h, t)
    PROVE  Covers(Append(s, t), Append(h, t), t)
<1> DEFINE S == Append(s, t)
           H == Append(h, t)
<1>1. /\ Len(s) \in Nat /\ Len(S) = Len(s) + 1 /\ S[Len(s) + 1] = t
      /\ \A i \in 1..Len(s) : S[i] = s[i]
    BY Appended
<1>2. /\ Len(h) \in Nat /\ Len(H) = Len(h) + 1 /\ H[Len(h) + 1] = t
      /\ \A i \in 1..Len(h) : H[i] = h[i]
    BY Appended
<1>3. /\ Len(s) <= Len(h)
      /\ \A j \in 1..Len(s) : s[j] = h[Len(h) - Len(s) + j]
      /\ \A i \in 1..Len(h) - Len(s) : h[i] + Hour < t
    BY DEF Covers, At
<1> HIDE DEF S, H
<1>4. Len(S) <= Len(H) /\ Len(H) - Len(S) = Len(h) - Len(s)
    BY <1>1, <1>2, <1>3
<1>5. ASSUME NEW j \in 1..Len(S) PROVE S[j] = H[Len(H) - Len(S) + j]
    <2>1. CASE j = Len(s) + 1
        BY <1>1, <1>2, <1>3, <2>1
    <2>2. CASE j \in 1..Len(s)
        <3>1. Len(h) - Len(s) + j \in 1..Len(h)
            BY <1>1, <1>2, <1>3, <2>2
        <3> QED
            BY <1>1, <1>2, <1>3, <1>4, <2>2, <3>1
    <2> QED
        BY <1>1, <2>1, <2>2
<1>6. ASSUME NEW i \in 1..Len(H) - Len(S) PROVE H[i] + Hour < t
    BY <1>1, <1>2, <1>3, <1>4
<1> QED
    BY <1>4, <1>5, <1>6 DEF Covers, At, S, H

(* Dropping calls from the front of a list keeps it aligned, and covering  *)
(* as long as what is dropped has expired.                                 *)
LEMMA DroppedFront ==
    ASSUME NEW s \in Seq(Nat), NEW h \in Seq(Nat), NEW t \in Nat, NEW f \in 0..Len(s)
    PROVE  /\ SubSeq(s, f + 1, Len(s)) \in Seq(Nat)
           /\ Len(SubSeq(s, f + 1, Len(s))) = Len(s) - f
           /\ Aligned(s, h) => Aligned(SubSeq(s, f + 1, Len(s)), h)
           /\ Covers(s, h, t) /\ (\A i \in 1..f : s[i] + Hour < t)
                => Covers(SubSeq(s, f + 1, Len(s)), h, t)
<1> DEFINE S == SubSeq(s, f + 1, Len(s))
<1>1. Len(s) \in Nat /\ Len(h) \in Nat /\ \A i \in 1..Len(s) : s[i] \in Nat
    BY Appended
<1>2. S \in Seq(Nat) /\ Len(S) = Len(s) - f /\ \A j \in 1..Len(S) : S[j] = s[f + j]
    <2>1. \A i \in f + 1 .. Len(s) : s[i] \in Nat
        BY <1>1
    <2> QED
        BY <1>1, <2>1, SubSeqProperties
<1> HIDE DEF S
<1>3. ASSUME NEW j \in 1..Len(S)
      PROVE  f + j \in 1..Len(s) /\ Len(h) - Len(s) + (f + j) = Len(h) - Len(S) + j
    BY <1>1, <1>2
<1>4. ASSUME Aligned(s, h) PROVE Aligned(S, h)
    <2>1. Len(s) <= Len(h) /\ \A j \in 1..Len(s) : s[j] <= h[Len(h) - Len(s) + j]
        BY <1>4 DEF Aligned, At
    <2>2. ASSUME NEW j \in 1..Len(S) PROVE S[j] <= h[Len(h) - Len(S) + j]
        <3>1. s[f + j] <= h[Len(h) - Len(s) + (f + j)]
            BY <1>3, <2>1
        <3> QED
            BY <1>2, <1>3, <3>1
    <2>3. Len(S) <= Len(h)
        BY <1>1, <1>2, <2>1
    <2> QED
        BY <2>2, <2>3 DEF Aligned, At
<1>5. ASSUME Covers(s, h, t), \A i \in 1..f : s[i] + Hour < t PROVE Covers(S, h, t)
    <2>1. /\ Len(s) <= Len(h)
          /\ \A j \in 1..Len(s) : s[j] = h[Len(h) - Len(s) + j]
          /\ \A i \in 1..Len(h) - Len(s) : h[i] + Hour < t
        BY <1>5 DEF Covers, At
    <2>2. ASSUME NEW j \in 1..Len(S) PROVE S[j] = h[Len(h) - Len(S) + j]
        <3>1. s[f + j] = h[Len(h) - Len(s) + (f + j)]
            BY <1>3, <2>1
        <3> QED
            BY <1>2, <1>3, <3>1
    <2>3. ASSUME NEW i \in 1..Len(h) - Len(S) PROVE h[i] + Hour < t
        <3>1. CASE i <= Len(h) - Len(s)
            BY <1>1, <2>1, <3>1
        <3>2. CASE i > Len(h) - Len(s)
            <4> DEFINE m == i - (Len(h) - Len(s))
            <4>1. m \in 1..f /\ i = Len(h) - Len(s) + m
                BY <1>1, <1>2, <2>1, <3>2
            <4> HIDE DEF m
            <4>2. m \in 1..Len(s) /\ s[m] = h[i]
                BY <1>1, <2>1, <4>1
            <4>3. s[m] + Hour < t
                BY <1>5, <4>1
            <4> QED
                BY <4>2, <4>3
        <3> QED
            BY <1>1, <1>2, <3>1, <3>2
    <2>4. Len(S) <= Len(h)
        BY <1>1, <1>2, <2>1
    <2> QED
        BY <2>2, <2>3, <2>4 DEF Covers, At
<1> QED
    BY <1>2, <1>4, <1>5 DEF S

-----------------------------------------------------------------------------
(* The invariant, and that every step keeps it.                            *)

(* The empty lists are in step with the empty history.                     *)
LEMMA InitBInv == Init => BInv
<1> SUFFICES ASSUME Init PROVE BInv
    OBVIOUS
<1>1. Len(<<>>) = 0 /\ <<>> \in Seq(Nat)
    BY EmptySeq
<1>2. limit \in Limits /\ limit \in Nat
    BY BudgetAssumption DEF Init, BudgetAssumption
<1>3. TypeOK
    <2>1. calls \in Seq(Nat) /\ disk \in Seq(Nat) /\ grants \in Seq(Nat)
        BY <1>1 DEF Init
    <2>2. Len(calls) <= limit /\ Len(disk) <= limit
        BY <1>1, <1>2 DEF Init
    <2> QED
        BY <2>1, <2>2, <1>2 DEF Init, TypeOK
<1>4. calls = <<>> /\ disk = <<>> /\ grants = <<>>
    BY DEF Init
<1>5. Ordered(grants, now) /\ Aligned(<<>>, grants) /\ Covers(<<>>, grants, now)
    BY <1>1, <1>4 DEF Ordered, Aligned, Covers
<1>6. RollingLimit
    BY <1>1, <1>4 DEF RollingLimit, HourlyLimit
<1> QED
    BY <1>3, <1>4, <1>5, <1>6 DEF BInv, Remembered

(* A grant keeps the invariant: the limit-th grant before it has expired.  *)
LEMMA GrantStep ==
    ASSUME BInv, NEW first \in 0..Len(calls), AllowGrant(first)
    PROVE  BInv'
<1>1. /\ calls \in Seq(Nat) /\ disk \in Seq(Nat) /\ grants \in Seq(Nat) /\ now \in Nat
      /\ limit \in Nat /\ limit \in Limits /\ Len(grants) \in Nat /\ Len(calls) \in Nat
      /\ Hour \in Nat
    BY LenProperties, BudgetAssumption DEF BInv, TypeOK, BudgetAssumption
<1>2. /\ Live(first) \in Seq(Nat) /\ Len(Live(first)) = Len(calls) - first
      /\ Aligned(Live(first), grants)
      /\ ~forgotten => Covers(Live(first), grants, now)
    <2>1. \A i \in 1..first : calls[i] + Hour < now
        BY DEF AllowGrant, FirstLive, Expired
    <2> QED
        BY <1>1, <2>1, DroppedFront DEF BInv, Remembered, Live
<1>3. /\ calls' = Append(Live(first), now) /\ grants' = Append(grants, now)
      /\ now' = now /\ limit' = limit /\ forgotten' = forgotten
      /\ caller' = "calling" /\ crashes' = crashes /\ Len(Live(first)) < limit
      /\ (disk' = calls' /\ unsaved' = FALSE) \/ (disk' = disk /\ unsaved' = TRUE)
    BY DEF AllowGrant, Saved, NotSaved
<1>4. TypeOK'
    <2>1. calls' \in Seq(Nat) /\ grants' \in Seq(Nat) /\ Len(calls') <= limit
        BY <1>1, <1>2, <1>3, Appended
    <2> QED
        BY <1>1, <1>3, <2>1 DEF BInv, TypeOK
<1>5. Ordered(grants, now)'
    BY <1>1, <1>3, OrderedAppend DEF BInv
<1>6. Aligned(calls, grants)'
    BY <1>1, <1>2, <1>3, AlignedAppend
<1>7. Aligned(disk, grants)'
    BY <1>1, <1>3, <1>6, AlignedBehind DEF BInv
<1>8. Remembered'
    BY <1>1, <1>2, <1>3, CoversAppend DEF Remembered
<1>9. RollingLimit'
    <2> SUFFICES ASSUME ~forgotten, NEW i \in 1..Len(grants'), i + limit <= Len(grants')
                 PROVE  grants'[i] + Hour < grants'[i + limit]
        BY <1>3 DEF RollingLimit, HourlyLimit
    <2>1. /\ Len(grants') = Len(grants) + 1 /\ grants'[Len(grants) + 1] = now
          /\ \A j \in 1..Len(grants) : grants'[j] = grants[j]
        BY <1>1, <1>3, Appended
    <2>2. CASE i + limit <= Len(grants)
        <3>1. i \in 1..Len(grants) /\ i + limit \in 1..Len(grants)
            BY <1>1, <2>1, <2>2
        <3>2. grants[i] + Hour < grants[i + limit]
            BY <2>2, <3>1 DEF BInv, RollingLimit, HourlyLimit
        <3> QED
            BY <2>1, <3>1, <3>2
    <2>3. CASE i + limit = Len(grants) + 1
        <3>1. i \in 1..Len(grants) - Len(Live(first)) /\ i \in 1..Len(grants)
            BY <1>1, <1>2, <1>3, <2>1, <2>3
        <3>2. grants[i] + Hour < now
            BY <1>2, <3>1 DEF Covers
        <3> QED
            BY <2>1, <2>3, <3>1, <3>2
    <2> QED
        BY <1>1, <2>1, <2>2, <2>3
<1> QED
    BY <1>4, <1>5, <1>6, <1>7, <1>8, <1>9 DEF BInv

(* A denial only drops expired calls.                                      *)
LEMMA DenyStep ==
    ASSUME BInv, NEW first \in 0..Len(calls), AllowDeny(first)
    PROVE  BInv'
<1>1. /\ calls \in Seq(Nat) /\ disk \in Seq(Nat) /\ grants \in Seq(Nat) /\ now \in Nat
      /\ limit \in Nat /\ Len(calls) \in Nat /\ Len(calls) <= limit
    BY LenProperties, BudgetAssumption DEF BInv, TypeOK, BudgetAssumption
<1>2. /\ Live(first) \in Seq(Nat) /\ Len(Live(first)) = Len(calls) - first
      /\ Aligned(Live(first), grants)
      /\ ~forgotten => Covers(Live(first), grants, now)
    <2>1. \A i \in 1..first : calls[i] + Hour < now
        BY DEF AllowDeny, FirstLive, Expired
    <2> QED
        BY <1>1, <2>1, DroppedFront DEF BInv, Remembered, Live
<1>3. /\ calls' = Live(first) /\ grants' = grants /\ now' = now /\ limit' = limit
      /\ forgotten' = forgotten /\ caller' = "limited" /\ crashes' = crashes
      /\ (disk' = calls' /\ unsaved' = FALSE) \/ (disk' = disk /\ unsaved' = unsaved)
    BY DEF AllowDeny, Saved, NotSaved
<1>4. TypeOK'
    <2>1. Len(calls') <= limit
        BY <1>1, <1>2, <1>3
    <2> QED
        BY <1>1, <1>2, <1>3, <2>1 DEF BInv, TypeOK
<1>5. Remembered'
    BY <1>2, <1>3 DEF BInv, Remembered
<1> QED
    BY <1>2, <1>3, <1>4, <1>5 DEF BInv, RollingLimit, HourlyLimit

(* A restart goes on from the file, or from nothing.                       *)
LEMMA RestartStep == BInv /\ Restart => BInv'
<1> SUFFICES ASSUME BInv, Restart PROVE BInv'
    OBVIOUS
<1>1. Len(<<>>) = 0 /\ <<>> \in Seq(Nat) /\ limit \in Nat /\ Len(grants) \in Nat
    BY EmptySeq, LenProperties, BudgetAssumption DEF BInv, TypeOK, BudgetAssumption
<1>2. TypeOK'
    <2>1. calls' \in Seq(Nat) /\ Len(calls') <= limit'
        <3>1. CASE calls' = disk
            BY <3>1 DEF Restart, BInv, TypeOK
        <3>2. CASE calls' = <<>>
            BY <1>1, <3>2 DEF Restart
        <3> QED
            BY <3>1, <3>2 DEF Restart
    <2>2. forgotten' \in BOOLEAN
        BY DEF Restart
    <2>3. crashes' \in Nat /\ unsaved' = FALSE /\ caller' = "idle"
        BY DEF Restart, BInv, TypeOK
    <2>4. UNCHANGED <<now, limit, disk, grants>>
        BY DEF Restart
    <2> QED
        BY <2>1, <2>2, <2>3, <2>4 DEF BInv, TypeOK
<1>3. Aligned(calls, grants)' /\ Aligned(disk, grants)'
    <2>1. Aligned(<<>>, grants)
        BY <1>1 DEF Aligned
    <2> QED
        BY <2>1 DEF Restart, BInv
<1>4. Remembered'
    BY DEF Restart, BInv, Remembered
<1>5. Ordered(grants, now)' /\ RollingLimit'
    BY DEF Restart, BInv, RollingLimit, HourlyLimit
<1> QED
    BY <1>2, <1>3, <1>4, <1>5 DEF BInv

(* What has expired stays expired.                                         *)
LEMMA TickStep == BInv /\ Tick => BInv'
<1> SUFFICES ASSUME BInv, Tick PROVE BInv'
    OBVIOUS
<1>1. /\ now \in Nat /\ now' = now + 1 /\ Hour \in Nat
      /\ Len(grants) \in Nat /\ Len(calls) \in Nat /\ Len(disk) \in Nat
      /\ \A i \in 1..Len(grants) : grants[i] \in Nat
    BY LenProperties, ElementOfSeq, BudgetAssumption DEF BInv, TypeOK, BudgetAssumption, Tick
<1>2. UNCHANGED <<limit, calls, disk, caller, grants, unsaved, forgotten, crashes>>
    BY DEF Tick
<1>3. Ordered(grants, now)'
    BY <1>1, <1>2 DEF BInv, Ordered
<1>4. ASSUME NEW s, Covers(s, grants, now), Len(s) \in Nat PROVE Covers(s, grants, now + 1)
    <2>1. \A i \in 1..Len(grants) - Len(s) : i \in 1..Len(grants)
        BY <1>1, <1>4
    <2>2. \A i \in 1..Len(grants) - Len(s) : grants[i] + Hour < now + 1
        BY <1>1, <1>4, <2>1 DEF Covers
    <2> QED
        BY <1>4, <2>2 DEF Covers
<1>5. Remembered'
    BY <1>1, <1>2, <1>4 DEF BInv, Remembered
<1>6. TypeOK'
    BY <1>1, <1>2 DEF BInv, TypeOK
<1> QED
    BY <1>2, <1>3, <1>5, <1>6 DEF BInv, RollingLimit, HourlyLimit

(* The invariant is inductive.                                             *)
LEMMA NextBInv == BInv /\ [Next]_vars => BInv'
<1> SUFFICES ASSUME BInv, [Next]_vars PROVE BInv'
    OBVIOUS
<1>1. CASE AllowUnlimited \/ Proceed \/ UNCHANGED vars
    <2>1. /\ UNCHANGED <<now, limit, calls, disk, grants, unsaved, forgotten, crashes>>
          /\ caller' \in {"idle", "calling", "limited"}
        BY <1>1 DEF AllowUnlimited, Proceed, vars, BInv, TypeOK
    <2> QED
        BY <2>1 DEF BInv, TypeOK, Remembered, RollingLimit, HourlyLimit
<1> QED
    BY <1>1, GrantStep, DenyStep, RestartStep, TickStep DEF Next, Allow

(* The invariant of the budget holds in every reachable state.             *)
THEOREM BudgetInductive == Spec => []BInv
    BY InitBInv, NextBInv, PTL DEF Spec

-----------------------------------------------------------------------------
(* callBudget (ai_guard.go:9-46): every variable keeps its type, and the   *)
(* list and the file never hold more than `limit' calls.                   *)
THEOREM TypeCorrect == Spec => []TypeOK
<1>1. BInv => TypeOK
    BY DEF BInv
<1> QED
    BY <1>1, BudgetInductive, PTL

(* Allow (ai_guard.go:24-46): the hourly limit holds across restarts until *)
(* one loses a grant that was never written.                               *)
THEOREM RollingCorrect == Spec => []RollingLimit
<1>1. BInv => RollingLimit
    BY DEF BInv
<1> QED
    BY <1>1, BudgetInductive, PTL

(* With a STATE_DIR and a file that never fails, no restart loses a grant, *)
(* so the hourly limit holds always (ai_guard.go:16-46).                   *)
THEOREM HourlyCorrect ==
    ASSUME Persistent, ~DiskFaults
    PROVE  Spec => []HourlyLimit
<1> DEFINE Kept == ~unsaved /\ ~forgotten
<1>1. Init => Kept
    BY DEF Init
<1>2. Kept /\ [Next]_vars => Kept'
    <2> SUFFICES ASSUME Kept, [Next]_vars PROVE Kept'
        OBVIOUS
    <2>1. ASSUME NEW first \in 0..Len(calls), AllowGrant(first) \/ AllowDeny(first) PROVE Kept'
        <3>1. ~NotSaved
            BY DEF NotSaved
        <3>2. CASE AllowGrant(first)
            BY <3>1, <3>2 DEF AllowGrant
        <3>3. CASE AllowDeny(first)
            BY <3>1, <3>3 DEF AllowDeny
        <3> QED
            BY <2>1, <3>2, <3>3
    <2>2. CASE Restart
        BY <2>2, Zenon DEF Restart
    <2>3. CASE AllowUnlimited \/ Proceed \/ Tick \/ UNCHANGED vars
        BY <2>3 DEF AllowUnlimited, Proceed, Tick, vars
    <2> QED
        BY <2>1, <2>2, <2>3 DEF Next, Allow
<1>3. RollingLimit /\ Kept => HourlyLimit
    BY DEF RollingLimit
<1> QED
    BY <1>1, <1>2, <1>3, RollingCorrect, PTL DEF Spec

(* Allow (ai_guard.go:41-43) never denies without `limit' grants in the    *)
(* last hour, whatever files were lost.                                    *)
THEOREM DenialCorrect == Spec => DenialJustified
<1> DEFINE Justified == caller = "idle" /\ caller' = "limited" =>
               limit <= Len(grants) /\ grants[Len(grants) - limit + 1] + Hour >= now
<1>1. BInv /\ [Next]_vars => [Justified]_vars
    <2> SUFFICES ASSUME BInv, [Next]_vars, caller = "idle", caller' = "limited"
                 PROVE  limit <= Len(grants) /\ grants[Len(grants) - limit + 1] + Hour >= now
        OBVIOUS
    <2>1. PICK first \in 0..Len(calls) : AllowDeny(first)
        BY DEF Next, Allow, AllowUnlimited, AllowGrant, Proceed, Restart, Tick, vars
    <2>2. /\ limit \in Nat \ {0} /\ now \in Nat /\ Hour \in Nat
          /\ Len(calls) \in Nat /\ Len(grants) \in Nat
          /\ \A i \in 1..Len(calls) : calls[i] \in Nat
          /\ \A i \in 1..Len(grants) : grants[i] \in Nat
        BY <2>1, LenProperties, ElementOfSeq, BudgetAssumption
        DEF BInv, TypeOK, BudgetAssumption, AllowDeny
    <2>3. Len(calls) - first >= limit /\ first + 1 \in 1..Len(calls)
        <3>1. Len(Live(first)) = Len(calls) - first
            BY DroppedFront, <2>2 DEF Live, BInv, TypeOK
        <3>2. Len(Live(first)) >= limit
            BY <2>1 DEF AllowDeny
        <3> QED
            BY <2>2, <3>1, <3>2
    <2>4. calls[first + 1] + Hour >= now
        BY <2>1, <2>2, <2>3 DEF AllowDeny, FirstLive, Expired
    <2>5. /\ Len(calls) <= Len(grants)
          /\ calls[first + 1] <= grants[Len(grants) - Len(calls) + (first + 1)]
        BY <2>3 DEF BInv, Aligned, At
    <2> DEFINE i == Len(grants) - Len(calls) + (first + 1)
               m == Len(grants) - limit + 1
    <2>6. i \in 1..Len(grants) /\ m \in 1..Len(grants) /\ i <= m
        BY <2>2, <2>3, <2>5
    <2>7. grants[i] <= grants[m]
        BY <2>6 DEF BInv, Ordered
    <2>8. limit <= Len(grants)
        BY <2>2, <2>3, <2>5
    <2>9. grants[m] + Hour >= now
        <3>1. calls[first + 1] <= grants[i]
            BY <2>5
        <3>2. calls[first + 1] \in Nat /\ grants[i] \in Nat /\ grants[m] \in Nat
            BY <2>2, <2>3, <2>6
        <3> HIDE DEF i, m
        <3> QED
            BY <2>2, <2>4, <2>7, <3>1, <3>2
    <2> QED
        BY <2>8, <2>9
<1> QED
    BY <1>1, BudgetInductive, PTL DEF Spec, DenialJustified
=============================================================================
