---------------------------- MODULE LearnersProofs ----------------------------
(***************************************************************************)
(* Proofs about what the learners make of their days.                      *)
(***************************************************************************)
EXTENDS InverterCalibration, Bootstrap, Scoreboard, BiasLearner, ShadeMap, QuantileBands,
        SumProofs, FiniteSetTheorems, SequenceTheorems, TLAPS

-----------------------------------------------------------------------------
(* Curves and their totals.                                                  *)

LEMMA TotalIsInt ==
    ASSUME NEW c, IsCurve(c)
    PROVE  Total(c) \in Int
  BY SumIsInt DEF IsCurve, Total, SumFunction

\* What is left of a curve is one.
LEMMA DayOfCurve ==
    ASSUME NEW c, IsCurve(c), NEW day
    PROVE  IsCurve(InDay(c, day))
<1> DEFINE S == {x \in DOMAIN c : LocalDay(x) = day}
<1>1. InDay(c, day) = [h \in S |-> c[h]] /\ S \in SUBSET DOMAIN c
  BY DEF InDay, Where
<1> HIDE DEF S
<1> QED
  BY <1>1, FS_Subset DEF IsCurve

LEMMA PlanesAreFinite == IsFiniteSet(PlaneSet)
  BY SiteAssumption, ListIsFinite DEF PlaneSet

\* The site's curve is one, and so is that of its metered planes.
LEMMA MeteredCurve ==
    ASSUME NEW curve, IsCurve(curve), NEW perPlane, NEW metered \in SUBSET PlaneSet,
           \A p \in DOMAIN perPlane : IsCurve(perPlane[p]),
           MeteredModeled(curve, perPlane, metered) # Null
    PROVE  IsCurve(MeteredModeled(curve, perPlane, metered))
<1>1. IsFiniteSet(metered)
  BY PlanesAreFinite, FS_Subset
<1>2. CASE metered = PlaneSet
  BY <1>2 DEF MeteredModeled
<1>3. CASE metered # PlaneSet
  <2> DEFINE Watts(h) == [p \in metered |-> At(perPlane[p], h)]
  <2>1. /\ MeteredModeled(curve, perPlane, metered) = [h \in DOMAIN curve |-> Total(Watts(h))]
        /\ \A p \in metered : p \in DOMAIN perPlane
    BY <1>3 DEF MeteredModeled
  <2>2. ASSUME NEW h \in DOMAIN curve PROVE IsCurve(Watts(h))
    BY <1>1, <2>1 DEF IsCurve, At, Get
  <2> HIDE DEF Watts
  <2>3. \A h \in DOMAIN curve : Total(Watts(h)) \in Int
    BY <2>2, TotalIsInt
  <2> QED
    BY <2>1, <2>3 DEF IsCurve
<1> QED
  BY <1>2, <1>3

-----------------------------------------------------------------------------
(* Dates and ranks.                                                         *)

\* A date no older than the ring is deep stays in the ring: Newest cuts older ones.
LEMMA NewestKeeps ==
    ASSUME NEW dates, NEW t \in Int, dates \subseteq 0..(t - 1), NEW n \in Int,
           NEW d \in dates, d >= t - n
    PROVE  d \in Newest(dates, n)
<1>0. d \in Int
  OBVIOUS
<1>1. {e \in dates : e > d} \in SUBSET ((d + 1)..(t - 1))
  <2>1. ASSUME NEW e \in dates, e > d PROVE e \in (d + 1)..(t - 1)
    <3>1. e \in 0..(t - 1)
      OBVIOUS
    <3> QED
      BY <1>0, <2>1, <3>1
  <2> QED
    BY <2>1
<1>2. /\ IsFiniteSet((d + 1)..(t - 1))
      /\ Cardinality((d + 1)..(t - 1)) = IF d + 1 > t - 1 THEN 0 ELSE (t - 1) - (d + 1) + 1
  BY FS_Interval
<1>3. /\ Cardinality({e \in dates : e > d}) <= Cardinality((d + 1)..(t - 1))
      /\ Cardinality({e \in dates : e > d}) \in Int
  BY <1>1, <1>2, FS_Subset, FS_CardinalityType
<1>4. d \in 0..(t - 1)
  OBVIOUS
<1>5. Cardinality({e \in dates : e > d}) < n
  BY <1>2, <1>3, <1>4
<1> QED
  BY <1>5 DEF Newest

\* The ranks of a finite set of hours are 1 to their number.
LEMMA RankTaken ==
    ASSUME NEW S, S \subseteq Int, IsFiniteSet(S), NEW k \in 1..Cardinality(S)
    PROVE  \E h \in S : Cardinality({y \in S : y <= h}) = k
<1> DEFINE n == Cardinality(S)
           UpTo(h) == {y \in S : y <= h}
           f == [h \in S |-> Cardinality(UpTo(h))]
<1>1. n \in Nat
  BY FS_CardinalityType
<1>2. IsFiniteSet(1..n) /\ Cardinality(1..n) = n
  BY <1>1, FS_Interval
<1>3. ASSUME NEW h \in S
      PROVE  IsFiniteSet(UpTo(h)) /\ Cardinality(UpTo(h)) \in 1..n
  <2>1. UpTo(h) \in SUBSET S
    OBVIOUS
  <2>2. IsFiniteSet(UpTo(h)) /\ Cardinality(UpTo(h)) <= n
    BY <2>1, FS_Subset
  <2>3. Cardinality(UpTo(h)) \in Nat
    BY <2>2, FS_CardinalityType
  <2>4. UpTo(h) # {}
    OBVIOUS
  <2>5. Cardinality(UpTo(h)) # 0
    BY <2>2, <2>4, FS_EmptySet
  <2> HIDE DEF UpTo, n
  <2> QED
    BY <1>1, <2>2, <2>3, <2>5
<1>4. ASSUME NEW g \in S, NEW h \in S, g < h
      PROVE  Cardinality(UpTo(g)) # Cardinality(UpTo(h))
  <2>0. g \in Int /\ h \in Int
    OBVIOUS
  <2>1. UpTo(g) \in SUBSET UpTo(h)
    <3>1. ASSUME NEW y \in S, y <= g PROVE y <= h
      <4>1. y \in Int
        OBVIOUS
      <4> QED
        BY <1>4, <2>0, <3>1, <4>1
    <3> QED
      BY <3>1
  <2>2. h \in UpTo(h) /\ h \notin UpTo(g)
    BY <1>4
  <2>3. UpTo(g) # UpTo(h)
    BY <2>2
  <2> HIDE DEF UpTo
  <2> QED
    BY <1>3, <2>1, <2>3, FS_Subset
<1> HIDE DEF UpTo
<1>5. f \in [S -> 1..n]
  BY <1>3
<1>6. \A g, h \in S : f[g] = f[h] => g = h
  BY <1>4
<1>7. f \in Injection(S, 1..n)
  BY <1>5, <1>6 DEF Injection, IsInjective
<1> HIDE DEF f
<1>8. f \in Surjection(S, 1..n)
  BY <1>2, <1>7, FS_Injection
<1>9. PICK h \in S : f[h] = k
  BY <1>8 DEF Surjection
<1>10. Cardinality(UpTo(h)) = k
  BY <1>9 DEF f
<1> QED
  BY <1>10 DEF UpTo

\* A sorted set is a list of its elements, each of them once.
LEMMA SortedIsInjective ==
    ASSUME NEW S, IsFiniteSet(S), S \subseteq Int
    PROVE  /\ Sorted(S) \in [1..Cardinality(S) -> S]
           /\ \A i, j \in 1..Cardinality(S) : Sorted(S)[i] = Sorted(S)[j] => i = j
<1> DEFINE n == Cardinality(S)
           UpTo(x) == {y \in S : y <= x}
           at(k) == CHOOSE x \in S : Cardinality(UpTo(x)) = k
           f == Sorted(S)
<1>1. ASSUME NEW k \in 1..n PROVE at(k) \in S /\ Cardinality(UpTo(at(k))) = k
  <2>1. \E x \in S : Cardinality(UpTo(x)) = k
    BY RankTaken
  <2> HIDE DEF UpTo
  <2> QED BY <2>1
<1>2. f = [k \in 1..n |-> at(k)]
  BY DEF Sorted
<1> HIDE DEF f, n, at, UpTo
<1>3. f \in [1..n -> S]
  BY <1>1, <1>2
<1>4. \A i, j \in 1..n : f[i] = f[j] => i = j
  <2>1. ASSUME NEW i \in 1..n, NEW j \in 1..n, f[i] = f[j] PROVE i = j
    <3>1. at(i) = at(j)
      BY <1>2, <2>1
    <3> QED BY <1>1, <3>1
  <2> QED BY <2>1
<1> QED BY <1>3, <1>4 DEF f, n

-----------------------------------------------------------------------------
(* Inverter calibration: what is folded is marked, or too old to be visited  *)
(* again; what is counted is no newer than the last day counted.             *)

\* A state and what is folded into it, in memory or in the file.
FoldOK(s, f) ==
    /\ s.marks \subseteq 0..(calDay - 1)
    /\ f \in Seq(Nat \X Int)
    /\ \A i \in DOMAIN f : f[i][1] \in s.marks \/ f[i][1] < calDay - CalWindow
    /\ \A i, j \in DOMAIN f : f[i] = f[j] => i = j

\* A state and the days behind its streak.
WatchOK(s, c) ==
    /\ IsFiniteSet(c) /\ c \subseteq Nat
    /\ s.streak = Cardinality(c)
    /\ s.lastOut \in Nat \cup {Null} /\ s.checked \in Nat \cup {Null}
    /\ \A d \in c : /\ s.lastOut \in Nat /\ s.checked \in Nat
                    /\ d <= s.lastOut /\ s.lastOut <= s.checked

CalFields == DOMAIN NeutralCal

\* The inductive invariant.
CalInv ==
    /\ calDay \in Nat
    /\ calKind \in [0..(CalDays - 1) -> DayKinds]
    /\ calCrashes \in Nat
    /\ DOMAIN calStore = CalFields /\ DOMAIN calDisk = CalFields
    /\ FoldOK(calStore, folded) /\ FoldOK(calDisk, foldedDisk)
    /\ WatchOK(calStore, counted) /\ WatchOK(calDisk, countedDisk)
    /\ etaCard \in BOOLEAN
    /\ calCrashes = 0 => (etaCard <=> calStore.streak >= OutOfBandDays)

\* The hours of a day that are folded, in their order.
InOrder(d, good) ==
    [k \in 1..Cardinality(good) |->
        <<d, CHOOSE h \in good : Cardinality({y \in good : y <= h}) = k>>]

\* Each hour of a day is folded once.
LEMMA InOrderOnce ==
    ASSUME NEW d \in Nat, NEW good, good \subseteq Int, IsFiniteSet(good)
    PROVE  /\ InOrder(d, good) \in Seq(Nat \X Int)
           /\ Len(InOrder(d, good)) = Cardinality(good)
           /\ \A i \in 1..Cardinality(good) : InOrder(d, good)[i][1] = d
           /\ \A i, j \in 1..Cardinality(good) :
                  InOrder(d, good)[i] = InOrder(d, good)[j] => i = j
<1> DEFINE n == Cardinality(good)
           UpTo(h) == {y \in good : y <= h}
           at(k) == CHOOSE h \in good : Cardinality(UpTo(h)) = k
           f == InOrder(d, good)
<1>1. n \in Nat
  BY FS_CardinalityType
<1>2. ASSUME NEW k \in 1..n
      PROVE  at(k) \in good /\ Cardinality(UpTo(at(k))) = k
  <2>1. \E h \in good : Cardinality(UpTo(h)) = k
    BY RankTaken
  <2> HIDE DEF UpTo
  <2> QED
    BY <2>1
<1>3. f = [k \in 1..n |-> <<d, at(k)>>]
  BY DEF InOrder
<1> HIDE DEF f, n, at, UpTo
<1>4. \A k \in 1..n : f[k] = <<d, at(k)>> /\ f[k] \in Nat \X Int
  BY <1>2, <1>3
<1>5. f \in [1..n -> Nat \X Int]
  BY <1>3, <1>4
<1>6. f \in Seq(Nat \X Int) /\ Len(f) = n
  BY <1>1, <1>5
<1>7. ASSUME NEW i \in 1..n, NEW j \in 1..n, f[i] = f[j] PROVE i = j
  <2>1. at(i) = at(j)
    BY <1>4, <1>7
  <2> QED
    BY <1>2, <2>1
<1>8. \A k \in 1..n : f[k][1] = d
  BY <1>4
<1> QED
  BY <1>6, <1>7, <1>8 DEF f, n

\* A day that is not behind the state and young enough is folded with its marker.
LEMMA DayFolded ==
    ASSUME calDay \in Nat, NEW s, NEW f, FoldOK(s, f), NEW d \in Nat,
           d < calDay, d >= calDay - CalWindow, d \notin s.marks,
           NEW good, good \subseteq Int, IsFiniteSet(good), good # {},
           NEW t, t.marks = Newest(s.marks \cup {d}, CalMarks)
    PROVE  FoldOK(t, f \o InOrder(d, good))
<1> DEFINE new == InOrder(d, good)
           n == Cardinality(good)
           all == f \o new
           M == s.marks \cup {d}
<1>1. /\ new \in Seq(Nat \X Int) /\ Len(new) = n /\ n \in Nat
      /\ \A i \in 1..n : new[i][1] = d
      /\ \A i, j \in 1..n : new[i] = new[j] => i = j
  BY InOrderOnce, FS_CardinalityType
<1>2. f \in Seq(Nat \X Int) /\ Len(f) \in Nat
  BY DEF FoldOK
<1> HIDE DEF new, n
<1>3. /\ all \in Seq(Nat \X Int) /\ Len(all) = Len(f) + n
      /\ \A i \in 1..Len(f) : all[i] = f[i]
      /\ \A i \in (Len(f) + 1)..(Len(f) + n) : all[i] = new[i - Len(f)] /\ i - Len(f) \in 1..n
  <2> DEFINE S == Nat \X Int
  <2>0. f \in Seq(S) /\ new \in Seq(S)
    BY <1>1, <1>2
  <2> HIDE DEF S
  <2>a. /\ all \in Seq(S) /\ Len(all) = Len(f) + Len(new)
        /\ \A i \in 1..(Len(f) + Len(new)) :
               all[i] = IF i <= Len(f) THEN f[i] ELSE new[i - Len(f)]
    BY <2>0, ConcatProperties
  <2> HIDE DEF all
  <2>1. all \in Seq(Nat \X Int) /\ Len(all) = Len(f) + n
    BY <1>1, <2>a DEF S
  <2>2. \A i \in 1..Len(f) : all[i] = f[i]
    BY <1>1, <1>2, <2>a
  <2>3. \A i \in (Len(f) + 1)..(Len(f) + n) : all[i] = new[i - Len(f)]
    BY <1>1, <1>2, <2>a
  <2>4. \A i \in (Len(f) + 1)..(Len(f) + n) : i - Len(f) \in 1..n
    BY <1>1, <1>2
  <2> QED
    BY <2>1, <2>2, <2>3, <2>4
<1> HIDE DEF all
<1>4. M \subseteq 0..(calDay - 1)
  BY DEF FoldOK
<1>5. \A e \in M : e >= calDay - CalWindow => e \in t.marks
  <2> SUFFICES ASSUME NEW e \in M, e >= calDay - CalWindow PROVE e \in t.marks
    OBVIOUS
  <2>1. e \in Int /\ calDay \in Int /\ CalMarks \in Int /\ e >= calDay - CalMarks
    BY <1>4, CalibrationAssumption
  <2> HIDE DEF M
  <2>2. e \in Newest(M, CalMarks)
    BY <1>4, <2>1, NewestKeeps
  <2> QED
    BY <2>2 DEF M
<1>6. t.marks \subseteq 0..(calDay - 1)
  BY <1>4 DEF Newest
<1>7. \A i \in 1..Len(f) : f[i][1] \in s.marks \/ f[i][1] < calDay - CalWindow
  BY <1>2 DEF FoldOK
<1>8. \A i \in 1..Len(f) : f[i][1] \in Nat
  BY <1>2
<1>9. \A i \in DOMAIN all : i \in 1..Len(f) \/ i \in (Len(f) + 1)..(Len(f) + n)
  BY <1>1, <1>2, <1>3
<1>10. \A i \in DOMAIN all : all[i][1] \in t.marks \/ all[i][1] < calDay - CalWindow
  <2> SUFFICES ASSUME NEW i \in DOMAIN all
               PROVE  all[i][1] \in t.marks \/ all[i][1] < calDay - CalWindow
    OBVIOUS
  <2>1. CASE i \in 1..Len(f)
    <3>1. all[i] = f[i] /\ f[i][1] \in Nat
      BY <1>3, <1>8, <2>1
    <3>2. CASE f[i][1] < calDay - CalWindow
      BY <3>1, <3>2
    <3>3. CASE ~(f[i][1] < calDay - CalWindow)
      <4>1. f[i][1] \in M
        BY <1>7, <2>1, <3>3
      <4>2. f[i][1] >= calDay - CalWindow
        BY <3>1, <3>3, CalibrationAssumption
      <4> QED
        BY <1>5, <3>1, <4>1, <4>2
    <3> QED
      BY <3>2, <3>3
  <2>2. CASE i \in (Len(f) + 1)..(Len(f) + n)
    <3>1. all[i][1] = d
      BY <1>1, <1>3, <2>2
    <3> QED
      BY <1>5, <3>1
  <2> QED
    BY <1>9, <2>1, <2>2
\* Nothing of that day was folded before.
<1>11. \A i \in 1..Len(f) : f[i][1] # d
  BY <1>7, CalibrationAssumption
<1>12. ASSUME NEW i \in DOMAIN all, NEW j \in DOMAIN all, all[i] = all[j] PROVE i = j
  <2>1. CASE i \in 1..Len(f) /\ j \in 1..Len(f)
    <3>1. f[i] = f[j]
      BY <1>3, <1>12, <2>1
    <3>2. i \in DOMAIN f /\ j \in DOMAIN f
      BY <1>2, <2>1
    <3> QED
      BY <3>1, <3>2 DEF FoldOK
  <2>2. CASE i \in (Len(f) + 1)..(Len(f) + n) /\ j \in (Len(f) + 1)..(Len(f) + n)
    <3>1. i - Len(f) = j - Len(f)
      BY <1>1, <1>3, <1>12, <2>2
    <3> QED
      BY <1>2, <2>2, <3>1
  <2>3. CASE i \in 1..Len(f) /\ j \in (Len(f) + 1)..(Len(f) + n)
    <3>1. all[i][1] # d
      BY <1>3, <1>11, <2>3
    <3>2. all[j][1] = d
      BY <1>1, <1>3, <2>3
    <3> QED
      BY <1>12, <3>1, <3>2
  <2>4. CASE j \in 1..Len(f) /\ i \in (Len(f) + 1)..(Len(f) + n)
    <3>1. all[j][1] # d
      BY <1>3, <1>11, <2>4
    <3>2. all[i][1] = d
      BY <1>1, <1>3, <2>4
    <3> QED
      BY <1>12, <3>1, <3>2
  <2> QED
    BY <1>9, <2>1, <2>2, <2>3, <2>4
<1>13. FoldOK(t, all)
  BY <1>3, <1>6, <1>10, <1>12 DEF FoldOK
<1> QED
  BY <1>13 DEF all, new

\* What the watchdog makes of a day of these planes.
WatchedOurs(s, d, twice) == Watched(s, d, twice, TRUE)

\* The days behind the streak after the watchdog took s to w on day d.
CountedAfter(s, w, c, d) ==
    IF w.streak = 0 THEN {} ELSE IF w.streak > s.streak THEN c \cup {d} ELSE c

\* The watchdog counts a day once: only one newer than the last it counted.
LEMMA WatchDay ==
    ASSUME NEW s, DOMAIN s = CalFields, NEW c, WatchOK(s, c), NEW d \in Nat, NEW twice,
           NEW w, w = WatchedOurs(s, d, twice)
    PROVE  /\ WatchOK(w, CountedAfter(s, w, c, d)) /\ DOMAIN w = CalFields /\ w.marks = s.marks
           /\ ~News(s, d) => w = s
           /\ News(s, d) => \/ w.streak = 0 /\ w.lastOut = Null
                            \/ w.streak >= s.streak /\ w.lastOut # Null
<1> DEFINE after == CountedAfter(s, w, c, d)
           clear == [s EXCEPT !.checked = d, !.streak = 0, !.lastOut = Null]
           count == [s EXCEPT !.checked = d, !.streak = s.streak + 1, !.lastOut = d]
<1>0. CalFields = {"eta", "n", "marks", "streak", "lastOut", "checked"}
  BY DEF CalFields, NeutralCal
<1>1. /\ DOMAIN clear = CalFields /\ clear.marks = s.marks
      /\ clear.streak = 0 /\ clear.lastOut = Null /\ clear.checked = d
  BY <1>0
<1>2. /\ DOMAIN count = CalFields /\ count.marks = s.marks
      /\ count.streak = s.streak + 1 /\ count.lastOut = d /\ count.checked = d
  BY <1>0
<1>3. \/ w = s /\ ~News(s, d)
      \/ w = clear /\ News(s, d)
      \/ w = count /\ News(s, d) /\ CountsOut(s, d)
      \/ w = s /\ News(s, d) /\ ~CountsOut(s, d)
  BY DEF WatchedOurs, Watched
<1> HIDE DEF clear, count
<1>4. s.streak \in Nat
  BY FS_CardinalityType DEF WatchOK
<1>a. /\ w.streak = 0 => after = {}
      /\ w.streak # 0 /\ w.streak > s.streak => after = c \cup {d}
      /\ w.streak # 0 /\ ~(w.streak > s.streak) => after = c
  BY DEF CountedAfter
<1> HIDE DEF after
<1>5. CASE w = s
  <2>1. s.streak = 0 => c = {}
    BY FS_EmptySet DEF WatchOK
  <2>2. after = c
    <3>1. ~(w.streak > s.streak)
      BY <1>4, <1>5
    <3> QED
      BY <1>a, <1>5, <2>1, <3>1
  <2>3. ~CountsOut(s, d) => s.lastOut # Null
    BY DEF CountsOut
  <2>4. News(s, d) => (w.streak = 0 /\ w.lastOut = Null) \/ w.lastOut # Null
    BY <1>1, <1>2, <1>3, <1>5, <2>3, NullAssumption
  <2>5. w.streak >= s.streak
    BY <1>4, <1>5
  <2> QED
    BY <1>5, <2>2, <2>4, <2>5 DEF after
<1>6. CASE w = clear /\ News(s, d)
  <2>1. after = {}
    BY <1>1, <1>6, <1>a
  <2>2. WatchOK(w, {})
    BY <1>1, <1>6, FS_EmptySet DEF WatchOK
  <2> QED
    BY <1>1, <1>6, <2>1, <2>2 DEF after
<1>7. CASE w = count /\ News(s, d) /\ CountsOut(s, d)
  <2>1. w.streak = s.streak + 1 /\ w.lastOut = d /\ w.checked = d /\ after = c \cup {d}
    <3>1. w.streak = s.streak + 1 /\ w.lastOut = d /\ w.checked = d
      BY <1>2, <1>7
    <3>2. w.streak # 0 /\ w.streak > s.streak
      BY <1>4, <3>1
    <3> QED
      BY <1>a, <3>1, <3>2
  <2>2. \A e \in c : e \in Nat /\ s.lastOut \in Nat /\ e <= s.lastOut
    BY DEF WatchOK
  <2>3. \A e \in c : e < d
    <3>1. s.lastOut \in Nat => d > s.lastOut
      BY <1>7, NullAssumption DEF CountsOut
    <3> QED
      BY <2>2, <3>1
  <2>4. IsFiniteSet(after) /\ Cardinality(after) = Cardinality(c) + 1
    <3>1. IsFiniteSet(c) /\ c \subseteq Nat
      BY DEF WatchOK
    <3>2. d \notin c
      BY <2>3, <3>1
    <3> QED
      BY <2>1, <3>1, <3>2, FS_AddElement
  <2>5. after \subseteq Nat /\ \A e \in after : e <= d
    <3>1. \A e \in after : e \in c \/ e = d
      BY <2>1
    <3> QED
      BY <2>2, <2>3, <3>1
  <2>6. WatchOK(w, after)
    BY <2>1, <2>4, <2>5 DEF WatchOK
  <2>7. d # Null
    BY NullAssumption
  <2>8. w.streak >= s.streak /\ w.lastOut # Null
    BY <1>4, <2>1, <2>7
  <2>9. DOMAIN w = CalFields /\ w.marks = s.marks
    BY <1>2, <1>7
  <2> QED
    BY <1>7, <2>6, <2>8, <2>9 DEF after
<1> QED
  BY <1>3, <1>5, <1>6, <1>7 DEF after

LEMMA InitCal == CalInit => CalInv
<1> SUFFICES ASSUME CalInit PROVE CalInv
  OBVIOUS
<1>1. /\ calDay = 1 /\ calStore = NeutralCal /\ calDisk = NeutralCal /\ etaCard = FALSE
      /\ calCrashes = 0 /\ folded = <<>> /\ foldedDisk = <<>> /\ counted = {} /\ countedDisk = {}
      /\ calKind \in [0..(CalDays - 1) -> DayKinds]
  BY DEF CalInit, CalIdle
<1>2. FoldOK(NeutralCal, <<>>)
  BY DEF FoldOK, NeutralCal
<1>3. WatchOK(NeutralCal, {}) /\ NeutralCal.streak = 0
  BY FS_EmptySet DEF WatchOK, NeutralCal
<1>4. ~(0 >= OutOfBandDays)
  BY CalibrationAssumption
<1> QED
  BY <1>1, <1>2, <1>3, <1>4 DEF CalInv, CalFields

\* A visit folds a day with its marker and tells the watchdog.
LEMMA VisitCal ==
    ASSUME CalInv, NEW d \in DOMAIN calKind, calDay - CalWindow <= d, d < calDay,
           NEW hours, TrainInverterCal(d, hours)
    PROVE  CalInv'
<1> DEFINE ac == Where(calKind[d].ac, LAMBDA h : h \in hours)
           r == Ratios(calKind[d].dc, ac)
           watched == WatchedOurs(calStore, d, TwiceMedian(r))
           new == Updated(calStore, r)
           good == InBand(r)
<1>1. /\ d \notin calStore.marks
      /\ calStore' = IF good = {} THEN watched
                     ELSE [watched EXCEPT !.eta = new.eta, !.n = new.n, !.marks = Marked(d, r)]
      /\ folded' = folded \o InOrder(d, good)
      /\ etaCard' = IF ~News(calStore, d) THEN etaCard
                    ELSE /\ watched.lastOut # Null
                         /\ etaCard \/ watched.streak >= OutOfBandDays
      /\ counted' = CountedAfter(calStore, watched, counted, d)
      /\ UNCHANGED <<calDay, calKind, calDisk, calMeter, calCrashes, foldedDisk, countedDisk>>
  BY DEF TrainInverterCal, InOrder, CountedAfter, WatchedOurs
<1>2. d \in Nat /\ calDay \in Nat /\ calKind[d] \in DayKinds
  BY CalibrationAssumption DEF CalInv
<1>3. good \subseteq Int /\ IsFiniteSet(good)
  <2>1. DOMAIN ac \subseteq DOMAIN calKind[d].ac
    BY DEF Where
  <2> HIDE DEF ac
  <2>2. DOMAIN r \subseteq DOMAIN ac
    BY DEF Ratios
  <2> HIDE DEF r
  <2>3. good \in SUBSET DOMAIN calKind[d].ac
    BY <2>1, <2>2 DEF InBand
  <2>4. DOMAIN calKind[d].ac \subseteq Int /\ IsFiniteSet(DOMAIN calKind[d].ac)
    BY <1>2, DayKindsAssumption
  <2> HIDE DEF good
  <2> QED
    BY <2>3, <2>4, FS_Subset
<1> HIDE DEF good, new, ac
<1>4. /\ WatchOK(watched, counted') /\ DOMAIN watched = CalFields
      /\ watched.marks = calStore.marks
      /\ ~News(calStore, d) => watched = calStore
      /\ News(calStore, d) => \/ watched.streak = 0 /\ watched.lastOut = Null
                              \/ watched.streak >= calStore.streak /\ watched.lastOut # Null
  <2>1. DOMAIN calStore = CalFields /\ WatchOK(calStore, counted)
    BY DEF CalInv
  <2> HIDE DEF watched, r
  <2>2. watched = WatchedOurs(calStore, d, TwiceMedian(r))
    BY DEF watched
  <2> QED
    BY <1>1, <1>2, <2>1, <2>2, WatchDay
<1> HIDE DEF watched, r
<1>5. /\ calStore'.streak = watched.streak /\ calStore'.lastOut = watched.lastOut
      /\ calStore'.checked = watched.checked /\ DOMAIN calStore' = CalFields
      /\ calStore'.marks = IF good = {} THEN calStore.marks
                           ELSE Newest(calStore.marks \cup {d}, CalMarks)
  BY <1>1, <1>4 DEF CalFields, NeutralCal, Marked
<1>6. FoldOK(calStore', folded')
  <2>1. CASE good = {}
    <3>1. InOrder(d, good) = <<>>
      BY <2>1, FS_EmptySet DEF InOrder
    <3>2. folded' = folded
      BY <1>1, <3>1, ConcatEmptySeq DEF CalInv, FoldOK
    <3> QED
      BY <1>5, <2>1, <3>2 DEF CalInv, FoldOK
  <2>2. CASE good # {}
    <3>1. calStore'.marks = Newest(calStore.marks \cup {d}, CalMarks)
      BY <1>5, <2>2
    <3>2. FoldOK(calStore, folded)
      BY DEF CalInv
    <3>3. d >= calDay - CalWindow
      BY <1>2, CalibrationAssumption
    <3> QED
      BY <1>1, <1>2, <1>3, <2>2, <3>1, <3>2, <3>3, DayFolded
  <2> QED
    BY <2>1, <2>2
<1>7. WatchOK(calStore', counted')
  BY <1>4, <1>5 DEF WatchOK
<1>8. calCrashes = 0 => (etaCard' <=> calStore'.streak >= OutOfBandDays)
  <2> SUFFICES ASSUME calCrashes = 0 PROVE etaCard' <=> calStore'.streak >= OutOfBandDays
    OBVIOUS
  <2>1. /\ etaCard <=> calStore.streak >= OutOfBandDays
        /\ OutOfBandDays \in Nat \ {0} /\ calStore.streak \in Nat
    BY FS_CardinalityType, CalibrationAssumption DEF CalInv, WatchOK
  <2>2. watched.streak \in Nat
    BY <1>4, FS_CardinalityType DEF WatchOK
  <2>3. CASE ~News(calStore, d)
    BY <1>1, <1>4, <1>5, <2>1, <2>3
  <2>4. CASE News(calStore, d) /\ watched.lastOut = Null
    BY <1>1, <1>4, <1>5, <2>1, <2>4
  <2>5. CASE News(calStore, d) /\ watched.lastOut # Null
    BY <1>1, <1>4, <1>5, <2>1, <2>2, <2>5
  <2> QED
    BY <2>3, <2>4, <2>5
<1>9. etaCard' \in BOOLEAN
  BY <1>1 DEF CalInv
<1>10. FoldOK(calStore, folded)' /\ FoldOK(calDisk, foldedDisk)'
  BY <1>1, <1>6 DEF CalInv, FoldOK
<1>11. WatchOK(calStore, counted)' /\ WatchOK(calDisk, countedDisk)'
  BY <1>1, <1>7 DEF CalInv, WatchOK
<1> QED
  BY <1>1, <1>5, <1>8, <1>9, <1>10, <1>11 DEF CalInv

LEMMA NextCal == CalInv /\ [CalNext]_calVars => CalInv'
<1> SUFFICES ASSUME CalInv, [CalNext]_calVars PROVE CalInv'
  OBVIOUS
<1>1. CASE CalVisit
  BY <1>1, VisitCal DEF CalVisit
<1>2. CASE CalSave
  BY <1>2 DEF CalSave, CalInv, FoldOK, WatchOK
<1>3. CASE CalCrash
  <2>1. calCrashes' \in Nat /\ calCrashes' # 0
    BY <1>3 DEF CalCrash, CalInv
  <2> QED
    BY <1>3, <2>1 DEF CalCrash, CalInv, FoldOK, WatchOK
<1>4. CASE CalReconfigure
  <2>1. calCrashes' \in Nat /\ calCrashes' # 0
    BY <1>4 DEF CalReconfigure, CalInv
  <2> QED
    BY <1>4, <2>1 DEF CalReconfigure, CalInv, FoldOK, WatchOK
<1>5. CASE CalMidnight
  <2>1. /\ calDay' = calDay + 1
        /\ UNCHANGED <<calKind, calStore, calDisk, calMeter, etaCard, calCrashes,
                       folded, foldedDisk, counted, countedDisk>>
    BY <1>5 DEF CalMidnight
  <2>2. calDay \in Nat /\ CalWindow \in Nat /\ calDay' \in Nat
    BY <2>1, CalibrationAssumption DEF CalInv
  <2>3. ASSUME NEW s, NEW f, FoldOK(s, f), NEW day, day = calDay + 1
        PROVE  /\ s.marks \subseteq 0..(day - 1)
               /\ \A i \in DOMAIN f : f[i][1] \in s.marks \/ f[i][1] < day - CalWindow
    <3>1. 0..(calDay - 1) \subseteq 0..(day - 1)
      BY <2>2, <2>3
    <3>2. \A i \in DOMAIN f : f[i][1] \in Nat
      BY <2>3 DEF FoldOK
    <3>3. \A x \in Nat : x < calDay - CalWindow => x < day - CalWindow
      BY <2>2, <2>3
    <3> QED
      BY <2>3, <3>1, <3>2, <3>3 DEF FoldOK
  <2>4. FoldOK(calStore, folded)' /\ FoldOK(calDisk, foldedDisk)'
    BY <2>1, <2>3 DEF CalInv, FoldOK
  <2> QED
    BY <2>1, <2>2, <2>4 DEF CalInv, WatchOK
<1>6. CASE UNCHANGED calVars
  BY <1>6 DEF calVars, CalInv, FoldOK, WatchOK
<1> QED
  BY <1>1, <1>2, <1>3, <1>4, <1>5, <1>6 DEF CalNext

\* What is folded into the efficiency is marked in the same state or too old to be
\* visited again, in memory and in the file; the days behind the watchdog's streak
\* are no newer than the last one it counted (train_inverter_cal,
\* _record_eta_calibration_outcome).
THEOREM CalibrationInvariant == CalSpec => []CalInv
BY InitCal, NextCal, PTL DEF CalSpec

\* Of a day's evidence nothing is counted twice, whatever is revisited, half read
\* or lost with a crash, for any window, ring and set of days.
THEOREM CountedOnceHolds == CalSpec => []CountedOnce
<1>1. CalInv => CountedOnce
  BY DEF CalInv, FoldOK, WatchOK, CountedOnce, HourFoldedOnce, OutOfBandInARow
<1> QED
  BY <1>1, CalibrationInvariant, PTL

-----------------------------------------------------------------------------
(* The scoreboard: what it keeps of the days ever scored.                    *)

\* A further day and a trim leave the newest days of a window no wider than any
\* before it: whichever day is dropped has a window of newer ones that are kept.
LEMMA NewestKept ==
    ASSUME NEW E, IsFiniteSet(E), E \subseteq Int, NEW B, B \subseteq E, NEW d \in Int,
           NEW n \in Int, NEW w \in Int, NEW m \in Int, m <= n, m <= w, Newest(E, n) \subseteq B
    PROVE  Newest(E \cup {d}, m) \subseteq Newest(B \cup {d}, w)
<1> DEFINE Above(S, x) == {e \in S : e > x}
<1>1. ASSUME NEW x \in Int, NEW S, NEW T, IsFiniteSet(T), S \subseteq T
      PROVE  /\ Cardinality(Above(S, x)) <= Cardinality(Above(T, x))
             /\ Cardinality(Above(S, x)) \in Int /\ Cardinality(Above(T, x)) \in Int
  <2>1. Above(T, x) \in SUBSET T /\ Above(S, x) \in SUBSET Above(T, x)
    BY <1>1
  <2>2. IsFiniteSet(Above(T, x))
    BY <1>1, <2>1, FS_Subset
  <2>3. IsFiniteSet(Above(S, x)) /\ Cardinality(Above(S, x)) <= Cardinality(Above(T, x))
    BY <2>1, <2>2, FS_Subset
  <2> HIDE DEF Above
  <2> QED
    BY <2>2, <2>3, FS_CardinalityType
<1>2. IsFiniteSet(E \cup {d}) /\ B \cup {d} \subseteq E \cup {d} /\ E \subseteq E \cup {d}
  BY FS_AddElement
<1>3. SUFFICES ASSUME NEW x \in E \cup {d}, Cardinality(Above(E \cup {d}, x)) < m
               PROVE  x \in B \cup {d} /\ Cardinality(Above(B \cup {d}, x)) < w
  BY DEF Newest
<1>4. x \in Int
  OBVIOUS
<1> HIDE DEF Above
<1>5. Cardinality(Above(B \cup {d}, x)) < w
  <2>1. /\ Cardinality(Above(B \cup {d}, x)) <= Cardinality(Above(E \cup {d}, x))
        /\ Cardinality(Above(B \cup {d}, x)) \in Int /\ Cardinality(Above(E \cup {d}, x)) \in Int
    BY <1>1, <1>2, <1>4
  <2> QED
    BY <1>3, <2>1
<1>6. ASSUME x # d PROVE x \in B
  <2>1. /\ Cardinality(Above(E, x)) <= Cardinality(Above(E \cup {d}, x))
        /\ Cardinality(Above(E, x)) \in Int /\ Cardinality(Above(E \cup {d}, x)) \in Int
    BY <1>1, <1>2, <1>4
  <2>2. x \in E /\ Cardinality(Above(E, x)) < n
    BY <1>3, <1>6, <2>1
  <2> QED
    BY <2>2 DEF Newest, Above
<1> QED
  BY <1>5, <1>6

\* The inductive invariant.
BoardInv ==
    /\ boardKind \in [DOMAIN boardKind -> BoardKinds] /\ DOMAIN boardKind \subseteq Int
    /\ DOMAIN board \subseteq DOMAIN boardKind
    /\ \A d \in DOMAIN board : board[d] = Scored(d) /\ Scored(d) # Null
    /\ window \in Nat /\ narrowest \in Nat
    /\ IsFiniteSet(everScored) /\ everScored \subseteq Int
    /\ DOMAIN board \subseteq everScored
    /\ KeepsTheNewestDays

LEMMA InitBoard == BoardInit => BoardInv
<1> SUFFICES ASSUME BoardInit PROVE BoardInv
  OBVIOUS
<1>1. IsFiniteSet(everScored) /\ everScored = {} /\ DOMAIN board = {}
  BY FS_EmptySet DEF BoardInit, BoardIdle
<1>2. boardKind \in [DOMAIN boardKind -> BoardKinds] /\ DOMAIN boardKind \subseteq Int
  BY DEF BoardInit
<1>3. KeepsTheNewestDays
  BY <1>1 DEF KeepsTheNewestDays, Newest
<1> QED
  BY <1>1, <1>2, <1>3, BoardAssumption DEF BoardInv, BoardInit, BoardIdle

LEMMA NextBoard == BoardInv /\ [BoardNext]_boardVars => BoardInv'
<1> SUFFICES ASSUME BoardInv, [BoardNext]_boardVars PROVE BoardInv'
  OBVIOUS
<1>1. CASE BoardMidnight
  BY <1>1 DEF BoardMidnight, BoardInv, KeepsTheNewestDays, Scored
<1>2. CASE ScoreScoreboardDay
  <2>1. PICK d \in DOMAIN boardKind :
           /\ Scored(d) # Null
           /\ board' = TrimWindow([x \in DOMAIN board \cup {d} |->
                                     IF x = d THEN Scored(d) ELSE board[x]], d)
           /\ everScored' = everScored \cup {d}
           /\ narrowest' = IF window < narrowest THEN window ELSE narrowest
           /\ UNCHANGED <<boardDay, boardKind, boardOn, window>>
    BY <1>2 DEF ScoreScoreboardDay
  <2>2. d \in Int
    BY <2>1 DEF BoardInv
  <2>3. DOMAIN board' = Newest(DOMAIN board \cup {d}, window)
    BY <2>1 DEF TrimWindow, Trimmed, Where, Newest
  <2>4. /\ narrowest' \in Nat /\ narrowest' <= narrowest /\ narrowest' <= window
    BY <2>1 DEF BoardInv
  <2>5. IsFiniteSet(everScored') /\ everScored' \subseteq Int /\ DOMAIN board' \subseteq everScored'
    <3>1. IsFiniteSet(everScored \cup {d})
      BY FS_AddElement DEF BoardInv
    <3>2. DOMAIN board' \subseteq DOMAIN board \cup {d}
      BY <2>3 DEF Newest
    <3> QED
      BY <2>1, <2>2, <3>1, <3>2 DEF BoardInv
  <2>6. Newest(everScored \cup {d}, narrowest') \subseteq Newest(DOMAIN board \cup {d}, window)
    <3> DEFINE m == narrowest'
               B == DOMAIN board
    <3>1. /\ IsFiniteSet(everScored) /\ everScored \subseteq Int /\ B \subseteq everScored
          /\ narrowest \in Int /\ window \in Int /\ m \in Int /\ m <= narrowest /\ m <= window
          /\ Newest(everScored, narrowest) \subseteq B
      BY <2>4 DEF BoardInv, KeepsTheNewestDays
    <3> HIDE DEF m, B
    <3>2. Newest(everScored \cup {d}, m) \subseteq Newest(B \cup {d}, window)
      BY <2>2, <3>1, NewestKept
    <3> QED
      BY <3>2 DEF m, B
  <2>7. KeepsTheNewestDays'
    BY <2>1, <2>3, <2>6 DEF KeepsTheNewestDays
  <2>8. DOMAIN board' \subseteq DOMAIN boardKind /\ boardKind' = boardKind
    BY <2>1, <2>3 DEF Newest, BoardInv
  <2>9. ASSUME NEW x \in DOMAIN board' PROVE board'[x] = Scored(x)' /\ Scored(x)' # Null
    <3> DEFINE kept == [y \in DOMAIN board \cup {d} |-> IF y = d THEN Scored(d) ELSE board[y]]
    <3>1. board' = [y \in Newest(DOMAIN kept, window) |-> kept[y]] /\ x \in DOMAIN kept
      BY <2>1, <2>9 DEF TrimWindow, Trimmed, Where, Newest
    <3>2. board'[x] = kept[x] /\ Scored(x)' = Scored(x)
      BY <2>8, <2>9, <3>1 DEF Scored
    <3> QED
      BY <2>1, <3>1, <3>2 DEF BoardInv
  <2> QED
    BY <2>1, <2>4, <2>5, <2>7, <2>8, <2>9 DEF BoardInv
<1>3. CASE BoardOptions
  BY <1>3, BoardAssumption DEF BoardOptions, BoardInv, KeepsTheNewestDays, Scored
<1>4. CASE UNCHANGED boardVars
  BY <1>4 DEF boardVars, BoardInv, KeepsTheNewestDays, Scored
<1> QED
  BY <1>1, <1>2, <1>3, <1>4 DEF BoardNext

\* A day is scored in one of the classes.
LEMMA ClassIsOne ==
    ASSUME NEW issued, NEW rest, IsLayer(issued.raw, rest), NEW rest2,
           IsLayer(issued.corrected, rest2), IsFiniteSet(DOMAIN issued.class), NEW day
    PROVE  \E i \in DOMAIN Classes : DominantClass(issued, day) = Classes[i]
<1> DEFINE classes == InDay(issued.class, day)
           curve == Sanitised(ServedCurve(issued))
           In(c) == {x \in DOMAIN classes : classes[x] = c}
           Energy(c) == Total([h \in In(c) |-> At(curve, h)])
           Count(c) == Cardinality(In(c))
           Weight(c) == IF \E i \in DOMAIN Classes : Energy(Classes[i]) > 0
                        THEN Energy(c) ELSE Count(c)
           best == {i \in DOMAIN Classes : \A j \in DOMAIN Classes :
                       Weight(Classes[i]) >= Weight(Classes[j])}
<1>1. IsCurve(curve)
  BY DEF IsLayer, ServedCurve
<1>2. IsFiniteSet(DOMAIN classes)
  <2>1. DOMAIN classes \in SUBSET DOMAIN issued.class
    BY DEF InDay, Where
  <2> QED
    BY <2>1, FS_Subset
<1>3. DominantClass(issued, day) =
         IF DOMAIN classes = {} THEN "clear"
         ELSE Classes[CHOOSE i \in best : \A j \in best : i <= j]
  BY DEF DominantClass
<1>4. ASSUME NEW i \in DOMAIN Classes PROVE Weight(Classes[i]) \in Int
  <2> DEFINE c == Classes[i]
  <2>1. IsFiniteSet(In(c))
    <3>1. In(c) \in SUBSET DOMAIN classes
      OBVIOUS
    <3> QED
      BY <1>2, <3>1, FS_Subset
  <2> HIDE DEF In, c, curve
  <2>2. IsCurve([h \in In(c) |-> At(curve, h)])
    BY <1>1, <2>1 DEF IsCurve, At, Get
  <2>3. Energy(c) \in Int /\ Count(c) \in Int
    BY <2>1, <2>2, TotalIsInt, FS_CardinalityType
  <2> HIDE DEF Energy, Count
  <2> QED
    BY <2>3 DEF c
<1>5. best # {}
  <2> DEFINE w == [i \in DOMAIN Classes |-> Weight(Classes[i])]
  <2>1. IsFiniteSet(DOMAIN Classes) /\ DOMAIN Classes # {}
    BY SiteAssumption, ListIsFinite
  <2>2. \A i \in DOMAIN Classes : w[i] = Weight(Classes[i]) /\ w[i] \in Int
    BY <1>4
  <2> HIDE DEF w, Weight
  <2>3. \E i \in DOMAIN Classes : \A j \in DOMAIN Classes : w[i] >= w[j]
    BY <2>1, <2>2, Heaviest
  <2> QED
    BY <2>2, <2>3
<1>6. (CHOOSE i \in best : \A j \in best : i <= j) \in DOMAIN Classes
  <2>1. best \subseteq Int /\ best \in SUBSET DOMAIN Classes
    BY SiteAssumption
  <2>2. IsFiniteSet(best)
    BY <2>1, SiteAssumption, ListIsFinite, FS_Subset
  <2> HIDE DEF best
  <2>3. \E i \in best : \A j \in best : i <= j
    BY <1>5, <2>1, <2>2, LeastNumber
  <2> QED
    BY <2>1, <2>3
<1> HIDE DEF classes, best
<1> QED
  BY <1>3, <1>6, SiteAssumption

\* A score has integer energies and one of the classes.
LEMMA ScoreIsSound ==
    ASSUME NEW k \in BoardKinds, ScoreOf[k] # Null
    PROVE  /\ DailyAbsErr(ScoreOf[k]) \in Int
           /\ \E i \in DOMAIN Classes : ScoreOf[k].class = Classes[i]
<1> DEFINE issued == k.issued
           day == LocalDay(0)
           served == InDay(Sanitised(ServedCurve(issued)), day)
           curve == MeteredModeled(served, issued.correctedOf, k.metered)
           s == DayScore(issued, k.label, k.metered, day)
<1>1. /\ IsLayer(issued.raw, issued.rawOf) /\ IsLayer(issued.corrected, issued.correctedOf)
      /\ IsFiniteSet(DOMAIN issued.class) /\ IsLabel(k.label) /\ k.metered \in SUBSET PlaneSet
  BY BoardAssumption
<1>2. ScoreOf[k] = s
  BY DEF ScoreOf
<1>3. /\ curve # Null
      /\ s.measured = Total(k.label.daily) /\ s.engine = Total(curve)
      /\ s.class = DominantClass(issued, day)
  <2> HIDE DEF issued, day
  <2> QED
    BY <1>2 DEF DayScore
<1>4. IsCurve(served)
  <2>1. IsCurve(Sanitised(ServedCurve(issued)))
    BY <1>1 DEF IsLayer, ServedCurve
  <2> QED
    BY <2>1, DayOfCurve
<1>5. IsCurve(curve)
  <2> HIDE DEF served
  <2> QED
    BY <1>1, <1>3, <1>4, MeteredCurve DEF IsLayer
<1>6. s.measured \in Int /\ s.engine \in Int
  <2> HIDE DEF curve, s
  <2> QED
    BY <1>1, <1>3, <1>5, TotalIsInt DEF IsLabel
<1>7. \E i \in DOMAIN Classes : s.class = Classes[i]
  <2> HIDE DEF s, issued, day
  <2> QED
    BY <1>1, <1>3, ClassIsOne
<1> HIDE DEF s
<1> QED
  BY <1>2, <1>6, <1>7 DEF DailyAbsErr

\* The strata are a partition of the days shown, and so are their errors.
LEMMA StrataDivide ==
    ASSUME NEW days, IsFiniteSet(days), \A d \in days : DailyAbsErr(board[d]) \in Int,
           \A d \in days : \E i \in DOMAIN Classes : board[d].class = Classes[i]
    PROVE  LET strata == Breakdown(days)
           IN /\ SumFunction([c \in DOMAIN strata |-> strata[c].n]) = Cardinality(days)
              /\ SumFunction([c \in DOMAIN strata |-> strata[c].daily.sum])
                    = SumFunction([d \in days |-> DailyAbsErr(board[d])])
<1> DEFINE Stratum(c) == {d \in days : board[d].class = c}
           there == {i \in DOMAIN Classes : Stratum(Classes[i]) # {}}
           C == {Classes[i] : i \in there}
           strata == Breakdown(days)
           class == [d \in days |-> board[d].class]
           one == [d \in days |-> 1]
           err == [d \in days |-> DailyAbsErr(board[d])]
<1>1. /\ DOMAIN strata = C
      /\ \A c \in C : /\ strata[c].n = Cardinality(Stratum(c))
                      /\ strata[c].daily = DailyMae(Stratum(c))
  BY DEF Breakdown
<1>2. IsFiniteSet(C)
  <2>1. IsFiniteSet({Classes[i] : i \in DOMAIN Classes})
    BY SiteAssumption, ListIsFinite
  <2>2. C \in SUBSET {Classes[i] : i \in DOMAIN Classes}
    OBVIOUS
  <2> QED
    BY <2>1, <2>2, FS_Subset
<1>3. \A d \in days : class[d] \in C
  OBVIOUS
<1>4. ASSUME NEW c \in C
      PROVE  /\ Stratum(c) = {d \in days : class[d] = c}
             /\ Stratum(c) # {} /\ IsFiniteSet(Stratum(c))
             /\ \A d \in Stratum(c) : d \in days
  <2>1. Stratum(c) \in SUBSET days
    OBVIOUS
  <2> QED
    BY <2>1, FS_Subset
<1> HIDE DEF strata, Stratum, C, class
<1>5. ASSUME NEW c \in C
      PROVE  /\ strata[c].n = SumFunctionOnSet(one, {d \in days : class[d] = c})
             /\ strata[c].daily.sum = SumFunctionOnSet(err, {d \in days : class[d] = c})
  <2>1. strata[c].n = SumFunctionOnSet(one, Stratum(c))
    BY <1>1, <1>4, CountIsSum
  <2> DEFINE part == [d \in Stratum(c) |-> DailyAbsErr(board[d])]
  <2>2. DailyMae(Stratum(c)).sum = SumFunctionOnSet(part, Stratum(c))
    BY <1>4 DEF DailyMae, Mean, SumFunction
  <2>3. SumFunctionOnSet(part, Stratum(c)) = SumFunctionOnSet(err, Stratum(c))
    <3>1. \A d \in Stratum(c) : part[d] = err[d]
      BY <1>4
    <3> HIDE DEF part, err
    <3> QED
      BY <1>4, <3>1, SumCong
  <2> QED
    BY <1>1, <1>4, <2>1, <2>2, <2>3
<1>6. /\ [c \in DOMAIN strata |-> strata[c].n]
            = [c \in C |-> SumFunctionOnSet(one, {d \in days : class[d] = c})]
      /\ [c \in DOMAIN strata |-> strata[c].daily.sum]
            = [c \in C |-> SumFunctionOnSet(err, {d \in days : class[d] = c})]
  <2> HIDE DEF one, err
  <2> QED
    BY <1>1, <1>5
<1>7. /\ \A d \in days : one[d] = 1 /\ one[d] \in Int /\ err[d] \in Int
      /\ DOMAIN err = days
  OBVIOUS
<1> HIDE DEF one, err
<1>8. /\ SumFunction([c \in DOMAIN strata |-> strata[c].n]) = SumFunctionOnSet(one, days)
      /\ SumFunction([c \in DOMAIN strata |-> strata[c].daily.sum]) = SumFunctionOnSet(err, days)
  BY <1>2, <1>3, <1>6, <1>7, SumByClass
<1>9. SumFunctionOnSet(one, days) = Cardinality(days) /\ SumFunction(err) = SumFunctionOnSet(err, days)
  BY <1>7, CountIsSum DEF SumFunction
<1> QED
  BY <1>8, <1>9 DEF strata, err

\* The newest days ever scored stay on the board, however late days are scored and
\* however the window is narrowed and widened, and what is shown is of the newest of
\* them: the classes divide the days and the errors among them (trim_window,
\* _window_days_list, stratified_breakdown).
THEOREM ShowsTheNewestDaysHolds == BoardSpec => []ShowsTheNewestDays
<1>1. BoardSpec => []BoardInv
  BY InitBoard, NextBoard, PTL DEF BoardSpec
<1>2. BoardInv => ShowsTheNewestDays
  <2> SUFFICES ASSUME BoardInv PROVE ShowsTheNewestDays
    OBVIOUS
  <2> DEFINE shown == Newest(DOMAIN board, window)
             strata == Breakdown(shown)
             err == [d \in shown |-> DailyAbsErr(Scored(d))]
  <2>1. shown \in SUBSET DOMAIN board /\ IsFiniteSet(shown)
    <3>1. shown \in SUBSET everScored /\ IsFiniteSet(everScored) /\ shown \subseteq DOMAIN board
      BY DEF BoardInv, Newest
    <3> QED
      BY <3>1, FS_Subset
  <2>2. \A d \in shown : /\ board[d] = Scored(d)
                         /\ DailyAbsErr(board[d]) \in Int
                         /\ \E i \in DOMAIN Classes : board[d].class = Classes[i]
    BY <2>1, ScoreIsSound DEF BoardInv, Scored
  <2>3. err = [d \in shown |-> DailyAbsErr(board[d])]
    BY <2>2
  <2>4. /\ SumFunction([c \in DOMAIN strata |-> strata[c].n]) = Cardinality(shown)
        /\ SumFunction([c \in DOMAIN strata |-> strata[c].daily.sum]) = SumFunction(err)
    <3> HIDE DEF shown, strata
    <3> QED
      BY <2>1, <2>2, <2>3, StrataDivide DEF strata
  <2>5. /\ BoardSummary.daily = DailyMae(shown)
        /\ BoardSummary.strata = strata
    BY DEF BoardSummary, WindowDays
  <2>6. DailyMae(shown) = IF shown = {} THEN Null
                          ELSE [sum |-> SumFunction(err), n |-> Cardinality(shown)]
    BY <2>3 DEF DailyMae, Mean
  <2> HIDE DEF err
  <2>7. shown # {} => BoardSummary.daily.sum = SumFunction(err)
    BY <2>5, <2>6
  <2> QED
    BY <2>4, <2>5, <2>6, <2>7 DEF BoardInv, ShowsTheNewestDays, err
<1> QED
  BY <1>1, <1>2, PTL

-----------------------------------------------------------------------------
(* Bootstrap: the days are walked in order, and each is gated.               *)

\* A day that is complete and free of faults passes the gates of the nightly job.
LEMMA CompleteIsGated ==
    ASSUME NEW d, CompleteDay(d), ~Fault(DayActuals(d))
    PROVE  Gate([p \in BootMetered |-> InDay(stats[p], d)], d) = "ok"
<1> DEFINE rows == [p \in BootMetered |-> InDay(stats[p], d)]
           a == DayActuals(d)
<1>1. ASSUME NEW p \in BootMetered
      PROVE  Usable(rows[p]) = a[p]
  <2>1. Usable(rows[p]) = [h \in {x \in DOMAIN stats[p] : LocalDay(x) = d /\ stats[p][x] # Null} |->
                              stats[p][h]]
    BY DEF Usable, InDay, Where
  <2>2. a[p] = [h \in {x \in DOMAIN stats[p] : LocalDay(x) = d /\ stats[p][x] # Null} |-> stats[p][h]]
    BY DEF DayActuals, Usable, InDay, Where
  <2> QED
    BY <2>1, <2>2
<1>2. ASSUME NEW p \in BootMetered
      PROVE  /\ a[p] # <<>>
             /\ ~\E h \in DOMAIN a[p] : a[p][h] = Bad \/ a[p][h] < 0
             /\ ~\E h \in DOMAIN a[p] : a[p][h] > PeakOf[p]
             /\ ~IsFrozenChannel(a[p])
  BY DEF Fault
<1>3. DOMAIN rows = BootMetered
  OBVIOUS
<1>4. ASSUME NEW p \in BootMetered
      PROVE  DOMAIN a[p] # {}
  <2>1. a[p] = [h \in DOMAIN a[p] |-> a[p][h]]
    BY DEF DayActuals, InDay, Where
  <2>2. DOMAIN a[p] = {} => a[p] = <<>>
    BY <2>1
  <2> QED
    BY <1>2, <2>2
<1> HIDE DEF rows, a
<1>5. ASSUME NEW p \in BootMetered
      PROVE  ChannelGate(p, rows[p]) = "ok"
  BY <1>1, <1>2, <1>4 DEF ChannelGate
<1>6. Covered(rows, d)
  <2>1. ASSUME NEW p \in BootMetered
        PROVE  100 * Cardinality(DOMAIN Usable(rows[p]) \cap DaylightHours(d))
                  >= CoveragePct * Cardinality(DaylightHours(d))
    <3>1. DOMAIN Usable(rows[p]) \cap DaylightHours(d) = DaylightHours(d) \cap DOMAIN a[p]
      BY <1>1
    <3> QED
      BY <3>1 DEF CompleteDay, a
  <2> QED
    BY <1>3, <2>1 DEF Covered
<1>7. {i \in DOMAIN Planes : /\ Planes[i] \in DOMAIN rows
                             /\ ChannelGate(Planes[i], rows[Planes[i]]) # "ok"} = {}
  BY <1>3, <1>5
<1>8. Gate(rows, d) = "ok"
  BY <1>6, <1>7 DEF Gate
<1> QED
  BY <1>8 DEF rows

AccFields == {"shade", "bias", "steps", "ring", "last", "used", "skipped"}

Learned(a) == a.shade \cup a.bias

\* The curve a day's residuals or its step were formed against knows older days only.
RingIsOlder(ring) == \A d \in DOMAIN ring : \A e \in ring[d].slow \cup ring[d].theta : e < d
StepsAreOlder(steps) == \A d \in DOMAIN steps : \A e \in steps[d] : e < d

Gated(days) == \A d \in days : Gate([p \in BootMetered |-> InDay(stats[p], d)], d) = "ok"

\* What the days already walked have left: each day was compared with what came
\* before it, and passes the gates.
AccOK(a) ==
    /\ DOMAIN a = AccFields
    /\ RingIsOlder(a.ring)
    /\ StepsAreOlder(a.steps)
    /\ Gated(Learned(a) \cup DOMAIN a.ring)

\* The inductive invariant: the days that are left come after those learned from.
BootInv ==
    /\ AccOK(acc)
    /\ bootPhase \in {"idle", "weather"} => acc = EmptyAcc
    /\ bootPhase = "days" =>
          /\ daysLeft \subseteq Int
          /\ \A d \in daysLeft : \A e \in Learned(acc) : e < d
    /\ imported # Null => bootPhase = "done" /\ ~call.dry

LEMMA InitBoot == BootInit => BootInv
  BY DEF BootInit, BootIdle, BootInv, EmptyAcc, AccOK, AccFields, Learned, RingIsOlder,
         StepsAreOlder, Gated

\* What a fold leaves in each field.
LEMMA FoldedFields ==
    ASSUME DOMAIN acc = AccFields, NEW d, NEW a
    PROVE  LET after == FoldedDay(d, a)
           IN /\ DOMAIN after = AccFields
              /\ after.shade \in {acc.shade, acc.shade \cup {d}}
              /\ after.bias \in {acc.bias, acc.bias \cup {d}}
              /\ (\E h \in CommonHours(d, a) : records[h].yield > 0) => d \in after.bias
              /\ (\E h \in CommonHours(d, a) :
                     /\ records[h].yield > 0
                     /\ Cardinality(BootMetered) * records[h].yield > QuantileFloor)
                    => d \in DOMAIN after.ring
              /\ after.steps \in {acc.steps, [x \in DOMAIN acc.steps \cup {d} |->
                                                 IF x = d THEN acc.shade ELSE acc.steps[x]]}
              /\ after.ring \in {acc.ring, [x \in DOMAIN acc.ring \cup {d} |->
                                    IF x = d THEN [slow |-> acc.shade, theta |-> Served(acc.bias)]
                                    ELSE acc.ring[x]]}
<1> DEFINE clear == 100 * MeasuredIn(a) >= ClearPct * ModeledDay(d) /\ ShadeHours(d, a) # {}
           shade == IF clear THEN acc.shade \cup {d} ELSE acc.shade
           hours == {h \in CommonHours(d, a) : records[h].yield > 0}
           bias1 == IF hours # {} THEN acc.bias \cup {d} ELSE acc.bias
           steps1 == IF hours # {} THEN [x \in DOMAIN acc.steps \cup {d} |->
                                           IF x = d THEN acc.shade ELSE acc.steps[x]] ELSE acc.steps
           trained == [acc EXCEPT !.shade = shade, !.bias = bias1, !.steps = steps1, !.last = d]
           residuals == {h \in hours : Cardinality(BootMetered) * records[h].yield > QuantileFloor}
           contributed == clear \/ hours # {}
           ring1 == IF residuals # {} THEN [x \in DOMAIN trained.ring \cup {d} |->
                         IF x = d THEN ResidualBasis(acc, trained) ELSE trained.ring[x]]
                    ELSE trained.ring
           after == [trained EXCEPT
                        !.ring = ring1,
                        !.used = IF contributed THEN @ + 1 ELSE @,
                        !.skipped = IF contributed THEN @ ELSE @ + 1]
<1>1. FoldedDay(d, a) = after
  BY DEF FoldedDay
<1>2. /\ shade \in {acc.shade, acc.shade \cup {d}}
      /\ bias1 \in {acc.bias, acc.bias \cup {d}}
      /\ (\E h \in CommonHours(d, a) : records[h].yield > 0) => d \in bias1
      /\ steps1 \in {acc.steps, [x \in DOMAIN acc.steps \cup {d} |->
                                   IF x = d THEN acc.shade ELSE acc.steps[x]]}
  BY Zenon
<1> HIDE DEF shade, bias1, steps1
<1>3. /\ DOMAIN trained = AccFields /\ trained.shade = shade /\ trained.bias = bias1
      /\ trained.steps = steps1 /\ trained.ring = acc.ring
  BY DEF AccFields
<1> HIDE DEF trained
<1>4. ring1 \in {acc.ring, [x \in DOMAIN acc.ring \cup {d} |->
                    IF x = d THEN [slow |-> acc.shade, theta |-> Served(acc.bias)]
                    ELSE acc.ring[x]]}
  <2>1. ResidualBasis(acc, trained) = [slow |-> acc.shade, theta |-> Served(acc.bias)]
    BY DEF ResidualBasis
  <2>2. CASE residuals = {}
    BY <1>3, <2>2
  <2>3. CASE residuals # {}
    <3>1. ring1 = [x \in DOMAIN trained.ring \cup {d} |->
                      IF x = d THEN ResidualBasis(acc, trained) ELSE trained.ring[x]]
      BY <2>3
    <3> HIDE DEF ring1
    <3> QED
      BY <1>3, <2>1, <3>1
  <2> HIDE DEF residuals
  <2> QED
    BY <2>2, <2>3
<1>6. ASSUME NEW h \in CommonHours(d, a), records[h].yield > 0,
             Cardinality(BootMetered) * records[h].yield > QuantileFloor
      PROVE  d \in DOMAIN ring1
  <2>1. residuals # {}
    BY <1>6
  <2> HIDE DEF residuals
  <2> QED
    BY <2>1
<1> HIDE DEF ring1
<1>5. /\ DOMAIN after = AccFields /\ after.shade = trained.shade /\ after.bias = trained.bias
      /\ after.steps = trained.steps /\ after.ring = ring1
  BY <1>3 DEF AccFields
<1> QED
  BY <1>1, <1>2, <1>3, <1>4, <1>5, <1>6, Zenon

\* A sound day's curve is what the days before it would have issued.
LEMMA FoldKeepsAcc ==
    ASSUME AccOK(acc), NEW d \in Int, \A e \in Learned(acc) : e < d,
           CompleteDay(d), ~Fault(DayActuals(d))
    PROVE  LET after == FoldedDay(d, DayActuals(d))
           IN AccOK(after) /\ Learned(after) \subseteq Learned(acc) \cup {d}
<1> DEFINE after == FoldedDay(d, DayActuals(d))
           basis == [slow |-> acc.shade, theta |-> Served(acc.bias)]
<1>1. /\ DOMAIN after = AccFields
      /\ after.shade \in {acc.shade, acc.shade \cup {d}}
      /\ after.bias \in {acc.bias, acc.bias \cup {d}}
      /\ after.steps \in {acc.steps, [x \in DOMAIN acc.steps \cup {d} |->
                                         IF x = d THEN acc.shade ELSE acc.steps[x]]}
      /\ after.ring \in {acc.ring, [x \in DOMAIN acc.ring \cup {d} |->
                                       IF x = d THEN basis ELSE acc.ring[x]]}
  BY FoldedFields DEF AccOK
<1>2. Served(acc.bias) \subseteq acc.bias
  BY DEF Served
<1>3. \A e \in basis.slow \cup basis.theta : e < d
  BY <1>2 DEF Learned
<1> HIDE DEF after, basis
<1>4. Learned(after) \subseteq Learned(acc) \cup {d}
  BY <1>1 DEF Learned
<1>5. RingIsOlder(after.ring)
  <2>1. CASE after.ring = acc.ring
    BY <2>1 DEF AccOK
  <2>2. CASE after.ring = [x \in DOMAIN acc.ring \cup {d} |-> IF x = d THEN basis ELSE acc.ring[x]]
    BY <2>2, <1>3 DEF AccOK, RingIsOlder
  <2> QED
    BY <1>1, <2>1, <2>2
<1>6. StepsAreOlder(after.steps)
  <2>1. CASE after.steps = acc.steps
    BY <2>1 DEF AccOK
  <2>2. CASE after.steps = [x \in DOMAIN acc.steps \cup {d} |->
                               IF x = d THEN acc.shade ELSE acc.steps[x]]
    BY <2>2 DEF AccOK, StepsAreOlder, Learned
  <2> QED
    BY <1>1, <2>1, <2>2
<1>7. Gated(Learned(after) \cup DOMAIN after.ring)
  <2>1. DOMAIN after.ring \subseteq DOMAIN acc.ring \cup {d}
    BY <1>1
  <2>2. Gate([p \in BootMetered |-> InDay(stats[p], d)], d) = "ok"
    BY CompleteIsGated
  <2> QED
    BY <1>4, <2>1, <2>2 DEF AccOK, Gated
<1>8. AccOK(after)
  BY <1>1, <1>5, <1>6, <1>7 DEF AccOK
<1> QED
  BY <1>4, <1>8 DEF after

LEMMA NextBoot == BootInv /\ [BootNext]_bootVars => BootInv'
<1> SUFFICES ASSUME BootInv, [BootNext]_bootVars PROVE BootInv'
  OBVIOUS
<1> USE DEF BootInv
<1>1. ASSUME UNCHANGED <<acc, stats>> PROVE AccOK(acc)' /\ Learned(acc)' = Learned(acc)
  BY <1>1 DEF AccOK, Gated, Learned
<1>2. CASE RunBootstrap
  BY <1>1, <1>2 DEF RunBootstrap
<1>3. CASE FetchWindow
  BY <1>1, <1>3 DEF FetchWindow
<1>4. CASE BootReadActuals
  <2>1. Learned(acc) = {}
    BY <1>4 DEF BootReadActuals, EmptyAcc, Learned
  <2>2. bootPhase' = "days" => daysLeft' \subseteq Int
    BY <1>4 DEF BootReadActuals
  <2> QED
    BY <1>1, <1>4, <2>1, <2>2 DEF BootReadActuals
<1>5. CASE FoldDay
  <2>1. PICK d \in daysLeft :
           /\ \A e \in daysLeft : d <= e
           /\ acc' = IF ~CompleteDay(d) \/ Fault(DayActuals(d)) \/ Collapsed(d, DayActuals(d))
                     THEN Skipped ELSE FoldedDay(d, DayActuals(d))
           /\ daysLeft' = daysLeft \ {d}
    BY <1>5 DEF FoldDay
  <2>2. /\ d \in Int /\ daysLeft \subseteq Int
        /\ \A x \in daysLeft : \A e \in Learned(acc) : e < x
    BY <1>5 DEF FoldDay
  <2>3. AccOK(acc') /\ Learned(acc') \subseteq Learned(acc) \cup {d}
    <3>1. CASE ~CompleteDay(d) \/ Fault(DayActuals(d)) \/ Collapsed(d, DayActuals(d))
      <4>1. acc' = Skipped
        BY <2>1, <3>1
      <4>2. /\ DOMAIN Skipped = AccFields /\ Skipped.shade = acc.shade /\ Skipped.bias = acc.bias
            /\ Skipped.ring = acc.ring /\ Skipped.steps = acc.steps
        BY DEF Skipped, AccOK, AccFields
      <4> QED
        BY <4>1, <4>2 DEF AccOK, Learned
    <3>2. CASE ~(~CompleteDay(d) \/ Fault(DayActuals(d)) \/ Collapsed(d, DayActuals(d)))
      BY <2>1, <2>2, <3>2, FoldKeepsAcc
    <3> QED
      BY <3>1, <3>2
  <2>4. (AccOK(acc))'
    BY <1>5, <2>3 DEF FoldDay, AccOK, Gated
  <2>5. \A x \in daysLeft' : \A e \in Learned(acc') : e < x
    BY <2>1, <2>2, <2>3
  <2> QED
    BY <1>5, <2>1, <2>2, <2>4, <2>5 DEF FoldDay, Learned
<1>6. CASE FinishBootstrap
  BY <1>1, <1>6 DEF FinishBootstrap
<1>7. CASE UNCHANGED bootVars
  BY <1>1, <1>7 DEF bootVars
<1> QED
  BY <1>2, <1>3, <1>4, <1>5, <1>6, <1>7 DEF BootNext

-----------------------------------------------------------------------------
(* Bootstrap: no sound day is left out.                                      *)

\* An hour with sun belongs to its local day.
LEMMA DaylightIsOfDay ==
    ASSUME NEW d \in Int, NEW h \in DaylightHours(d)
    PROVE  /\ h \in Int /\ LocalDay(h) = d
           /\ d * DayLength - UtcOffset <= h /\ h < (d + 1) * DayLength - UtcOffset
<1> DEFINE L == DayLength
           U == UtcOffset
<1>1. L \in Int /\ L > 0 /\ U \in Int
  BY SiteAssumption
<1>2. h \in (d * L - U)..((d + 1) * L - U - 1)
  BY DEF DaylightHours
<1> HIDE DEF L, U
<1>3. h \in Int /\ d * L - U <= h /\ h < (d + 1) * L - U
  BY <1>1, <1>2
<1>4. L * d <= h + U /\ h + U < L * d + L
  BY <1>1, <1>3
<1>5. (h + U) \div L \in Int /\ d <= (h + U) \div L /\ (h + U) \div L <= d
  BY <1>1, <1>3, <1>4, Floored, FlooredBounds
<1> QED
  BY <1>3, <1>5 DEF LocalDay, L, U

\* The windows of a range leave none of its days out.
LEMMA WindowsCover ==
    ASSUME NEW first \in Int, NEW last \in Int, NEW d \in first..last, NEW h \in DaylightHours(d)
    PROVE  \E i \in DOMAIN DateWindows(first, last) : h \in HoursOf(DateWindows(first, last)[i])
<1> DEFINE C == ChunkDays
           q == (d - first) \div C
           m == (last - first) \div C
           w == DateWindows(first, last)
<1>1. C \in Int /\ C > 0 /\ d \in Int /\ first <= d /\ d <= last
  BY BootAssumption
<1>2. /\ q \in Int /\ C * q <= d - first /\ d - first < C * q + C
      /\ m \in Int
  <2> HIDE DEF C
  <2> QED
    BY <1>1, Floored
<1>3. 0 <= q /\ q <= m
  <2>1. C * 0 <= d - first /\ C * q <= last - first
    BY <1>1, <1>2
  <2> HIDE DEF C
  <2> QED
    BY <1>1, <1>2, <2>1, FlooredBounds
<1> DEFINE lo == first + q * C
           hi == IF q + 1 = m + 1 THEN last ELSE first + (q + 1) * C - 1
<1>4. q + 1 \in DOMAIN w /\ w[q + 1] = <<lo, hi>>
  <2>1. w = [i \in 1..(m + 1) |-> <<first + (i - 1) * C,
                                    IF i = m + 1 THEN last ELSE first + i * C - 1>>]
    BY DEF DateWindows
  <2>2. q + 1 \in 1..(m + 1) /\ (q + 1) - 1 = q
    BY <1>2, <1>3
  <2> HIDE DEF q, m, w, C
  <2> QED
    BY <2>1, <2>2
<1>5. lo \in Int /\ hi \in Int /\ lo <= d /\ d <= hi
  <2> HIDE DEF q, m, C
  <2>1. q * C = C * q /\ (q + 1) * C = C * q + C
    BY <1>1, <1>2
  <2> QED
    BY <1>1, <1>2, <2>1
<1> HIDE DEF lo, hi, q, m, w, C
<1>6. h \in HoursOf(<<lo, hi>>)
  <2> DEFINE L == DayLength
             U == UtcOffset
  <2>1. L \in Int /\ L > 0 /\ U \in Int
    BY SiteAssumption
  <2>2. h \in Int /\ d * L - U <= h /\ h < (d + 1) * L - U
    BY <1>1, DaylightIsOfDay
  <2> HIDE DEF L, U
  <2>3. lo * L <= d * L /\ (d + 1) * L <= (hi + 1) * L
    <3>1. 0 <= (d - lo) * L /\ 0 <= (hi - d) * L
      BY <1>1, <1>5, <2>1
    <3> QED
      BY <1>1, <1>5, <2>1, <3>1
  <2>4. h \in (lo * L - U)..((hi + 1) * L - U - 1)
    BY <1>1, <1>5, <2>1, <2>2, <2>3
  <2> QED
    BY <2>4 DEF HoursOf, FirstHour, L, U
<1> QED
  BY <1>4, <1>6 DEF w

\* What passes the gates of the nightly job is complete and free of faults.
LEMMA GatedIsSound ==
    ASSUME NEW d, Gate([p \in BootMetered |-> InDay(stats[p], d)], d) = "ok",
           DaylightHours(d) \subseteq DOMAIN DayRecords(d)
    PROVE  CompleteDay(d) /\ ~Fault(DayActuals(d))
<1> DEFINE rows == [p \in BootMetered |-> InDay(stats[p], d)]
           a == DayActuals(d)
           broken == {i \in DOMAIN Planes : /\ Planes[i] \in DOMAIN rows
                                            /\ ChannelGate(Planes[i], rows[Planes[i]]) # "ok"}
           first == Planes[CHOOSE i \in broken : \A j \in broken : i <= j]
<1>1. ASSUME NEW p \in BootMetered
      PROVE  Usable(rows[p]) = a[p]
  <2>1. Usable(rows[p]) = [h \in {x \in DOMAIN stats[p] : LocalDay(x) = d /\ stats[p][x] # Null} |->
                              stats[p][h]]
    BY DEF Usable, InDay, Where
  <2>2. a[p] = [h \in {x \in DOMAIN stats[p] : LocalDay(x) = d /\ stats[p][x] # Null} |-> stats[p][h]]
    BY DEF DayActuals, Usable, InDay, Where
  <2> QED
    BY <2>1, <2>2
<1>2. Gate(rows, d) = IF broken # {} THEN ChannelGate(first, rows[first])
                      ELSE IF ~Covered(rows, d) THEN "coverage" ELSE "ok"
  BY DEF Gate
<1>3. broken = {}
  <2> SUFFICES ASSUME broken # {} PROVE FALSE
    OBVIOUS
  <2>1. broken \subseteq Int /\ broken \in SUBSET DOMAIN Planes
    BY SiteAssumption
  <2>2. IsFiniteSet(broken)
    BY <2>1, SiteAssumption, ListIsFinite, FS_Subset
  <2> DEFINE k == CHOOSE i \in broken : \A j \in broken : i <= j
  <2>3. k \in broken
    <3> HIDE DEF broken
    <3>1. \E i \in broken : \A j \in broken : i <= j
      BY <2>1, <2>2, LeastNumber
    <3> QED
      BY <3>1
  <2>4. first = Planes[k]
    OBVIOUS
  <2>5. ChannelGate(first, rows[first]) # "ok"
    <3> HIDE DEF k, first, rows
    <3> QED
      BY <2>3, <2>4
  <2> HIDE DEF rows, first, broken
  <2> QED
    BY <1>2, <2>5 DEF rows
<1>4. Covered(rows, d)
  <2> HIDE DEF rows, broken
  <2> QED
    BY <1>2, <1>3 DEF rows
<1>5. ASSUME NEW p \in BootMetered
      PROVE  ChannelGate(p, rows[p]) = "ok"
  <2>1. PICK i \in DOMAIN Planes : Planes[i] = p
    BY BootAssumption DEF PlaneSet
  <2> QED
    BY <1>3, <2>1
<1>6. DOMAIN rows = BootMetered
  OBVIOUS
<1> HIDE DEF rows, a
<1>7. ASSUME NEW p \in BootMetered
      PROVE  /\ a[p] # <<>>
             /\ ~\E h \in DOMAIN a[p] : a[p][h] = Bad \/ a[p][h] < 0 \/ a[p][h] > PeakOf[p]
             /\ ~IsFrozenChannel(a[p])
  <2>1. ChannelGate(p, rows[p]) =
           IF \E h \in DOMAIN a[p] : a[p][h] = Bad \/ a[p][h] < 0 THEN "implausible"
           ELSE IF DOMAIN a[p] = {} THEN "dead"
           ELSE IF IsFrozenChannel(a[p]) THEN "frozen"
           ELSE IF \E h \in DOMAIN a[p] : a[p][h] > PeakOf[p] THEN "implausible"
           ELSE "ok"
    BY <1>1 DEF ChannelGate
  <2>2. /\ ~\E h \in DOMAIN a[p] : a[p][h] = Bad \/ a[p][h] < 0
        /\ DOMAIN a[p] # {}
        /\ ~IsFrozenChannel(a[p])
        /\ ~\E h \in DOMAIN a[p] : a[p][h] > PeakOf[p]
    BY <1>5, <2>1
  <2>3. a[p] # <<>>
    BY <2>2
  <2> QED
    BY <2>2, <2>3
<1>8. ~Fault(a)
  BY <1>7 DEF Fault
<1>9. ASSUME NEW p \in BootMetered
      PROVE  100 * Cardinality(DaylightHours(d) \cap DOMAIN DayActuals(d)[p])
                >= CoveragePct * Cardinality(DaylightHours(d))
  <2>1. DOMAIN Usable(rows[p]) \cap DaylightHours(d) = DaylightHours(d) \cap DOMAIN a[p]
    BY <1>1
  <2>2. 100 * Cardinality(DOMAIN Usable(rows[p]) \cap DaylightHours(d))
           >= CoveragePct * Cardinality(DaylightHours(d))
    BY <1>4, <1>6 DEF Covered
  <2> QED
    BY <2>1, <2>2 DEF a
<1> QED
  BY <1>8, <1>9 DEF CompleteDay, a

\* A sound day whose hours came with the weather is learned from, and has its
\* residuals in the ring when it has any to tell.
LEMMA SoundIsFolded ==
    ASSUME DOMAIN acc = AccFields, NEW d \in Int, SoundDay(d),
           \A h \in DaylightHours(d) : h \in DOMAIN records,
           \A h \in DOMAIN records : records[h] \in {Get(IssuedArchive, h + 1, Null),
                                                     Get(AnalysisArchive, h + 1, Null)}
    PROVE  /\ CompleteDay(d) /\ ~Fault(DayActuals(d)) /\ ~Collapsed(d, DayActuals(d))
           /\ d \in FoldedDay(d, DayActuals(d)).bias
           /\ TellingDay(d) => d \in DOMAIN FoldedDay(d, DayActuals(d)).ring
<1> DEFINE a == DayActuals(d)
<1>1. DaylightHours(d) \subseteq DOMAIN DayRecords(d)
  BY DaylightIsOfDay DEF DayRecords, Where
<1>2. CompleteDay(d) /\ ~Fault(a) /\ ~Collapsed(d, a)
  BY <1>1, GatedIsSound DEF SoundDay
<1>3. PICK h \in DaylightHours(d) :
         /\ Archived(h)
         /\ IssuedArchive[h + 1].yield > 0 /\ AnalysisArchive[h + 1].yield > 0
         /\ \A p \in BootMetered : h \in DOMAIN a[p]
  BY DEF SoundDay
<1>4. h \in CommonHours(d, a)
  BY <1>1, <1>3 DEF CommonHours
<1>5. records[h].yield > 0
  <2>1. /\ Get(IssuedArchive, h + 1, Null) = IssuedArchive[h + 1]
        /\ Get(AnalysisArchive, h + 1, Null) = AnalysisArchive[h + 1]
    BY <1>3 DEF Archived, Get
  <2> QED
    BY <1>3, <2>1
<1>6. ASSUME TellingDay(d)
      PROVE  d \in DOMAIN FoldedDay(d, a).ring
  <2>1. PICK b \in DaylightHours(d) :
           /\ \A archive \in {IssuedArchive, AnalysisArchive} :
                 /\ archive[b + 1].yield > 0
                 /\ Cardinality(BootMetered) * archive[b + 1].yield > QuantileFloor
           /\ \A p \in BootMetered : b \in DOMAIN a[p]
    BY <1>6 DEF TellingDay
  <2>2. b \in CommonHours(d, a)
    BY <1>1, <2>1 DEF CommonHours
  <2>3. /\ Get(IssuedArchive, b + 1, Null) = IssuedArchive[b + 1]
        /\ Get(AnalysisArchive, b + 1, Null) = AnalysisArchive[b + 1]
    BY <2>1 DEF SoundDay, Archived, Get
  <2>4. records[b] \in {IssuedArchive[b + 1], AnalysisArchive[b + 1]}
    BY <2>1, <2>3
  <2>5. records[b].yield > 0 /\ Cardinality(BootMetered) * records[b].yield > QuantileFloor
    BY <2>1, <2>4
  <2> HIDE DEF a
  <2> QED
    BY <2>2, <2>5, FoldedFields
<1> QED
  BY <1>2, <1>4, <1>5, <1>6, FoldedFields

\* The inductive invariant of what is not lost: hours that both archives have come
\* with a window that is left or have come, sound days are to be folded or were, and
\* those with a residual are in the ring, whose import is the window of it.
CoverInv ==
    /\ \E S : windows \in Seq(S)
    /\ \A h \in DOMAIN records : records[h] \in {Get(IssuedArchive, h + 1, Null),
                                                 Get(AnalysisArchive, h + 1, Null)}
    /\ bootPhase \in {"weather", "days", "done"} =>
          /\ call \in BootRanges
          /\ \A d \in call.first..call.last : \A h \in DaylightHours(d) :
                Archived(h) => h \in DOMAIN records \/ \E i \in DOMAIN windows : h \in HoursOf(windows[i])
    /\ bootPhase \in {"days", "done"} => windows = <<>>
    /\ bootPhase = "days" =>
          \A d \in call.first..call.last :
             /\ SoundDay(d) => d \in daysLeft \cup acc.bias
             /\ TellingDay(d) => d \in daysLeft \cup DOMAIN acc.ring
    /\ bootPhase = "done" =>
          \A d \in call.first..call.last :
             /\ SoundDay(d) => d \in acc.bias
             /\ TellingDay(d) => d \in DOMAIN acc.ring
    /\ imported # Null =>
          /\ bootPhase = "done"
          /\ DOMAIN imported.ring = {d \in DOMAIN acc.ring : d >= acc.last - RingWindow}

LEMMA InitCover == BootInit => CoverInv
<1> SUFFICES ASSUME BootInit PROVE CoverInv
  OBVIOUS
<1>1. bootPhase = "idle" /\ windows = <<>> /\ records = <<>> /\ imported = Null
  BY DEF BootInit, BootIdle
<1>2. windows \in Seq({})
  BY <1>1
<1> QED
  BY <1>1, <1>2 DEF CoverInv

\* A window brings its hours, from whichever archive.
LEMMA FetchCovers == BootInv /\ CoverInv /\ FetchWindow => CoverInv'
<1> SUFFICES ASSUME BootInv, CoverInv, FetchWindow PROVE CoverInv'
  OBVIOUS
<1>1. /\ bootPhase = "weather" /\ windows # <<>> /\ windows' = Tail(windows)
      /\ UNCHANGED <<call, stats, daysLeft, acc, imported>>
  BY DEF FetchWindow
<1>2. PICK S : windows \in Seq(S)
  BY DEF CoverInv
<1>3. windows' \in Seq(S)
  BY <1>1, <1>2
<1>4. PICK o \in FetchOutcomes(Head(windows)) :
         IF o = Null
         THEN bootPhase' = "failed" /\ UNCHANGED <<records, asIssued>>
         ELSE /\ records' = [h \in DOMAIN records \cup DOMAIN o.got |->
                                IF h \in DOMAIN o.got THEN o.got[h] ELSE records[h]]
              /\ UNCHANGED bootPhase
  BY DEF FetchWindow
<1>5. CASE o = Null
  <2>1. imported' = Null
    BY <1>1 DEF CoverInv
  <2> QED
    BY <1>3, <1>4, <1>5, <2>1 DEF CoverInv
<1>6. CASE o # Null
  <2> DEFINE w == Head(windows)
             brought(archive) == {x \in HoursOf(w) : Get(archive, x + 1, Null) # Null}
  <2>1. o.got = Parsed(IssuedArchive, w) \/ o.got = Parsed(AnalysisArchive, w)
    BY <1>4, <1>6 DEF FetchOutcomes
  <2>2. PICK archive \in {IssuedArchive, AnalysisArchive} :
           o.got = [h \in brought(archive) |-> archive[h + 1]]
    BY <2>1 DEF Parsed
  <2>3. ASSUME NEW h \in DOMAIN records'
        PROVE  records'[h] \in {Get(IssuedArchive, h + 1, Null), Get(AnalysisArchive, h + 1, Null)}
    <3>1. CASE h \in DOMAIN o.got
      <4>1. records'[h] = archive[h + 1] /\ Get(archive, h + 1, Null) # Null
        BY <1>4, <1>6, <2>2, <2>3, <3>1
      <4> QED
        BY <4>1 DEF Get
    <3>2. CASE h \notin DOMAIN o.got
      <4>1. h \in DOMAIN records /\ records'[h] = records[h]
        BY <1>4, <1>6, <2>3, <3>2
      <4> QED
        BY <4>1 DEF CoverInv
    <3> QED
      BY <3>1, <3>2
  <2>4. ASSUME NEW d \in call.first..call.last, NEW h \in DaylightHours(d), Archived(h)
        PROVE  h \in DOMAIN records' \/ \E i \in DOMAIN windows' : h \in HoursOf(windows'[i])
    <3>1. CASE h \in DOMAIN records
      BY <1>4, <1>6, <3>1
    <3>2. CASE h \in HoursOf(w)
      <4>1. h \in DOMAIN o.got
        BY <2>2, <2>4, <3>2 DEF Archived
      <4> QED
        BY <1>4, <1>6, <4>1
    <3>3. ASSUME h \notin DOMAIN records, h \notin HoursOf(w)
          PROVE  \E i \in DOMAIN windows' : h \in HoursOf(windows'[i])
      <4>1. PICK i \in DOMAIN windows : h \in HoursOf(windows[i])
        BY <1>1, <2>4, <3>3 DEF CoverInv
      <4>2. windows[1] = w
        BY <1>1, <1>2
      <4>3. i - 1 \in DOMAIN windows' /\ windows'[i - 1] = windows[i]
        BY <1>1, <1>2, <3>3, <4>1, <4>2
      <4> QED
        BY <4>1, <4>3
    <3> QED
      BY <3>1, <3>2, <3>3
  <2>5. bootPhase' = "weather" /\ call' = call
    BY <1>1, <1>4, <1>6
  <2>6. call \in BootRanges /\ imported' = Null
    BY <1>1 DEF CoverInv
  <2> HIDE DEF w, brought
  <2> QED
    BY <1>3, <2>3, <2>4, <2>5, <2>6 DEF CoverInv
<1> QED
  BY <1>5, <1>6

LEMMA NextCover == BootInv /\ CoverInv /\ [BootNext]_bootVars => CoverInv'
<1> SUFFICES ASSUME BootInv, CoverInv, [BootNext]_bootVars PROVE CoverInv'
  OBVIOUS
<1>1. ASSUME UNCHANGED <<stats, records>>
      PROVE  \A d : SoundDay(d)' = SoundDay(d) /\ TellingDay(d)' = TellingDay(d)
  <2> SUFFICES ASSUME NEW d PROVE SoundDay(d)' = SoundDay(d) /\ TellingDay(d)' = TellingDay(d)
    OBVIOUS
  <2>1. DayActuals(d)' = DayActuals(d)
    BY <1>1 DEF DayActuals
  <2>2. ModeledDay(d)' = ModeledDay(d)
    <3>1. DayRecords(d)' = DayRecords(d)
      BY <1>1 DEF DayRecords, Where
    <3> QED
      BY <1>1, <3>1 DEF ModeledDay
  <2>3. Collapsed(d, DayActuals(d))' = Collapsed(d, DayActuals(d))
    BY <2>1, <2>2 DEF Collapsed
  <2>4. SoundDay(d)' = SoundDay(d)
    BY <1>1, <2>1, <2>3 DEF SoundDay
  <2> QED
    BY <2>1, <2>4 DEF TellingDay
<1>2. CASE RunBootstrap
  <2>1. PICK r \in BootRanges :
           /\ call' = r
           /\ \/ bootPhase' = "failed" /\ windows' = <<>>
              \/ bootPhase' = "weather" /\ windows' = DateWindows(r.first, r.last)
    BY <1>2 DEF RunBootstrap
  <2>2. records' = records /\ imported' = Null
    BY <1>2 DEF RunBootstrap, CoverInv
  <2>3. \E S : windows' \in Seq(S)
    <3>1. <<>> \in Seq({})
      OBVIOUS
    <3>2. DateWindows(r.first, r.last) \in Seq({DateWindows(r.first, r.last)[i] :
                                                i \in DOMAIN DateWindows(r.first, r.last)})
      <4> DEFINE n == (r.last - r.first) \div ChunkDays + 1
                 w == DateWindows(r.first, r.last)
      <4>1. n \in Int
        <5> DEFINE c == ChunkDays
                   x == r.last - r.first
        <5>1. c \in Int /\ c > 0 /\ x \in Int
          BY BootAssumption
        <5> HIDE DEF c, x
        <5>2. x \div c \in Int
          BY <5>1, Floored
        <5> QED
          BY <5>2 DEF c, x
      <4>2. DOMAIN w = 1..n /\ w = [i \in DOMAIN w |-> w[i]]
        BY DEF DateWindows
      <4> HIDE DEF n, w
      <4>3. \E m \in Nat : DOMAIN w = 1..m
        <5>1. CASE n >= 0
          BY <4>1, <4>2, <5>1
        <5>2. CASE ~(n >= 0)
          <6>1. 1..n = {} /\ 1..0 = {}
            BY <4>1, <5>2
          <6> QED
            BY <4>2, <6>1
        <5> QED
          BY <5>1, <5>2
      <4> DEFINE T == {w[i] : i \in DOMAIN w}
      <4>4. PICK m \in Nat : w \in [1..m -> T]
        BY <4>2, <4>3
      <4> HIDE DEF T
      <4>5. w \in Seq(T)
        BY <4>4, SeqDef
      <4> QED
        BY <4>5 DEF w, T
    <3> QED
      BY <2>1, <3>1, <3>2
  <2> QED
    BY <2>1, <2>2, <2>3, WindowsCover, BootAssumption DEF CoverInv
<1>3. CASE FetchWindow
  BY <1>3, FetchCovers
<1>4. CASE BootReadActuals
  <2>1. /\ bootPhase = "weather" /\ windows = <<>>
        /\ UNCHANGED <<call, windows, records, asIssued, stats, acc, imported>>
        /\ \/ bootPhase' = "failed"
           \/ /\ bootPhase' = "days"
              /\ daysLeft' = {d \in call.first..call.last : DayRecords(d) # <<>>}
    BY <1>4 DEF BootReadActuals
  <2>2. ASSUME NEW d \in call.first..call.last, SoundDay(d)
        PROVE  DayRecords(d) # <<>>
    <3>1. d \in Int
      BY <2>1, BootAssumption DEF CoverInv
    <3>2. PICK h \in DaylightHours(d) : Archived(h)
      BY <2>2 DEF SoundDay
    <3>3. h \in DOMAIN records /\ LocalDay(h) = d
      BY <2>1, <3>1, <3>2, DaylightIsOfDay DEF CoverInv
    <3>4. h \in DOMAIN DayRecords(d)
      BY <3>3 DEF DayRecords, Where
    <3> QED
      BY <3>4
  <2>3. \A d \in call'.first..call'.last :
           /\ SoundDay(d)' => SoundDay(d) /\ d \in call.first..call.last
           /\ TellingDay(d)' => SoundDay(d)
    BY <1>1, <2>1 DEF TellingDay
  <2>4. imported' = Null
    BY <2>1 DEF CoverInv
  <2> QED
    BY <2>1, <2>2, <2>3, <2>4 DEF CoverInv
<1>5. CASE FoldDay
  <2>1. /\ bootPhase = "days" /\ bootPhase' = "days"
        /\ UNCHANGED <<call, windows, records, asIssued, stats, imported>>
    BY <1>5 DEF FoldDay
  <2>2. PICK day \in daysLeft :
           /\ acc' = IF ~CompleteDay(day) \/ Fault(DayActuals(day)) \/ Collapsed(day, DayActuals(day))
                     THEN Skipped ELSE FoldedDay(day, DayActuals(day))
           /\ daysLeft' = daysLeft \ {day}
    BY <1>5 DEF FoldDay
  <2>3. DOMAIN acc = AccFields /\ day \in Int
    BY <2>1, <2>2 DEF BootInv, AccOK
  <2>4. acc.bias \subseteq acc'.bias
    <3>1. Skipped.bias = acc.bias
      BY <2>3 DEF Skipped, AccFields
    <3> DEFINE after == FoldedDay(day, DayActuals(day))
    <3>2. after.bias \in {acc.bias, acc.bias \cup {day}}
      BY <2>3, FoldedFields
    <3> HIDE DEF after
    <3>3. acc.bias \subseteq after.bias
      BY <3>2
    <3> QED
      BY <2>2, <3>1, <3>3 DEF after
  <2>8. DOMAIN acc.ring \subseteq DOMAIN acc'.ring
    <3>1. Skipped.ring = acc.ring
      BY <2>3 DEF Skipped, AccFields
    <3> DEFINE after == FoldedDay(day, DayActuals(day))
    <3>2. after.ring \in {acc.ring, [x \in DOMAIN acc.ring \cup {day} |->
                             IF x = day THEN [slow |-> acc.shade, theta |-> Served(acc.bias)]
                             ELSE acc.ring[x]]}
      BY <2>3, FoldedFields
    <3> HIDE DEF after
    <3>3. DOMAIN acc.ring \subseteq DOMAIN after.ring
      BY <3>2
    <3> QED
      BY <2>2, <3>1, <3>3 DEF after
  <2>5. ASSUME day \in call.first..call.last, SoundDay(day)
        PROVE  day \in acc'.bias /\ (TellingDay(day) => day \in DOMAIN acc'.ring)
    <3>1. \A h \in DaylightHours(day) : h \in DOMAIN records
      BY <2>1, <2>5 DEF CoverInv, SoundDay
    <3>2. /\ CompleteDay(day) /\ ~Fault(DayActuals(day)) /\ ~Collapsed(day, DayActuals(day))
          /\ day \in FoldedDay(day, DayActuals(day)).bias
          /\ TellingDay(day) => day \in DOMAIN FoldedDay(day, DayActuals(day)).ring
      BY <2>3, <2>5, <3>1, SoundIsFolded DEF CoverInv
    <3> QED
      BY <2>2, <3>2
  <2>6. ASSUME NEW d \in call.first..call.last, SoundDay(d)
        PROVE  /\ d \in daysLeft' \cup acc'.bias
               /\ TellingDay(d) => d \in daysLeft' \cup DOMAIN acc'.ring
    BY <2>1, <2>2, <2>4, <2>5, <2>6, <2>8 DEF CoverInv
  <2>7. \A d \in call'.first..call'.last :
           /\ SoundDay(d)' => SoundDay(d) /\ d \in call.first..call.last
           /\ TellingDay(d)' => TellingDay(d) /\ SoundDay(d)
    BY <1>1, <2>1 DEF TellingDay
  <2>9. imported' = Null
    BY <2>1 DEF CoverInv
  <2> QED
    BY <2>1, <2>6, <2>7, <2>9 DEF CoverInv
<1>6. CASE FinishBootstrap
  <2>1. /\ bootPhase = "days" /\ daysLeft = {} /\ bootPhase' \in {"failed", "done"}
        /\ UNCHANGED <<call, windows, records, asIssued, stats, daysLeft, acc>>
    BY <1>6 DEF FinishBootstrap
  <2>2. \A d \in call'.first..call'.last :
           /\ SoundDay(d)' => SoundDay(d) /\ d \in call.first..call.last
           /\ TellingDay(d)' => TellingDay(d)
    BY <1>1, <2>1
  <2>3. imported' # Null =>
           /\ bootPhase' = "done"
           /\ DOMAIN imported'.ring = {d \in DOMAIN acc.ring : d >= acc.last - RingWindow}
    <3>1. imported = Null
      BY <2>1 DEF CoverInv
    <3>2. imported' # Null =>
             /\ bootPhase' = "done"
             /\ imported' = [shade |-> acc.shade, bias |-> acc.bias,
                             ring |-> SeededRing]
      BY <1>6, <3>1 DEF FinishBootstrap
    <3>3. DOMAIN SeededRing = {d \in DOMAIN acc.ring : d >= acc.last - RingWindow}
      BY DEF SeededRing, Where
    <3> QED
      BY <3>2, <3>3
  <2> QED
    BY <2>1, <2>2, <2>3 DEF CoverInv
<1>7. CASE UNCHANGED bootVars
  <2>1. UNCHANGED <<stats, records, call, windows, bootPhase, daysLeft, acc, imported>>
    BY <1>7 DEF bootVars
  <2>2. \A d : SoundDay(d)' = SoundDay(d) /\ TellingDay(d)' = TellingDay(d)
    BY <1>1, <2>1
  <2> QED
    BY <2>1, <2>2 DEF CoverInv
<1> QED
  BY <1>2, <1>3, <1>4, <1>5, <1>6, <1>7 DEF BootNext

\* The walk is forward for any archives, any recorder and any range: no day is
\* compared with what it or a later day taught, none that the label gates discard
\* leaves a trace, no dry run is imported, and no sound day is left out, into however
\* many windows its range was cut, nor missing from the imported ring within its
\* window (_date_windows, accumulate_days, _process_day_impl, build_bootstrap_json).
THEOREM WalksForwardHolds == BootSpec => []WalksForward
<1>1. BootSpec => []BootInv
  BY InitBoot, NextBoot, PTL DEF BootSpec
<1>2. BootSpec => []CoverInv
  BY <1>1, InitCover, NextCover, PTL DEF BootSpec
<1>3. BootInv /\ CoverInv => WalksForward
  BY DEF BootInv, AccOK, Gated, RingIsOlder, StepsAreOlder, Learned, CoverInv, WalksForward
<1> QED
  BY <1>1, <1>2, <1>3, PTL

-----------------------------------------------------------------------------
(* The day-ahead bias: a cell says what its days since it was opened said.   *)

\* A floored quotient, and how quotients of two neighbours lie.
\* A step of the estimator lands between the factor before it and the day's ratio,
\* and on the ratio if the cell knows nothing (_rls_step).
LEMMA StepBetween ==
    ASSUME NEW theta \in Int, NEW old \in Nat, NEW m \in Int, m > 0, NEW y \in Int
    PROVE  LET q == (1000 * y) \div m
               t == (theta * old + 1000 * m * y) \div (old + m * m)
           IN /\ q \in Int /\ t \in Int
              /\ theta <= t \/ q <= t
              /\ t <= theta \/ t <= q
              /\ old = 0 => t = q
<1> DEFINE q == (1000 * y) \div m
           x == theta * old + 1000 * m * y
           d == old + m * m
           t == x \div d
           v == 1000 * y
<1>1. m * m > 0
  OBVIOUS
<1>2. d \in Int /\ d > 0 /\ x \in Int /\ v \in Int
  BY <1>1
<1>3. q \in Int /\ m * q <= v /\ v <= m * q + (m - 1)
  BY <1>2, Floored
<1>4. x = theta * old + m * v
  BY <1>2
<1>5. t \in Int /\ \A k \in Int : (d * k <= x => k <= t) /\ (x < d * k + d => t <= k)
  BY <1>2, Floored, FlooredBounds
<1> HIDE DEF q, t, v, x
<1>6. m * (m * q) <= m * v /\ m * v <= m * (m * q) + m * (m - 1) /\ m * (m - 1) < m * m
  BY <1>2, <1>3
<1>7. ASSUME NEW k \in Int, k <= theta, k <= q PROVE k <= t
  <2>1. k * old <= theta * old
    BY <1>7
  <2>2. (m * m) * k <= (m * m) * q
    BY <1>1, <1>3, <1>7
  <2>3. (m * m) * q = m * (m * q)
    BY <1>3
  <2>4. d * k = k * old + (m * m) * k
    OBVIOUS
  <2>5. d * k <= x
    BY <1>2, <1>3, <1>4, <1>6, <2>1, <2>2, <2>3, <2>4
  <2> QED
    BY <1>5, <2>5
<1>8. ASSUME NEW k \in Int, theta <= k, q <= k PROVE t <= k
  <2>1. theta * old <= k * old
    BY <1>8
  <2>2. (m * m) * q <= (m * m) * k
    BY <1>1, <1>3, <1>8
  <2>3. (m * m) * q = m * (m * q)
    BY <1>3
  <2>4. d * k = k * old + (m * m) * k
    OBVIOUS
  <2>5. x < d * k + d
    BY <1>2, <1>3, <1>4, <1>6, <2>1, <2>2, <2>3, <2>4
  <2> QED
    BY <1>5, <2>5
<1>9. ASSUME old = 0 PROVE t = q
  <2>1. d = m * m /\ x = m * v
    BY <1>2, <1>4, <1>9
  <2>2. d * q = m * (m * q)
    BY <1>3, <2>1
  <2>3. d * q <= x /\ x < d * q + d
    BY <1>2, <1>3, <1>6, <2>1, <2>2
  <2>4. q <= t /\ t <= q
    BY <1>3, <1>5, <2>3
  <2> QED
    BY <1>3, <1>5, <2>4
<1>10. theta <= t \/ q <= t
  <2>1. CASE q <= theta
    BY <1>3, <1>7, <2>1
  <2>2. CASE theta <= q
    BY <1>7, <2>2
  <2> QED
    BY <1>3, <2>1, <2>2
<1>11. t <= theta \/ t <= q
  <2>1. CASE q <= theta
    BY <1>8, <2>1
  <2>2. CASE theta <= q
    BY <1>3, <1>8, <2>2
  <2> QED
    BY <1>3, <2>1, <2>2
<1> QED
  BY <1>3, <1>5, <1>9, <1>10, <1>11 DEF q, t, v, x

CellFields == {"theta", "info", "n"}

\* A cell with what it saw since it was opened: nothing if it was opened last, and
\* then it knows nothing; else its factor lies between two of the ratios.
CellOK(cell, seen) ==
    /\ DOMAIN cell = CellFields
    /\ cell.theta \in Int /\ ThetaMin <= cell.theta /\ cell.theta <= ThetaMax
    /\ cell.info \in Nat
    /\ seen \subseteq Int
    /\ seen = {} => cell.info = 0
    /\ seen # {} => \E r, s \in seen : r <= cell.theta /\ cell.theta <= s

CellsOK(cells, seen) ==
    /\ DOMAIN cells = DOMAIN seen
    /\ \A c \in DOMAIN cells : CellOK(cells[c], seen[c])

\* The inductive invariant, of the memory and of the file.
BiasInv ==
    /\ DOMAIN bias = {"cells", "print"}
    /\ DOMAIN since = {"mem", "file"}
    /\ CellsOK(bias.cells, since.mem)
    /\ CellsOK(biasFile.cells, since.file)

LEMMA Clamped ==
    ASSUME NEW v \in Int
    PROVE  /\ ClampedTheta(v) \in Int /\ ThetaMin <= ClampedTheta(v) /\ ClampedTheta(v) <= ThetaMax
           /\ \A u \in Int : v <= u => ClampedTheta(v) <= ClampedTheta(u)
           /\ ThetaMin <= v /\ v <= ThetaMax => ClampedTheta(v) = v
BY BiasAssumption DEF ClampedTheta, Between

\* A sample bright enough keeps a cell between what it saw.
LEMMA StepKeepsCell ==
    ASSUME NEW cell, NEW seen, CellOK(cell, seen), NEW s, s.modeled \in Int, s.measured \in Int,
           Bright(s)
    PROVE  CellOK(RlsStep(cell, s), seen \cup {Ratio(s)})
<1> DEFINE theta == cell.theta
           m == s.modeled
           y == s.measured
           old == (Forgetting * cell.info) \div 100
           info == old + m * m
           q == (1000 * y) \div m
           t == (theta * old + 1000 * m * y) \div info
           after == RlsStep(cell, s)
<1>1. /\ theta \in Int /\ ThetaMin <= theta /\ theta <= ThetaMax /\ cell.info \in Nat /\ seen \subseteq Int
      /\ m \in Int /\ m > 0 /\ y \in Int
  BY BiasAssumption DEF CellOK, Bright
<1>2. old \in Nat /\ (cell.info = 0 => old = 0)
  <2>1. Forgetting * cell.info \in Nat
    BY <1>1, BiasAssumption
  <2>2. cell.info = 0 => Forgetting * cell.info = 0
    BY BiasAssumption
  <2> HIDE DEF theta
  <2> QED
    BY <2>1, <2>2
<1>3. /\ after.theta = ClampedTheta(t) /\ after.info = info /\ DOMAIN after = CellFields
      /\ Ratio(s) = ClampedTheta(q)
  BY DEF RlsStep, CellFields, Ratio
<1> HIDE DEF theta, m, y, old, after
<1>4. /\ q \in Int /\ t \in Int
      /\ theta <= t \/ q <= t
      /\ t <= theta \/ t <= q
      /\ old = 0 => t = q
  BY <1>1, <1>2, StepBetween
<1>5. m * m > 0 /\ m * m \in Int
  BY <1>1
<1>6. info \in Nat
  BY <1>2, <1>5
<1> HIDE DEF info, q, t
<1> DEFINE ct == ClampedTheta(t)
           cq == ClampedTheta(q)
<1>7. /\ ct \in Int /\ ThetaMin <= ct /\ ct <= ThetaMax /\ cq \in Int
      /\ theta <= ct \/ cq <= ct
      /\ ct <= theta \/ ct <= cq
      /\ t = q => ct = cq
  <2>1. ClampedTheta(theta) = theta
    BY <1>1, Clamped
  <2>2. /\ \A u \in Int : t <= u => ct <= ClampedTheta(u)
        /\ \A u \in Int : q <= u => cq <= ClampedTheta(u)
        /\ \A u \in Int : theta <= u => ClampedTheta(theta) <= ClampedTheta(u)
        /\ ct \in Int /\ cq \in Int /\ ThetaMin <= ct /\ ct <= ThetaMax
    BY <1>1, <1>4, Clamped
  <2> QED
    BY <1>1, <1>4, <2>1, <2>2
<1> HIDE DEF ct, cq
<1>8. \E r, u \in seen \cup {cq} : r <= ct /\ ct <= u
  <2>1. CASE seen = {}
    <3>1. ct = cq
      BY <1>2, <1>4, <1>7, <2>1 DEF CellOK
    <3> QED
      BY <1>7, <3>1
  <2>2. CASE seen # {}
    <3>1. PICK r \in seen, u \in seen : r <= theta /\ theta <= u
      BY <2>2 DEF CellOK, theta
    <3>2. r \in Int /\ u \in Int
      BY <1>1
    <3>3. \E l \in seen \cup {cq} : l <= ct
      BY <1>1, <1>7, <3>1, <3>2
    <3>4. \E h \in seen \cup {cq} : ct <= h
      BY <1>1, <1>7, <3>1, <3>2
    <3> QED
      BY <3>3, <3>4
  <2> QED
    BY <2>1, <2>2
<1>9. CellOK(after, seen \cup {cq})
  BY <1>1, <1>3, <1>6, <1>7, <1>8 DEF CellOK, ct, cq
<1> QED
  BY <1>3, <1>9 DEF after, cq

LEMMA FreshKnowsNothing == CellOK(FreshCell, {})
BY BiasAssumption DEF CellOK, FreshCell, CellFields

\* The energies that a day's sample compares are integers, as are those of its hours.
LEMMA EnergiesAreInt ==
    ASSUME NEW day \in BiasKinds, NEW s \in CellEnergies(day)
    PROVE  s.modeled \in Int /\ s.measured \in Int
<1> DEFINE issued == SlowOrRaw(day.issued)
           label == day.label
           today == LocalDay(0)
           modeled == MeteredModeled(InDay(Sanitised(issued.slow), today), issued.slowOf, PlaneSet)
           measured == SiteMeasured(label.hourly, PlaneSet, today)
           hours == IF measured = Null THEN DOMAIN modeled
                    ELSE DOMAIN modeled \cap DOMAIN measured
           CellOf(h) == <<Get(issued.class, h, "clear"), issued.part[h]>>
           In(c) == {h \in hours : CellOf(h) = c}
           modeledIn(c) == Total([h \in In(c) |-> modeled[h]])
           measuredIn(c) == IF measured = Null
                            THEN (Total(label.daily) * modeledIn(c)) \div Total(modeled)
                            ELSE Total([h \in In(c) |-> measured[h]])
<1>1. IsCurve(Sanitised(issued.slow)) /\ \A p \in DOMAIN issued.slowOf : IsCurve(issued.slowOf[p])
  <2>1. /\ IsLayer(day.issued.raw, day.issued.rawOf) /\ IsLayer(day.issued.slow, day.issued.slowOf)
        /\ {"slow", "slowOf"} \subseteq DOMAIN day.issued
    BY BiasAssumption
  <2>2. \/ issued = day.issued
        \/ issued.slow = day.issued.raw /\ issued.slowOf = day.issued.rawOf
    BY <2>1 DEF SlowOrRaw
  <2> QED
    BY <2>1, <2>2 DEF IsLayer
<1>2. IsLabel(label)
  BY BiasAssumption
<1>3. /\ modeled # Null /\ ~(Total(modeled) <= 0)
      /\ \E c : s = [cell |-> c, modeled |-> modeledIn(c), measured |-> measuredIn(c)]
  <2> DEFINE cells == {d \in {CellOf(h) : h \in hours} : modeledIn(d) > 0}
             energies == {[cell |-> c, modeled |-> modeledIn(c), measured |-> measuredIn(c)] : c \in cells}
  <2>1. CellEnergies(day) =
           IF modeled = Null \/ Total(label.daily) <= 0 THEN {}
           ELSE IF measured = Null /\ DOMAIN label.hourly # {} THEN {}
           ELSE IF Total(modeled) <= 0 THEN {} ELSE energies
    BY DEF CellEnergies, DayAheadSamples
  <2> HIDE DEF modeled, measured, cells, modeledIn, measuredIn
  <2>2. modeled # Null /\ ~(Total(modeled) <= 0) /\ s \in energies
    BY <2>1
  <2> QED
    BY <2>2
<1> HIDE DEF modeledIn, measuredIn
<1>4. PICK c : s = [cell |-> c, modeled |-> modeledIn(c), measured |-> measuredIn(c)]
  BY <1>3
<1>5. IsCurve(modeled)
  <2> DEFINE curve == InDay(Sanitised(issued.slow), today)
  <2>1. IsCurve(curve)
    BY <1>1, DayOfCurve
  <2>2. PlaneSet \in SUBSET PlaneSet /\ modeled = MeteredModeled(curve, issued.slowOf, PlaneSet)
    OBVIOUS
  <2>3. modeled # Null
    BY <1>3
  <2> HIDE DEF curve, issued, modeled
  <2> QED
    BY <1>1, <2>1, <2>2, <2>3, MeteredCurve
<1>6. ASSUME measured # Null PROVE \A h \in DOMAIN measured : measured[h] \in Int
  <2> DEFINE of(p) == InDay(Get(label.hourly, p, <<>>), today)
             common == {h \in UNION {DOMAIN of(p) : p \in PlaneSet} :
                           \A p \in PlaneSet : h \in DOMAIN of(p)}
  <2>1. measured = [h \in common |-> Total([p \in PlaneSet |-> of(p)[h]])]
    BY <1>6 DEF SiteMeasured
  <2>2. ASSUME NEW p \in PlaneSet PROVE IsCurve(of(p))
    <3>1. CASE p \in DOMAIN label.hourly
      BY <1>2, <3>1, DayOfCurve DEF IsLabel, Get
    <3>2. CASE p \notin DOMAIN label.hourly
      <4>1. IsCurve(<<>>)
        BY FS_EmptySet DEF IsCurve
      <4> QED
        BY <3>2, <4>1, DayOfCurve DEF Get
    <3> QED
      BY <3>1, <3>2
  <2> HIDE DEF of
  <2>3. ASSUME NEW h \in common PROVE Total([p \in PlaneSet |-> of(p)[h]]) \in Int
    <3>1. IsCurve([p \in PlaneSet |-> of(p)[h]])
      BY <2>2, <2>3, PlanesAreFinite DEF IsCurve
    <3> QED
      BY <3>1, TotalIsInt
  <2> QED
    BY <2>1, <2>3
<1>7. In(c) \in SUBSET DOMAIN modeled /\ (measured # Null => In(c) \in SUBSET DOMAIN measured)
  OBVIOUS
<1> HIDE DEF modeled, measured, In
<1>8. IsFiniteSet(In(c))
  BY <1>5, <1>7, FS_Subset DEF IsCurve
<1>9. modeledIn(c) \in Int
  <2>1. IsCurve([h \in In(c) |-> modeled[h]])
    BY <1>5, <1>7, <1>8 DEF IsCurve
  <2> QED
    BY <2>1, TotalIsInt DEF modeledIn
<1>10. measuredIn(c) \in Int
  <2>1. CASE measured = Null
    <3>1. Total(label.daily) \in Int /\ Total(modeled) \in Int
      BY <1>2, <1>5, TotalIsInt DEF IsLabel
    <3>2. Total(label.daily) * modeledIn(c) \in Int
      BY <1>9, <3>1
    <3> DEFINE x == Total(label.daily) * modeledIn(c)
               y == Total(modeled)
    <3>3. x \in Int /\ y \in Int /\ y > 0
      <4>1. y \in Int /\ ~(y <= 0)
        BY <1>3, <3>1
      <4> HIDE DEF y
      <4>2. y > 0
        BY <4>1
      <4> QED
        BY <3>2, <4>1, <4>2
    <3> HIDE DEF x, y
    <3>4. x \div y \in Int
      BY <3>3
    <3> QED
      BY <2>1, <3>4 DEF x, y, measuredIn
  <2>2. CASE measured # Null
    <3>1. IsCurve([h \in In(c) |-> measured[h]])
      BY <1>6, <1>7, <1>8, <2>2 DEF IsCurve
    <3> QED
      BY <2>2, <3>1, TotalIsInt DEF measuredIn
  <2> QED
    BY <2>1, <2>2
<1> QED
  BY <1>4, <1>9, <1>10

\* A night: every cell that was told something moves, no other does.
LEMMA NightKeepsCells ==
    ASSUME NEW cells, NEW seen, CellsOK(cells, seen), NEW day \in BiasKinds
    PROVE  LET news == {s \in CellEnergies(day) : Bright(s)}
           IN CellsOK(TrainedCells(cells, news), SeenWith(seen, news))
<1> DEFINE news == {s \in CellEnergies(day) : Bright(s)}
           cells1 == TrainedCells(cells, news)
           seen1 == SeenWith(seen, news)
<1>1. \A s \in news : s.modeled \in Int /\ s.measured \in Int /\ Bright(s)
  BY EnergiesAreInt
<1> HIDE DEF news
<1>2. DOMAIN cells1 = DOMAIN seen1
  BY DEF TrainedCells, SeenWith, CellsOK
<1>3. ASSUME NEW c \in DOMAIN cells1
      PROVE  CellOK(cells1[c], seen1[c])
  <2>1. CASE \E s \in news : s.cell = c
    <3> DEFINE s == SampleOf(news, c)
    <3>1. s \in news
      BY <2>1 DEF SampleOf
    <3>2. s.modeled \in Int /\ s.measured \in Int /\ Bright(s)
      BY <1>1, <3>1
    <3>3. cells1[c] = RlsStep(Get(cells, c, FreshCell), s) /\ seen1[c] = Get(seen, c, {}) \cup {Ratio(s)}
      BY <2>1 DEF TrainedCells, SeenWith, CellsOK
    <3>4. CellOK(Get(cells, c, FreshCell), Get(seen, c, {}))
      BY FreshKnowsNothing DEF Get, CellsOK
    <3> HIDE DEF s
    <3> QED
      BY <3>2, <3>3, <3>4, StepKeepsCell
  <2>2. CASE ~\E s \in news : s.cell = c
    BY <2>2 DEF TrainedCells, SeenWith, CellsOK
  <2> QED
    BY <2>1, <2>2
<1> HIDE DEF cells1, seen1
<1> QED
  BY <1>2, <1>3 DEF CellsOK, cells1, seen1, news

\* Opening a cell keeps its factor and forgets what it saw.
LEMMA ReconcileKeepsCells ==
    ASSUME NEW b, NEW seen, NEW site, CellsOK(b.cells, seen)
    PROVE  CellsOK(Reconciled(b, site).cells, ReconciledSince(b, seen, site))
<1>1. CellsOK(Reseeded(b.cells), [c \in DOMAIN seen |-> {}])
  <2>1. ASSUME NEW c \in DOMAIN b.cells
        PROVE  CellOK(Reseeded(b.cells)[c], {})
    <3> DEFINE cell == b.cells[c]
    <3>1. CellOK(cell, seen[c])
      BY DEF CellsOK
    <3>2. Reseeded(b.cells)[c] = [cell EXCEPT !.info = 0, !.n = IF @ < ReseedN THEN @ ELSE ReseedN]
      BY DEF Reseeded
    <3> HIDE DEF cell
    <3> QED
      BY <3>1, <3>2 DEF CellOK, CellFields
  <2>2. DOMAIN Reseeded(b.cells) = DOMAIN b.cells
    BY DEF Reseeded
  <2> QED
    BY <2>1, <2>2 DEF CellsOK
<1>2. CASE SameSite(b, site)
  BY <1>2 DEF Reconciled, ReconciledSince
<1>3. CASE ~SameSite(b, site)
  BY <1>1, <1>3 DEF Reconciled, ReconciledSince
<1> QED
  BY <1>2, <1>3

LEMMA InitBias == BiasInit => BiasInv
  BY DEF BiasInit, BiasInv, NoCells, CellsOK

LEMMA NextBias == BiasInv /\ [BiasNext]_biasVars => BiasInv'
<1> SUFFICES ASSUME BiasInv, [BiasNext]_biasVars PROVE BiasInv'
  OBVIOUS
<1>1. CASE NightOfBias
  <2>1. PICK day \in BiasKinds : TrainDayAhead(day)
    BY <1>1 DEF NightOfBias
  <2> DEFINE news == {s \in CellEnergies(day) : Bright(s)}
  <2>2. CellsOK(TrainedCells(bias.cells, news), SeenWith(since.mem, news))
    BY NightKeepsCells DEF BiasInv
  <2>3. /\ bias' = [bias EXCEPT !.cells = TrainedCells(bias.cells, news)]
        /\ since' = [since EXCEPT !.mem = SeenWith(since.mem, news)]
        /\ biasFile' = biasFile
    BY <2>1 DEF TrainDayAhead
  <2> HIDE DEF news
  <2> QED
    BY <2>2, <2>3 DEF BiasInv
<1>2. CASE BiasSave
  BY <1>2 DEF BiasSave, BiasInv
<1>3. ASSUME NEW b, NEW seen, NEW site, CellsOK(b.cells, seen), StartWith(b, seen, site)
      PROVE  BiasInv'
  <2>1. CellsOK(Reconciled(b, site).cells, ReconciledSince(b, seen, site))
    BY <1>3, ReconcileKeepsCells
  <2>2. DOMAIN Reconciled(b, site) = {"cells", "print"}
    BY DEF Reconciled
  <2>3. /\ bias' = Reconciled(b, site) /\ biasFile' = b
        /\ since' = [mem |-> ReconciledSince(b, seen, site), file |-> seen]
    BY <1>3 DEF StartWith
  <2> QED
    BY <1>3, <2>1, <2>2, <2>3 DEF BiasInv
<1>4. CASE BiasReload
  BY <1>3, <1>4 DEF BiasReload, BiasInv
<1>5. CASE BiasCrash
  BY <1>3, <1>5 DEF BiasCrash, BiasInv
<1>6. CASE ResetBias
  BY <1>6 DEF ResetBias, BiasInv, NoCells, CellsOK
<1>7. CASE SwitchBias
  BY <1>7 DEF SwitchBias, BiasInv
<1>8. CASE UNCHANGED biasVars
  BY <1>8 DEF biasVars, BiasInv
<1> QED
  BY <1>1, <1>2, <1>4, <1>5, <1>6, <1>7, <1>8 DEF BiasNext

THEOREM BiasInvariant == BiasSpec => []BiasInv
BY InitBias, NextBias, PTL DEF BiasSpec

\* A cell says what the days since it was last opened said, for any days, sites and
\* forgetting, over crashes and reloads alike (_rls_step, reseed_day_ahead_bias,
\* _reconcile_config_fingerprint).
THEOREM CellsFollowNewSiteHolds == BiasSpec => []CellsFollowNewSite
<1>1. BiasInv => CellsFollowNewSite
  BY DEF BiasInv, CellsOK, CellOK, CellsFollowNewSite
<1> QED
  BY <1>1, BiasInvariant, PTL

-----------------------------------------------------------------------------
(* The served factor ramps from one day part's cell to the next one's.       *)

Blended(a, b, w) == ((2 * BlendHalf - w) * a + w * b) \div (2 * BlendHalf)
Band == ThetaMax - ThetaMin
RampStep == Band \div (2 * BlendHalf) + 1

AFactor(v) == v \in Int /\ ThetaMin <= v /\ v <= ThetaMax
Near(v, u) == v - u <= RampStep /\ u - v <= RampStep

\* Quotients of numbers no further apart than r.
LEMMA QuotientsNear ==
    ASSUME NEW x \in Int, NEW y \in Int, NEW r \in Int, NEW d \in Int, d > 0, x - y <= r
    PROVE  x \div d - y \div d <= r \div d + 1
<1> DEFINE a == x \div d
           b == y \div d
           c == r \div d
<1>1. a \in Int /\ b \in Int /\ c \in Int
  BY Floored
<1>2. d * a <= x /\ y < d * b + d /\ r < d * c + d
  BY Floored
<1> HIDE DEF a, b, c
<1>3. d * (b + c + 2 - a) = d * b + d * c + 2 * d - d * a
  BY <1>1
<1>4. d * (b + c + 2 - a) > 0
  BY <1>1, <1>2, <1>3
<1>5. b + c + 2 - a > 0
  BY <1>1, <1>4
<1>6. a - b <= c + 1
  BY <1>1, <1>5
<1> QED
  BY <1>6 DEF a, b, c

\* A blend starts at the one cell, ends at the other, stays in the band and moves
\* by its share.
LEMMA BlendRamps ==
    ASSUME NEW a, NEW b, AFactor(a), AFactor(b)
    PROVE  /\ Blended(a, b, 0) = a
           /\ Blended(a, b, 2 * BlendHalf) = b
           /\ \A w \in 0..(2 * BlendHalf) : AFactor(Blended(a, b, w))
           /\ \A w \in 0..(2 * BlendHalf - 1) : Near(Blended(a, b, w), Blended(a, b, w + 1))
<1> DEFINE d == 2 * BlendHalf
           x(w) == (d - w) * a + w * b
<1>1. d \in Int /\ d > 0 /\ a \in Int /\ b \in Int /\ ThetaMin \in Int /\ ThetaMax \in Int
      /\ a - b <= Band /\ b - a <= Band /\ Band \in Int
      /\ ThetaMin <= a /\ a <= ThetaMax /\ ThetaMin <= b /\ b <= ThetaMax
  BY BiasAssumption DEF AFactor, Band
<1>2. \A w : Blended(a, b, w) = x(w) \div d /\ RampStep = Band \div d + 1
  BY DEF Blended, RampStep
<1> HIDE DEF d
<1>3. \A w \in Int : x(w) \in Int
  BY <1>1
<1>4. x(0) = d * a /\ x(d) = d * b
  BY <1>1
<1>5. (d * a) \div d = a /\ (d * b) \div d = b
  <2>1. ASSUME NEW v \in Int PROVE (d * v) \div d = v
    <3>1. d * v \in Int /\ d * v <= d * v /\ d * v < d * v + d
      BY <1>1
    <3>2. v <= (d * v) \div d /\ (d * v) \div d <= v /\ (d * v) \div d \in Int
      BY <1>1, <3>1, Floored, FlooredBounds
    <3> QED
      BY <3>2
  <2> QED
    BY <1>1, <2>1
<1>6. ASSUME NEW w \in 0..d PROVE AFactor(x(w) \div d)
  <2>1. (d - w) * ThetaMin <= (d - w) * a /\ (d - w) * a <= (d - w) * ThetaMax
    BY <1>1
  <2>2. w * ThetaMin <= w * b /\ w * b <= w * ThetaMax
    BY <1>1
  <2>3. /\ (d - w) * ThetaMin + w * ThetaMin = d * ThetaMin
        /\ (d - w) * ThetaMax + w * ThetaMax = d * ThetaMax
    BY <1>1
  <2>4. d * ThetaMin <= x(w) /\ x(w) <= d * ThetaMax /\ x(w) \in Int
    BY <1>1, <2>1, <2>2, <2>3
  <2> HIDE DEF x
  <2>5. x(w) < d * ThetaMax + d
    BY <1>1, <2>4
  <2> QED
    BY <1>1, <2>4, <2>5, Floored, FlooredBounds DEF AFactor
<1>7. ASSUME NEW w \in 0..(d - 1) PROVE Near(x(w) \div d, x(w + 1) \div d)
  <2>1. w \in Int /\ w + 1 \in Int
    BY <1>1
  <2>2. x(w + 1) = x(w) + (b - a)
    BY <1>1, <2>1
  <2>3. x(w) \in Int /\ x(w + 1) \in Int
    BY <1>3, <2>1
  <2> DEFINE u == x(w)
             v == x(w + 1)
  <2> HIDE DEF x
  <2>4. v - u <= Band /\ u - v <= Band
    BY <1>1, <2>2, <2>3
  <2>5. v \div d - u \div d <= Band \div d + 1 /\ u \div d - v \div d <= Band \div d + 1
    BY <1>1, <2>3, <2>4, QuotientsNear
  <2> QED
    BY <1>2, <2>5 DEF Near
<1> HIDE DEF x
<1>8. Blended(a, b, 0) = a /\ Blended(a, b, d) = b
  BY <1>2, <1>4, <1>5
<1>9. \A w \in 0..d : AFactor(Blended(a, b, w))
  BY <1>2, <1>6
<1>10. \A w \in 0..(d - 1) : Near(Blended(a, b, w), Blended(a, b, w + 1))
  BY <1>2, <1>7
<1> QED
  BY <1>8, <1>9, <1>10 DEF d

\* The factor over the day: constant in each part, blended around each boundary.
LEMMA FactorPieces ==
    ASSUME NEW cells, NEW class, NEW h \in Int
    PROVE  LET G(i) == GetBias(cells, class, Parts[i])
               w1 == h + MidHalf + BlendHalf
               w2 == h - MidHalf + BlendHalf
           IN /\ w1 < 0 => Factor(cells, class, h) = G(1)
              /\ 0 <= w1 /\ w1 < 2 * BlendHalf => Factor(cells, class, h) = Blended(G(1), G(2), w1)
              /\ 2 * BlendHalf <= w1 /\ w2 < 0 => Factor(cells, class, h) = G(2)
              /\ 0 <= w2 /\ w2 < 2 * BlendHalf => Factor(cells, class, h) = Blended(G(2), G(3), w2)
              /\ 2 * BlendHalf <= w2 => Factor(cells, class, h) = G(3)
<1> DEFINE near == {i \in {1, 2} : LET b == IF i = 1 THEN -MidHalf ELSE MidHalf
                                   IN b - BlendHalf <= h /\ h < b + BlendHalf}
           i == CHOOSE i \in near : TRUE
           w == BlendWeight(h, IF i = 1 THEN -MidHalf ELSE MidHalf)
           G(k) == GetBias(cells, class, Parts[k])
           w1 == h + MidHalf + BlendHalf
           w2 == h - MidHalf + BlendHalf
<1>1. Factor(cells, class, h) =
         IF near = {} THEN GetBias(cells, class, SolarPart(h))
         ELSE ((2 * BlendHalf - w) * GetBias(cells, class, Parts[i])
                  + w * GetBias(cells, class, Parts[i + 1])) \div (2 * BlendHalf)
  BY DEF Factor
<1>2. MidHalf \in Int /\ BlendHalf \in Int /\ BlendHalf > 0 /\ MidHalf > BlendHalf
  BY BiasAssumption
<1>3. (1 \in near <=> 0 <= w1 /\ w1 < 2 * BlendHalf) /\ (2 \in near <=> 0 <= w2 /\ w2 < 2 * BlendHalf)
      /\ near \subseteq {1, 2}
  BY <1>2
<1>4. SolarPart(h) = IF h <= -MidHalf THEN Parts[1] ELSE IF h >= MidHalf THEN Parts[3] ELSE Parts[2]
  BY DEF SolarPart
<1> HIDE DEF near
<1>5. CASE 0 <= w1 /\ w1 < 2 * BlendHalf
  <2>1. near = {1}
    <3>1. ~(0 <= w2 /\ w2 < 2 * BlendHalf)
      BY <1>2, <1>5
    <3>2. 1 \in near /\ 2 \notin near
      BY <1>3, <1>5, <3>1
    <3> HIDE DEF w1, w2
    <3> QED
      BY <1>3, <3>2
  <2>2. i = 1
    BY <2>1
  <2> HIDE DEF i
  <2>3. w = BlendWeight(h, -MidHalf)
    BY <2>2
  <2>4. w = w1
    BY <1>2, <2>3 DEF BlendWeight
  <2>5. i + 1 = 2
    BY <2>2
  <2> HIDE DEF w
  <2>6. Factor(cells, class, h) = ((2 * BlendHalf - w1) * G(1) + w1 * G(2)) \div (2 * BlendHalf)
    BY <1>1, <2>1, <2>2, <2>4, <2>5
  <2>7. Factor(cells, class, h) = Blended(G(1), G(2), w1)
    BY <2>6 DEF Blended
  <2> HIDE DEF G
  <2>8. ~(w1 < 0) /\ ~(2 * BlendHalf <= w1) /\ ~(0 <= w2) /\ ~(2 * BlendHalf <= w2)
    BY <1>2, <1>5
  <2> QED
    BY <2>7, <2>8 DEF G
<1>6. CASE 0 <= w2 /\ w2 < 2 * BlendHalf
  <2>1. near = {2}
    <3>1. ~(0 <= w1 /\ w1 < 2 * BlendHalf)
      BY <1>2, <1>6
    <3>2. 2 \in near /\ 1 \notin near
      BY <1>3, <1>6, <3>1
    <3> HIDE DEF w1, w2
    <3> QED
      BY <1>3, <3>2
  <2>2. i = 2
    BY <2>1
  <2> HIDE DEF i
  <2>3. w = BlendWeight(h, MidHalf)
    BY <2>2
  <2>4. w = w2
    BY <1>2, <2>3 DEF BlendWeight
  <2>5. i + 1 = 3
    BY <2>2
  <2> HIDE DEF w
  <2>6. Factor(cells, class, h) = ((2 * BlendHalf - w2) * G(2) + w2 * G(3)) \div (2 * BlendHalf)
    BY <1>1, <2>1, <2>2, <2>4, <2>5
  <2>7. Factor(cells, class, h) = Blended(G(2), G(3), w2)
    BY <2>6 DEF Blended
  <2> HIDE DEF G
  <2>8. ~(w1 < 0) /\ ~(w1 < 2 * BlendHalf) /\ ~(w2 < 0) /\ ~(2 * BlendHalf <= w2)
    BY <1>2, <1>6
  <2> QED
    BY <2>7, <2>8 DEF G
<1>7. CASE ~(0 <= w1 /\ w1 < 2 * BlendHalf) /\ ~(0 <= w2 /\ w2 < 2 * BlendHalf)
  <2>1. near = {}
    BY <1>3, <1>7
  <2>2. Factor(cells, class, h) = GetBias(cells, class, SolarPart(h))
    BY <1>1, <2>1
  <2>3. /\ w1 < 0 => SolarPart(h) = Parts[1]
        /\ 2 * BlendHalf <= w1 /\ w2 < 0 => SolarPart(h) = Parts[2]
        /\ 2 * BlendHalf <= w2 => SolarPart(h) = Parts[3]
    BY <1>2, <1>4
  <2> QED
    BY <1>7, <2>2, <2>3
<1> QED
  BY <1>5, <1>6, <1>7

LEMMA GetBiasIsFactor ==
    ASSUME NEW cells, NEW seen, CellsOK(cells, seen), NEW class, NEW p
    PROVE  AFactor(GetBias(cells, class, p))
<1> DEFINE cell == Get(cells, <<class, p>>, FreshCell)
<1>1. cell.theta \in Int
  BY FreshKnowsNothing DEF Get, CellsOK, CellOK
<1>2. GetBias(cells, class, p) = IF cell.n < BiasMinSamples THEN 1000 ELSE ClampedTheta(cell.theta)
  BY DEF GetBias
<1> HIDE DEF cell
<1>3. AFactor(1000)
  BY BiasAssumption DEF AFactor
<1>4. AFactor(ClampedTheta(cell.theta))
  BY <1>1, Clamped DEF AFactor
<1> QED
  BY <1>2, <1>3, <1>4

\* From one quarter hour to the next the factor moves by no more than a blend's share.
LEMMA FactorRamps ==
    ASSUME NEW cells, NEW class, \A p : AFactor(GetBias(cells, class, p)), NEW h \in Int
    PROVE  /\ AFactor(Factor(cells, class, h))
           /\ Near(Factor(cells, class, h), Factor(cells, class, h + 1))
<1> DEFINE F(x) == Factor(cells, class, x)
           a == GetBias(cells, class, Parts[1])
           b == GetBias(cells, class, Parts[2])
           c == GetBias(cells, class, Parts[3])
           d == 2 * BlendHalf
           W1(x) == x + MidHalf + BlendHalf
           W2(x) == x - MidHalf + BlendHalf
<1>1. \A x \in Int :
         /\ W1(x) < 0 => F(x) = a
         /\ 0 <= W1(x) /\ W1(x) < d => F(x) = Blended(a, b, W1(x))
         /\ d <= W1(x) /\ W2(x) < 0 => F(x) = b
         /\ 0 <= W2(x) /\ W2(x) < d => F(x) = Blended(b, c, W2(x))
         /\ d <= W2(x) => F(x) = c
  BY FactorPieces
<1>2. AFactor(a) /\ AFactor(b) /\ AFactor(c)
  OBVIOUS
<1>3. /\ d \in Int /\ d > 0 /\ \A x \in Int : W1(x) \in Int /\ W2(x) \in Int /\ d <= W1(x) - W2(x)
      /\ \A x \in Int : W1(x + 1) = W1(x) + 1 /\ W2(x + 1) = W2(x) + 1
  BY BiasAssumption
<1> HIDE DEF F, a, b, c, d, W1, W2
<1>4. /\ Blended(a, b, 0) = a /\ Blended(a, b, d) = b
      /\ \A w \in 0..d : AFactor(Blended(a, b, w))
      /\ \A w \in 0..(d - 1) : Near(Blended(a, b, w), Blended(a, b, w + 1))
  BY <1>2, BlendRamps DEF d
<1>5. /\ Blended(b, c, 0) = b /\ Blended(b, c, d) = c
      /\ \A w \in 0..d : AFactor(Blended(b, c, w))
      /\ \A w \in 0..(d - 1) : Near(Blended(b, c, w), Blended(b, c, w + 1))
  BY <1>2, BlendRamps DEF d
<1>6. \A v : AFactor(v) => Near(v, v)
  <2>1. RampStep >= 0
    <3>1. Band \in Int /\ Band >= 0 /\ 2 * BlendHalf \in Int /\ 2 * BlendHalf > 0
      BY BiasAssumption DEF Band
    <3>2. 0 <= Band \div (2 * BlendHalf) /\ Band \div (2 * BlendHalf) \in Int
      BY <3>1, Floored, FlooredBounds
    <3> QED
      BY <3>2 DEF RampStep
  <2> QED
    BY <2>1 DEF Near, AFactor
<1> DEFINE w1 == W1(h)
           w2 == W2(h)
<1>7. w1 \in Int /\ w2 \in Int /\ d <= w1 - w2 /\ W1(h + 1) = w1 + 1 /\ W2(h + 1) = w2 + 1 /\ h + 1 \in Int
  BY <1>3
<1>8. /\ w1 < 0 => F(h) = a
      /\ 0 <= w1 /\ w1 < d => F(h) = Blended(a, b, w1)
      /\ d <= w1 /\ w2 < 0 => F(h) = b
      /\ 0 <= w2 /\ w2 < d => F(h) = Blended(b, c, w2)
      /\ d <= w2 => F(h) = c
  BY <1>1
<1>9. /\ w1 + 1 < 0 => F(h + 1) = a
      /\ 0 <= w1 + 1 /\ w1 + 1 < d => F(h + 1) = Blended(a, b, w1 + 1)
      /\ d <= w1 + 1 /\ w2 + 1 < 0 => F(h + 1) = b
      /\ 0 <= w2 + 1 /\ w2 + 1 < d => F(h + 1) = Blended(b, c, w2 + 1)
      /\ d <= w2 + 1 => F(h + 1) = c
  BY <1>1, <1>7
<1> HIDE DEF w1, w2
<1>10. CASE w1 < 0
  <2>1. F(h) = a /\ F(h + 1) = a
    <3>1. CASE w1 + 1 < 0
      BY <1>8, <1>9, <1>10, <3>1
    <3>2. CASE w1 + 1 = 0
      BY <1>3, <1>4, <1>8, <1>9, <1>10, <3>2
    <3> QED
      BY <1>7, <1>10, <3>1, <3>2
  <2> QED
    BY <1>2, <1>6, <2>1 DEF F
<1>11. CASE 0 <= w1 /\ w1 < d
  <2>1. w1 \in 0..d /\ w1 \in 0..(d - 1)
    BY <1>3, <1>7, <1>11
  <2>2. F(h) = Blended(a, b, w1)
    BY <1>8, <1>11
  <2>3. F(h + 1) = Blended(a, b, w1 + 1)
    <3>1. CASE w1 + 1 < d
      BY <1>7, <1>9, <1>11, <3>1
    <3>2. CASE w1 + 1 = d
      <4>1. w2 + 1 <= 0
        BY <1>3, <1>7, <3>2
      <4>2. CASE w2 + 1 < 0
        BY <1>3, <1>4, <1>9, <3>2, <4>2
      <4>3. CASE w2 + 1 = 0
        BY <1>3, <1>4, <1>5, <1>9, <3>2, <4>3
      <4> QED
        BY <1>7, <4>1, <4>2, <4>3
    <3> QED
      BY <1>3, <1>7, <1>11, <3>1, <3>2
  <2> QED
    BY <1>4, <2>1, <2>2, <2>3 DEF F
<1>12. CASE d <= w1 /\ w2 < 0
  <2>1. F(h) = b /\ F(h + 1) = b
    <3>1. CASE w2 + 1 < 0
      BY <1>3, <1>7, <1>8, <1>9, <1>12, <3>1
    <3>2. CASE w2 + 1 = 0
      BY <1>3, <1>5, <1>7, <1>8, <1>9, <1>12, <3>2
    <3> QED
      BY <1>7, <1>12, <3>1, <3>2
  <2> QED
    BY <1>2, <1>6, <2>1 DEF F
<1>13. CASE 0 <= w2 /\ w2 < d
  <2>1. w2 \in 0..d /\ w2 \in 0..(d - 1)
    BY <1>3, <1>7, <1>13
  <2>2. F(h) = Blended(b, c, w2)
    BY <1>8, <1>13
  <2>3. F(h + 1) = Blended(b, c, w2 + 1)
    <3>1. CASE w2 + 1 < d
      BY <1>7, <1>9, <1>13, <3>1
    <3>2. CASE w2 + 1 = d
      BY <1>3, <1>5, <1>9, <3>2
    <3> QED
      BY <1>3, <1>7, <1>13, <3>1, <3>2
  <2> QED
    BY <1>5, <2>1, <2>2, <2>3 DEF F
<1>14. CASE d <= w2
  <2>1. F(h) = c /\ F(h + 1) = c
    BY <1>3, <1>7, <1>8, <1>9, <1>14
  <2> QED
    BY <1>2, <1>6, <2>1 DEF F
<1> QED
  BY <1>3, <1>7, <1>10, <1>11, <1>12, <1>13, <1>14

\* No day part ends in a step, whatever the cells have learned and however wide the
\* blend is (day_ahead_factor_solar).
THEOREM ServedFactorRampsHolds == BiasSpec => []ServedFactorRamps
<1>1. BiasInv => ServedFactorRamps
  <2> SUFFICES ASSUME BiasInv, bias.cells # NoCells, NEW i \in DOMAIN Classes,
                      NEW h \in (-MidHalf - BlendHalf - 1)..(MidHalf + BlendHalf)
               PROVE  LET a == ServedFactor(Classes[i], h)
                          b == ServedFactor(Classes[i], h + 1)
                          step == (ThetaMax - ThetaMin) \div (2 * BlendHalf) + 1
                      IN a - b <= step /\ b - a <= step /\ a \in ThetaMin..ThetaMax
    BY DEF ServedFactorRamps
  <2> DEFINE class == Classes[i]
             a == ServedFactor(class, h)
             b == ServedFactor(class, h + 1)
  <2>1. h \in Int
    BY BiasAssumption
  <2>2. \A p : AFactor(GetBias(bias.cells, class, p))
    BY GetBiasIsFactor DEF BiasInv
  <2>3. AFactor(a) /\ Near(a, b)
    <3>1. CASE biasOn /\ DOMAIN bias.cells # {}
      BY <2>1, <2>2, <3>1, FactorRamps DEF ServedFactor
    <3>2. CASE ~(biasOn /\ DOMAIN bias.cells # {})
      <4>1. a = 1000 /\ b = 1000
        BY <3>2 DEF ServedFactor
      <4>2. Band \in Int /\ Band >= 0 /\ 2 * BlendHalf \in Int /\ 2 * BlendHalf > 0
        BY BiasAssumption DEF Band
      <4>3. 0 <= Band \div (2 * BlendHalf) /\ Band \div (2 * BlendHalf) \in Int
        BY <4>2, Floored, FlooredBounds
      <4>4. RampStep >= 0
        BY <4>3 DEF RampStep
      <4> QED
        BY <4>1, <4>4, BiasAssumption DEF AFactor, Near
    <3> QED
      BY <3>1, <3>2
  <2> HIDE DEF a, b
  <2>4. a - b <= RampStep /\ b - a <= RampStep /\ a \in ThetaMin..ThetaMax
    BY <2>3, BiasAssumption DEF AFactor, Near
  <2> QED
    BY <2>4 DEF a, b, RampStep, Band
<1> QED
  BY <1>1, BiasInvariant, PTL

-----------------------------------------------------------------------------
(* The shade map: transmittances.                                            *)

Taus == TauMin..TauMax

LEMMA ClampedTauIs ==
    /\ \A t \in Int \cup {Bad} : ClampedTau(t) \in Taus
    /\ \A t \in Taus : ClampedTau(t) = t
    /\ Taus \subseteq Int
BY ShadeAssumption, NullAssumption DEF ClampedTau, Between, Taus

\* The next mean of a bin lies between the last one and the sample; the first is
\* the sample.
LEMMA NextTau ==
    ASSUME NEW old \in Int, NEW w \in Nat, w > 0, NEW t \in Taus, old \in Taus \/ w = 1
    PROVE  LET new == ClampedTau(((w - 1) * old + t) \div w)
           IN /\ new \in Taus
              /\ old <= new \/ t <= new
              /\ new <= old \/ new <= t
              /\ w = 1 => new = t
<1> DEFINE x == (w - 1) * old + t  m == x \div w
<1>1. t \in Int /\ TauMin \in Nat /\ TauMax \in Nat /\ TauMin <= t /\ t <= TauMax
  BY ShadeAssumption DEF Taus
<1>2. CASE w = 1
  <2>1. x = t
    BY <1>1, <1>2
  <2>2. m = t
    BY <1>1, <1>2, <2>1
  <2> QED BY <1>1, <2>2, ClampedTauIs
<1>3. CASE old \in Taus
  <2>1. TauMin <= old /\ old <= TauMax
    BY <1>3, ShadeAssumption DEF Taus
  <2>2. x \in Int /\ m \in Int
        /\ \A k \in Int : (w * k <= x => k <= m) /\ (x < w * k + w => m <= k)
    BY <1>1, FlooredBounds
  <2>3. ASSUME NEW k \in Int, k <= old, k <= t PROVE k <= m
    <3>1. (w - 1) * k <= (w - 1) * old
      BY <2>3
    <3>2. w * k = (w - 1) * k + k
      BY <2>3
    <3> DEFINE a == (w - 1) * k  b == (w - 1) * old
    <3>3. a \in Int /\ b \in Int
      BY <2>3
    <3>4. w * k <= x
      <4> HIDE DEF a, b
      <4>1. a + k <= b + t
        BY ONLY <1>1, <2>3, <3>1, <3>3 DEF a, b
      <4> QED BY <3>2, <4>1 DEF a, b
    <3> QED BY <2>2, <3>4
  <2>4. ASSUME NEW k \in Int, old <= k, t <= k PROVE m <= k
    <3>1. (w - 1) * old <= (w - 1) * k
      BY <2>4
    <3>2. w * k = (w - 1) * k + k
      BY <2>4
    <3> DEFINE a == (w - 1) * k  b == (w - 1) * old
    <3>3. a \in Int /\ b \in Int
      BY <2>4
    <3>4. x < w * k + w
      <4> HIDE DEF a, b
      <4>1. b + t < a + k + w
        BY ONLY <1>1, <2>4, <3>1, <3>3, w \in Nat, w > 0 DEF a, b
      <4> QED BY <3>2, <4>1 DEF a, b
    <3> QED BY <2>2, <3>4
  <2> HIDE DEF m, x
  <2>5. /\ old <= m \/ t <= m
        /\ m <= old \/ m <= t
        /\ TauMin <= m /\ m <= TauMax
    BY <1>1, <2>1, <2>2, <2>3, <2>4
  <2>6. m \in Taus
    BY <1>1, <2>2, <2>5 DEF Taus
  <2>7. ClampedTau(m) = m
    BY <2>6, ClampedTauIs
  <2>8. w = 1 => m = t
    BY <1>1 DEF m, x
  <2> QED BY <2>5, <2>6, <2>7, <2>8 DEF m, x
<1> QED BY <1>2, <1>3

-----------------------------------------------------------------------------
(* A bin and the values behind it.                                           *)

\* What a bin says is what its values say; they are of the nights before.  An
\* empty bin may say anything.
Holds(x, note, night) ==
    /\ x.tau \in Int /\ x.n \in Nat
    /\ IsFiniteSet(DOMAIN note) /\ x.n = Cardinality(DOMAIN note)
    /\ \A k \in DOMAIN note : note[k] \in Taus /\ k[1] \in Int /\ k[1] < night
    /\ x.n > 0 => \E s, t \in ValuesOf(note) : s <= x.tau /\ x.tau <= t

Says(x, note, night) == x.tau \in Taus /\ Holds(x, note, night)

\* A sample more in a bin, and a value more behind it.
NextBin(x, t) ==
    LET w == IF x.n + 1 < ShadeWarmUp THEN x.n + 1 ELSE ShadeWarmUp
    IN [tau |-> ClampedTau(((w - 1) * x.tau + t) \div w), n |-> x.n + 1]

Extended(note, key, t) == [k \in DOMAIN note \cup {key} |-> IF k = key THEN t ELSE note[k]]

LEMMA UpdatedBinIs ==
    ASSUME NEW bins, NEW s
    PROVE  UpdatedBin(bins, s) =
             [b \in DOMAIN bins \cup {s.bin} |->
                 IF b = s.bin THEN NextBin(Get(bins, s.bin, [tau |-> 0, n |-> 0]), s.t) ELSE bins[b]]
BY DEF UpdatedBin, NextBin

LEMMA OneMore ==
    ASSUME NEW night \in Int, NEW x, NEW note, Holds(x, note, night), x.n > 0 => x.tau \in Taus,
           NEW t \in Taus, NEW key, key \notin DOMAIN note, key[1] \in Int, key[1] < night
    PROVE  Says(NextBin(x, t), Extended(note, key, t), night)
<1> DEFINE n == x.n
           w == IF n + 1 < ShadeWarmUp THEN n + 1 ELSE ShadeWarmUp
           tau == ClampedTau(((w - 1) * x.tau + t) \div w)
           more == Extended(note, key, t)
<1>1. ShadeWarmUp \in Nat /\ ShadeWarmUp > 0
  BY ShadeAssumption
<1>2. n \in Nat /\ x.tau \in Int
  BY DEF Holds
<1>3. w \in Nat /\ w > 0 /\ (n = 0 => w = 1)
  <2> HIDE DEF n
  <2> QED BY ONLY <1>1, <1>2 DEF w
<1>4. x.tau \in Taus \/ w = 1
  BY <1>2, <1>3, SMTT(20)
<1>5. NextBin(x, t) = [tau |-> tau, n |-> n + 1]
  BY DEF NextBin
<1>6. /\ DOMAIN more = DOMAIN note \cup {key} /\ more[key] = t
      /\ \A k \in DOMAIN note : more[k] = note[k]
  BY DEF Extended
<1> HIDE DEF w
<1>7. /\ tau \in Taus
      /\ x.tau <= tau \/ t <= tau
      /\ tau <= x.tau \/ tau <= t
      /\ w = 1 => tau = t
  BY <1>2, <1>3, <1>4, NextTau
<1> HIDE DEF tau, more, n
<1>8. IsFiniteSet(DOMAIN more) /\ n + 1 = Cardinality(DOMAIN more)
  <2> DEFINE D == DOMAIN note
  <2>1. IsFiniteSet(D) /\ n = Cardinality(D) /\ key \notin D /\ DOMAIN more = D \cup {key}
    BY <1>6 DEF Holds, n
  <2> HIDE DEF D
  <2>2. IsFiniteSet(D \cup {key}) /\ Cardinality(D \cup {key}) = Cardinality(D) + 1
    BY <2>1, FS_AddElement
  <2> QED BY <2>1, <2>2
<1>9. \A k \in DOMAIN more : more[k] \in Taus /\ k[1] \in Int /\ k[1] < night
  BY <1>6 DEF Holds
<1>10. t \in ValuesOf(more) /\ ValuesOf(note) \subseteq ValuesOf(more)
  BY <1>6 DEF ValuesOf
<1>11. \E s, u \in ValuesOf(more) : s <= tau /\ tau <= u
  <2>1. CASE n = 0
    <3>1. tau = t /\ t <= t
      BY <1>3, <1>7, <2>1, ClampedTauIs
    <3> QED BY <1>10, <3>1
  <2>2. CASE n > 0
    <3>1. PICK a, b \in ValuesOf(note) : a <= x.tau /\ x.tau <= b
      BY <2>2 DEF Holds, n
    <3>2. a \in Int /\ b \in Int /\ t \in Int /\ tau \in Int
      BY <1>7, ClampedTauIs DEF ValuesOf, Holds
    <3>3. (a <= tau \/ t <= tau) /\ (tau <= b \/ tau <= t)
      BY <1>2, <1>7, <3>1, <3>2
    <3>4. a \in ValuesOf(more) /\ b \in ValuesOf(more)
      BY <1>10, <3>1
    <3>5. PICK c \in {a, t} : c <= tau
      BY <3>3
    <3>6. PICK d \in {b, t} : tau <= d
      BY <3>3
    <3>7. c \in ValuesOf(more) /\ d \in ValuesOf(more)
      BY <1>10, <3>4
    <3> QED BY <3>5, <3>6, <3>7
  <2> QED BY <1>2, <2>1, <2>2
<1> DEFINE y == [tau |-> tau, n |-> n + 1]
<1>12. y.tau = tau /\ y.n = n + 1 /\ tau \in Int
  BY <1>7, ClampedTauIs
<1> HIDE DEF y
<1>13. Says(y, more, night)
  BY <1>2, <1>7, <1>8, <1>9, <1>11, <1>12 DEF Says, Holds
<1> QED BY <1>13, <1>5 DEF y, more

-----------------------------------------------------------------------------
(* Sample after sample.                                                      *)

IsAfter(bins, news, m, f) ==
    f = [k \in 0..m |-> IF k = 0 THEN bins ELSE UpdatedBin(f[k - 1], news[k])]

LEMMA AfterExists ==
    ASSUME NEW bins, NEW news, NEW n \in Nat
    PROVE  \E f : IsAfter(bins, news, n, f)
<1> DEFINE A == {m \in 0..n : \E f : IsAfter(bins, news, m, f)}
<1>1. 0 \in A
  <2> DEFINE f == [k \in 0..0 |-> bins]
  <2>1. f = [k \in 0..0 |-> IF k = 0 THEN bins ELSE UpdatedBin(f[k - 1], news[k])]
    OBVIOUS
  <2> HIDE DEF f
  <2>2. IsAfter(bins, news, 0, f)
    BY <2>1 DEF IsAfter
  <2> QED BY <2>2
<1>2. ASSUME NEW m \in 0..n, m + 1 <= n, m \in A PROVE m + 1 \in A
  <2>1. PICK f : IsAfter(bins, news, m, f)
    BY <1>2
  <2> DEFINE g == [k \in 0..(m + 1) |-> IF k = m + 1 THEN UpdatedBin(f[m], news[m + 1]) ELSE f[k]]
             h == [k \in 0..(m + 1) |-> IF k = 0 THEN bins ELSE UpdatedBin(g[k - 1], news[k])]
  <2>2. ASSUME NEW k \in 0..(m + 1) PROVE g[k] = h[k]
    <3>1. CASE k = m + 1
      <4>1. k - 1 = m /\ m \in 0..(m + 1) /\ m # m + 1 /\ k # 0
        BY <1>2, <3>1
      <4>2. g[m] = f[m]
        BY <4>1
      <4> QED BY <3>1, <4>1, <4>2
    <3>2. CASE k # m + 1
      <4>1. k \in 0..m
        BY <1>2, <3>2
      <4>2. f[k] = IF k = 0 THEN bins ELSE UpdatedBin(f[k - 1], news[k])
        BY <2>1, <4>1 DEF IsAfter
      <4>3. k # 0 => k - 1 \in 0..(m + 1) /\ k - 1 # m + 1
        BY <1>2, <4>1
      <4>4. k # 0 => g[k - 1] = f[k - 1]
        BY <4>3
      <4> QED BY <3>2, <4>2, <4>4
    <3> QED BY <3>1, <3>2
  <2>3. g = h
    BY <2>2
  <2>4. IsAfter(bins, news, m + 1, g)
    <3>1. g = [k \in 0..(m + 1) |-> IF k = 0 THEN bins ELSE UpdatedBin(g[k - 1], news[k])]
      BY <2>3
    <3> HIDE DEF g
    <3> QED BY <3>1 DEF IsAfter
  <2>5. m + 1 \in 0..n
    BY <1>2
  <2> HIDE DEF g
  <2> QED BY <2>4, <2>5
<1> HIDE DEF A
<1>3. \A m \in 0..n : m \in A
  BY <1>1, <1>2, Reached
<1> QED BY <1>3 DEF A

LEMMA UpdatedIsLast ==
    ASSUME NEW bins, NEW news, Len(news) \in Nat
    PROVE  \E f : IsAfter(bins, news, Len(news), f) /\ UpdatedBins(bins, news) = f[Len(news)]
<1> DEFINE f == CHOOSE g : IsAfter(bins, news, Len(news), g)
<1>1. IsAfter(bins, news, Len(news), f)
  BY AfterExists
<1>2. UpdatedBins(bins, news) = f[Len(news)]
  BY DEF UpdatedBins, IsAfter
<1> QED BY <1>1, <1>2

\* What the first samples of a night add to the values of a bin.
Fresh(news, b, m) == {<<shadeNight, i>> : i \in {j \in 1..m : news[j].bin = b}}
NoteUpTo(old, news, b, m) ==
    [k \in DOMAIN old \cup Fresh(news, b, m) |-> IF k \in Fresh(news, b, m) THEN news[k[2]].t ELSE old[k]]
BinsUpTo(notes, news, m) == DOMAIN notes \cup {news[i].bin : i \in 1..m}
NotedUpTo(notes, news, m) ==
    [b \in BinsUpTo(notes, news, m) |-> NoteUpTo(Get(notes, b, <<>>), news, b, m)]

LEMMA NotedIsLast ==
    ASSUME NEW notes, NEW news, DOMAIN news = 1..Len(news)
    PROVE  Noted(notes, news) = NotedUpTo(notes, news, Len(news))
BY DEF Noted, NotedUpTo, NoteUpTo, BinsUpTo, Fresh

Earlier(note, night) == \A k \in DOMAIN note : k[1] \in Int /\ k[1] < night

\* The next sample adds a value to its own bin.
LEMMA NoteGrows ==
    ASSUME shadeNight \in Int, NEW old, Earlier(old, shadeNight),
           NEW news, NEW b, NEW m \in Nat
    PROVE  /\ <<shadeNight, m + 1>> \notin DOMAIN NoteUpTo(old, news, b, m)
           /\ news[m + 1].bin = b => NoteUpTo(old, news, b, m + 1) =
                 Extended(NoteUpTo(old, news, b, m), <<shadeNight, m + 1>>, news[m + 1].t)
           /\ news[m + 1].bin # b => NoteUpTo(old, news, b, m + 1) = NoteUpTo(old, news, b, m)
<1> DEFINE note == NoteUpTo(old, news, b, m)
           key == <<shadeNight, m + 1>>
           F == Fresh(news, b, m)
           G == Fresh(news, b, m + 1)
<1>1. /\ key[1] = shadeNight /\ key[2] = m + 1
      /\ key \notin DOMAIN old
  BY DEF Earlier
<1>2. key \notin F
  <2>1. \A i \in 1..m : <<shadeNight, i>> # key
    OBVIOUS
  <2> QED BY <2>1 DEF Fresh
<1>3. G = IF news[m + 1].bin = b THEN F \cup {key} ELSE F
  <2>1. \A j : j \in 1..(m + 1) <=> j \in 1..m \/ j = m + 1
    OBVIOUS
  <2> QED BY <2>1 DEF Fresh
<1>4. note = [k \in DOMAIN old \cup F |-> IF k \in F THEN news[k[2]].t ELSE old[k]]
  BY DEF NoteUpTo
<1>5. NoteUpTo(old, news, b, m + 1) =
        [k \in DOMAIN old \cup G |-> IF k \in G THEN news[k[2]].t ELSE old[k]]
  BY DEF NoteUpTo
<1> HIDE DEF note, F, G
<1>6. key \notin DOMAIN note
  BY <1>1, <1>2, <1>4
<1>7. CASE news[m + 1].bin = b
  <2>1. G = F \cup {key}
    BY <1>3, <1>7
  <2> DEFINE more == [k \in DOMAIN note \cup {key} |-> IF k = key THEN news[m + 1].t ELSE note[k]]
             new == [k \in DOMAIN old \cup G |-> IF k \in G THEN news[k[2]].t ELSE old[k]]
  <2>2. DOMAIN more = DOMAIN new
    BY <1>4, <2>1
  <2>3. ASSUME NEW k \in DOMAIN new PROVE more[k] = new[k]
    <3> HIDE DEF key
    <3> QED BY <1>1, <1>2, <1>4, <2>1, <2>2
  <2>4. more = new
    <3>1. more = [k \in DOMAIN more |-> more[k]] /\ new = [k \in DOMAIN new |-> new[k]]
      OBVIOUS
    <3> HIDE DEF more, new
    <3> QED BY <2>2, <2>3, <3>1
  <2> QED BY <1>5, <1>6, <1>7, <2>4 DEF note, Extended
<1>8. CASE news[m + 1].bin # b
  BY <1>3, <1>4, <1>5, <1>6, <1>8 DEF note
<1> QED BY <1>7, <1>8

Counted(bins, notes, night) ==
    DOMAIN bins = DOMAIN notes /\ \A b \in DOMAIN bins : Says(bins[b], notes[b], night)

\* One sample into the bins of a channel, and its value behind the bin.
LEMMA SampleCounts ==
    ASSUME shadeNight \in Nat,
           NEW notes, \A b \in DOMAIN notes : \A k \in DOMAIN notes[b] : k[1] \in Int /\ k[1] < shadeNight,
           NEW news, NEW m \in Nat, news[m + 1].t \in Taus,
           NEW bins, Counted(bins, NotedUpTo(notes, news, m), shadeNight + 1)
    PROVE  Counted(UpdatedBin(bins, news[m + 1]), NotedUpTo(notes, news, m + 1), shadeNight + 1)
<1> DEFINE bin == news[m + 1].bin
           t == news[m + 1].t
           new == UpdatedBin(bins, news[m + 1])
           before == NotedUpTo(notes, news, m)
           after == NotedUpTo(notes, news, m + 1)
           old(b) == Get(notes, b, <<>>)
           x == Get(bins, bin, [tau |-> 0, n |-> 0])
           key == <<shadeNight, m + 1>>
<1>1. /\ DOMAIN before = BinsUpTo(notes, news, m) /\ DOMAIN after = BinsUpTo(notes, news, m + 1)
      /\ \A b \in DOMAIN before : before[b] = NoteUpTo(old(b), news, b, m)
      /\ \A b \in DOMAIN after : after[b] = NoteUpTo(old(b), news, b, m + 1)
  BY DEF NotedUpTo
<1>2. DOMAIN after = DOMAIN before \cup {bin}
  <2>1. \A j : j \in 1..(m + 1) <=> j \in 1..m \/ j = m + 1
    OBVIOUS
  <2>2. {news[i].bin : i \in 1..(m + 1)} = {news[i].bin : i \in 1..m} \cup {news[m + 1].bin}
    BY <2>1
  <2> QED BY <1>1, <2>2 DEF BinsUpTo
<1>3. ASSUME NEW b
      PROVE  /\ key \notin DOMAIN NoteUpTo(old(b), news, b, m)
             /\ NoteUpTo(old(b), news, b, m + 1) =
                   IF bin = b THEN Extended(NoteUpTo(old(b), news, b, m), key, t)
                   ELSE NoteUpTo(old(b), news, b, m)
  <2>1. \A k \in DOMAIN old(b) : k[1] \in Int /\ k[1] < shadeNight
    BY DEF Get
  <2> DEFINE o == old(b)
             k == <<shadeNight, m + 1>>
  <2>2. shadeNight \in Int /\ Earlier(o, shadeNight)
    BY <2>1 DEF Earlier
  <2> HIDE DEF o, old, k
  <2>3. /\ k \notin DOMAIN NoteUpTo(o, news, b, m)
        /\ news[m + 1].bin = b =>
              NoteUpTo(o, news, b, m + 1) = Extended(NoteUpTo(o, news, b, m), k, news[m + 1].t)
        /\ news[m + 1].bin # b => NoteUpTo(o, news, b, m + 1) = NoteUpTo(o, news, b, m)
    BY <2>2, NoteGrows DEF k
  <2> QED BY <2>3 DEF o, k
<1>4. DOMAIN bins = DOMAIN before /\ \A b \in DOMAIN bins : Says(bins[b], before[b], shadeNight + 1)
  BY DEF Counted
<1>5. new = [b \in DOMAIN bins \cup {bin} |-> IF b = bin THEN NextBin(x, t) ELSE bins[b]]
  BY UpdatedBinIs
<1> DEFINE note == NoteUpTo(old(bin), news, bin, m)
<1>6. Holds(x, note, shadeNight + 1) /\ (x.n > 0 => x.tau \in Taus)
  <2>1. CASE bin \in DOMAIN bins
    <3>1. x = bins[bin] /\ note = before[bin]
      BY <1>1, <1>4, <2>1 DEF Get
    <3> HIDE DEF x, note
    <3> QED BY <1>4, <2>1, <3>1 DEF Says
  <2>2. CASE bin \notin DOMAIN bins
    <3>1. x = [tau |-> 0, n |-> 0]
      BY <2>2 DEF Get
    <3>2. bin \notin BinsUpTo(notes, news, m)
      BY <1>1, <1>4, <2>2
    <3>3. old(bin) = <<>> /\ Fresh(news, bin, m) = {}
      BY <3>2 DEF BinsUpTo, Fresh, Get
    <3>4. DOMAIN old(bin) = {}
      BY <3>3
    <3>5. DOMAIN note = {}
      BY <3>3, <3>4 DEF NoteUpTo
    <3>6. x.n = 0 /\ x.tau = 0
      BY <3>1
    <3> HIDE DEF note, x
    <3> QED BY <3>5, <3>6, FS_EmptySet DEF Holds
  <2> QED BY <2>1, <2>2
<1>7. key \notin DOMAIN note /\ key[1] \in Int /\ key[1] < shadeNight + 1 /\ shadeNight + 1 \in Int
  BY <1>3
<1>8. Says(NextBin(x, t), Extended(note, key, t), shadeNight + 1)
  <2> HIDE DEF x, note, key, old
  <2> DEFINE tt == t
  <2>1. tt \in Taus
    OBVIOUS
  <2> HIDE DEF tt
  <2> DEFINE night == shadeNight + 1
  <2>2. Holds(x, note, night) /\ key[1] < night /\ night \in Int
    BY <1>6, <1>7
  <2> HIDE DEF night
  <2>3. Says(NextBin(x, tt), Extended(note, key, tt), night)
    BY <1>6, <1>7, <2>1, <2>2, OneMore
  <2> QED BY <2>3 DEF tt, night
<1>9. ASSUME NEW b \in DOMAIN new PROVE Says(new[b], after[b], shadeNight + 1)
  <2> HIDE DEF new, before, after, x, key, old, bin
  <2>0. b \in DOMAIN after
    BY <1>2, <1>4, <1>5, <1>9
  <2>1. CASE b = bin
    <3>1. new[b] = NextBin(x, t)
      BY <1>5, <1>9, <2>1
    <3>2. after[b] = Extended(note, key, t)
      BY <1>1, <1>3, <2>0, <2>1
    <3> QED BY <1>8, <3>1, <3>2
  <2>2. CASE b # bin
    <3>1. new[b] = bins[b] /\ b \in DOMAIN bins
      BY <1>5, <1>9, <2>2
    <3>2. after[b] = before[b]
      BY <1>1, <1>3, <1>4, <2>0, <2>2, <3>1
    <3> QED BY <1>4, <3>1, <3>2
  <2> QED BY <2>1, <2>2
<1>10. DOMAIN new = DOMAIN after
  <2> HIDE DEF new, before, after, x
  <2> QED BY <1>2, <1>4, <1>5
<1> HIDE DEF new, after
<1>11. Counted(new, after, shadeNight + 1)
  BY <1>9, <1>10 DEF Counted
<1> QED BY <1>11 DEF new, after

\* A night's samples.
IsNews(news) ==
    /\ Len(news) \in Nat /\ DOMAIN news = 1..Len(news)
    /\ \A i \in DOMAIN news : news[i].t \in Taus

LEMMA NightCounts ==
    ASSUME shadeNight \in Nat, NEW bins, NEW notes, Counted(bins, notes, shadeNight),
           NEW news, IsNews(news)
    PROVE  Counted(UpdatedBins(bins, news), Noted(notes, news), shadeNight + 1)
<1> DEFINE n == Len(news)
<1>1. n \in Nat /\ DOMAIN news = 1..n /\ \A i \in 1..n : news[i].t \in Taus
  BY DEF IsNews
<1>2. PICK f : IsAfter(bins, news, n, f) /\ UpdatedBins(bins, news) = f[n]
  BY <1>1, UpdatedIsLast
<1> HIDE DEF n
<1> DEFINE A == {k \in 0..n : Counted(f[k], NotedUpTo(notes, news, k), shadeNight + 1)}
<1>3. /\ f[0] = bins
      /\ \A k \in 0..n : k + 1 <= n => f[k + 1] = UpdatedBin(f[k], news[k + 1])
  <2>1. 0 \in 0..n
    BY <1>1
  <2>2. ASSUME NEW k \in 0..n, k + 1 <= n PROVE f[k + 1] = UpdatedBin(f[k], news[k + 1])
    <3>1. k + 1 \in 0..n /\ k + 1 # 0 /\ (k + 1) - 1 = k
      BY <1>1, <2>2
    <3>2. f[k + 1] = IF k + 1 = 0 THEN bins ELSE UpdatedBin(f[(k + 1) - 1], news[k + 1])
      BY <1>2, <3>1 DEF IsAfter
    <3> QED BY <3>1, <3>2
  <2> QED BY <1>2, <2>1, <2>2 DEF IsAfter
<1>4. 0 \in A
  <2>1. \A b : Fresh(news, b, 0) = {}
    BY DEF Fresh
  <2>2. BinsUpTo(notes, news, 0) = DOMAIN notes
    BY DEF BinsUpTo
  <2>3. \A b \in DOMAIN notes : DOMAIN NotedUpTo(notes, news, 0)[b] = DOMAIN notes[b]
                               /\ \A k \in DOMAIN notes[b] : NotedUpTo(notes, news, 0)[b][k] = notes[b][k]
    BY <2>1, <2>2 DEF NotedUpTo, NoteUpTo, Get
  <2>4. DOMAIN NotedUpTo(notes, news, 0) = DOMAIN notes
    BY <2>2 DEF NotedUpTo
  <2>5. ASSUME NEW b \in DOMAIN bins PROVE Says(bins[b], NotedUpTo(notes, news, 0)[b], shadeNight + 1)
    <3> DEFINE o == notes[b]  o0 == NotedUpTo(notes, news, 0)[b]  x == bins[b]
    <3>1. Says(x, o, shadeNight) /\ b \in DOMAIN notes
      BY DEF Counted
    <3>2. DOMAIN o0 = DOMAIN o /\ \A k \in DOMAIN o : o0[k] = o[k]
      BY <2>3, <3>1
    <3> HIDE DEF o, o0, x
    <3>3. ValuesOf(o0) = ValuesOf(o)
      BY <3>2 DEF ValuesOf
    <3>4. \A k \in DOMAIN o0 : k[1] \in Int /\ k[1] < shadeNight + 1
      <4>1. ASSUME NEW k \in DOMAIN o0 PROVE k[1] \in Int /\ k[1] < shadeNight + 1
        <5>1. k[1] \in Int /\ k[1] < shadeNight
          BY <3>1, <3>2 DEF Says, Holds
        <5> DEFINE q == k[1]
        <5> HIDE DEF q
        <5>2. q \in Int /\ q < shadeNight
          BY <5>1 DEF q
        <5>3. q < shadeNight + 1
          BY <5>2
        <5> QED BY <5>1, <5>3 DEF q
      <4> QED BY <4>1
    <3>5. Says(x, o0, shadeNight + 1)
      BY <3>1, <3>2, <3>3, <3>4 DEF Says, Holds
    <3> QED BY <3>5 DEF x, o0
  <2>6. Counted(bins, NotedUpTo(notes, news, 0), shadeNight + 1)
    BY <2>4, <2>5 DEF Counted
  <2> QED BY <1>1, <1>3, <2>6
<1>5. ASSUME NEW k \in 0..n, k + 1 <= n, k \in A PROVE k + 1 \in A
  <2>1. k \in Nat /\ news[k + 1].t \in Taus /\ k + 1 \in 0..n
    BY <1>1, <1>5
  <2>2. \A b \in DOMAIN notes : \A j \in DOMAIN notes[b] : j[1] \in Int /\ j[1] < shadeNight
    BY DEF Counted, Says, Holds
  <2>3. Counted(f[k], NotedUpTo(notes, news, k), shadeNight + 1)
    BY <1>5
  <2>4. Counted(UpdatedBin(f[k], news[k + 1]), NotedUpTo(notes, news, k + 1), shadeNight + 1)
    BY <2>1, <2>2, <2>3, SampleCounts
  <2> QED BY <1>3, <1>5, <2>1, <2>4
<1> HIDE DEF A
<1>6. n \in A
  <2>1. \A k \in 0..n : k \in A
    BY <1>1, <1>4, <1>5, Reached
  <2> QED BY <1>1, <2>1
<1> QED BY <1>1, <1>2, <1>6, NotedIsLast DEF A, n

\* What counts a night early counts a night later.
LEMMA CountsLater ==
    ASSUME NEW night \in Nat, NEW bins, NEW notes, Counted(bins, notes, night)
    PROVE  Counted(bins, notes, night + 1)
<1>1. ASSUME NEW b \in DOMAIN bins PROVE Says(bins[b], notes[b], night + 1)
  <2> DEFINE x == bins[b]  o == notes[b]
  <2>1. Says(x, o, night)
    BY DEF Counted
  <2> HIDE DEF x, o
  <2>2. \A k \in DOMAIN o : k[1] \in Int /\ k[1] < night + 1
    <3>1. ASSUME NEW k \in DOMAIN o PROVE k[1] \in Int /\ k[1] < night + 1
      <4>1. k[1] \in Int /\ k[1] < night
        BY <2>1 DEF Says, Holds
      <4> DEFINE q == k[1]
      <4> HIDE DEF q
      <4>2. q \in Int /\ q < night
        BY <4>1 DEF q
      <4>3. q < night + 1
        BY <4>2
      <4> QED BY <4>1, <4>3 DEF q
    <3> QED BY <3>1
  <2>3. Says(x, o, night + 1)
    BY <2>1, <2>2 DEF Says, Holds
  <2> QED BY <2>3 DEF x, o
<1> QED BY <1>1 DEF Counted

-----------------------------------------------------------------------------
(* A night of all planes.                                                    *)

LEMMA SamplesAreNews ==
    ASSUME NEW p, NEW m, NEW measured, NEW doy,
           IsCurve(m.beam), DOMAIN m.beam \subseteq Int,
           \A h \in DOMAIN m.diffuse : m.diffuse[h] \in Int, IsCurve(measured)
    PROVE  IsNews(SamplesOf(p, m, measured, doy))
<1> DEFINE hours == {h \in DOMAIN m.beam \cap DOMAIN measured :
                        m.beam[h] > 0 /\ QuasiClear(p, m, measured, h)}
           order == Sorted(hours)
           n == Cardinality(hours)
           news == SamplesOf(p, m, measured, doy)
<1>1. IsFiniteSet(hours) /\ hours \subseteq Int
  <2>1. hours \subseteq DOMAIN m.beam
    OBVIOUS
  <2> HIDE DEF hours, order, n, news
  <2>2. IsFiniteSet(DOMAIN m.beam)
    BY DEF IsCurve
  <2> QED BY <2>1, <2>2, FS_Subset
<1>2. news = [k \in DOMAIN order |->
                [bin |-> BinOf(SunAt[order[k]], doy), t |-> BeamReferenced(m, measured, order[k])]]
  BY DEF SamplesOf
<1>3. ASSUME NEW h \in hours PROVE BeamReferenced(m, measured, h) \in Taus
  <2> DEFINE light == measured[h]  floor == At(m.diffuse, h)  beam == m.beam[h]
             x == 100 * (light - floor)
  <2>1. light \in Int /\ floor \in Int /\ beam \in Int /\ beam > 0
    BY DEF IsCurve, At, Get
  <2>2. x \in Int
    BY <2>1
  <2>3. BeamReferenced(m, measured, h) = IF light <= floor THEN TauMin ELSE ClampedTau(x \div beam)
    BY DEF BeamReferenced
  <2> HIDE DEF x, light, floor, beam
  <2>4. x \div beam \in Int
    BY <2>1, <2>2, Floored
  <2>5. ClampedTau(x \div beam) \in Taus
    BY <2>4, ClampedTauIs
  <2>6. TauMin \in Taus
    BY ShadeAssumption DEF Taus
  <2> QED BY <2>3, <2>5, <2>6
<1> HIDE DEF hours
<1>4. order \in [1..n -> hours] /\ n \in Nat
  BY <1>1, SortedIsInjective, FS_CardinalityType
<1> HIDE DEF order, n, news
<1>5. DOMAIN news = 1..n /\ \A k \in 1..n : news[k].t = BeamReferenced(m, measured, order[k])
  BY <1>2, <1>4
<1>6. \A k \in 1..n : news[k].t \in Taus
  BY <1>3, <1>4, <1>5
<1>7. news \in Seq({news[k] : k \in 1..n})
  <2>1. news = [k \in 1..n |-> news[k]]
    BY <1>2, <1>4
  <2> DEFINE X == {news[k] : k \in 1..n}
  <2>2. \A k \in 1..n : news[k] \in X
    OBVIOUS
  <2> HIDE DEF X
  <2>3. news \in [1..n -> X]
    BY <2>1, <2>2
  <2> QED BY <1>4, <2>3, SeqDef DEF X
<1>8. Len(news) = n
  BY <1>4, <1>5, <1>7, LenProperties
<1> QED BY <1>4, <1>5, <1>6, <1>8 DEF IsNews, news

\* What a night tells is of planes, and every plane's are samples.
IsNightNews(news) == DOMAIN news \subseteq PlaneSet /\ \A p \in DOMAIN news : IsNews(news[p])

LEMMA NewsAreSamples ==
    ASSUME NEW day \in ShadeKinds
    PROVE  IsNightNews(NewsOf(day))
<1> DEFINE Of(p) == SamplesOf(p, day.modeled[p], day.hourly[p], FirstDoy + shadeNight)
           news == NewsOf(day)
<1>1. /\ DOMAIN news \subseteq {q \in PlaneSet : q \in DOMAIN day.modeled /\ q \in DOMAIN day.hourly}
      /\ \A p \in DOMAIN news : news[p] = Of(p)
  BY DEF NewsOf
<1>2. ASSUME NEW p \in DOMAIN news PROVE IsNews(news[p])
  <2>1. p \in DOMAIN day.modeled /\ p \in DOMAIN day.hourly
    BY <1>1
  <2> DEFINE m == day.modeled[p]  measured == day.hourly[p]  doy == FirstDoy + shadeNight
  <2>2. /\ IsCurve(m.beam) /\ DOMAIN m.beam \subseteq Int
        /\ \A h \in DOMAIN m.diffuse : m.diffuse[h] \in Int
        /\ IsCurve(measured)
    BY <2>1, ShadeAssumption
  <2>3. news[p] = SamplesOf(p, m, measured, doy)
    BY <1>1
  <2> HIDE DEF m, measured, doy, news
  <2> QED BY <2>2, <2>3, SamplesAreNews
<1> HIDE DEF news
<1>3. IsNightNews(news)
  BY <1>1, <1>2 DEF IsNightNews
<1> QED BY <1>3 DEF news

\* The channels after the first planes of a night.
TrainedUpTo(news, i) == {Planes[j] : j \in {x \in 1..i : Planes[x] \in DOMAIN news}}
MapUpTo(news, i) ==
    [c \in DOMAIN shadeMap \cup TrainedUpTo(news, i) |->
        IF c \in TrainedUpTo(news, i) THEN UpdatedBins(Get(shadeMap, c, <<>>), news[c]) ELSE shadeMap[c]]

IsLearned(news, f) ==
    f = [i \in 0..Len(Planes) |->
            IF i = 0 THEN shadeMap
            ELSE IF Planes[i] \notin DOMAIN news THEN f[i - 1]
            ELSE WithSamples(f[i - 1], StoreChannel(Planes[i]), news[Planes[i]])]

LEMMA PlanesAre ==
    /\ Len(Planes) \in Nat /\ DOMAIN Planes = 1..Len(Planes)
    /\ \A i, j \in 1..Len(Planes) : i # j => Planes[i] # Planes[j]
    /\ \A p : p \in PlaneSet <=> \E i \in 1..Len(Planes) : p = Planes[i]
BY SiteAssumption, ShadeAssumption DEF PlaneSet

LEMMA NextPlane ==
    ASSUME NEW news, NEW i \in 1..Len(Planes)
    PROVE  /\ Planes[i] \notin DOMAIN news => MapUpTo(news, i) = MapUpTo(news, i - 1)
           /\ Planes[i] \in DOMAIN news =>
                 MapUpTo(news, i) = WithSamples(MapUpTo(news, i - 1), StoreChannel(Planes[i]), news[Planes[i]])
<1> DEFINE p == Planes[i]
           before == TrainedUpTo(news, i - 1)
           after == TrainedUpTo(news, i)
           old == MapUpTo(news, i - 1)
<1>1. i \in Nat /\ i > 0 /\ Len(Planes) \in Nat /\ i <= Len(Planes)
  BY PlanesAre
<1>2. \A j : j \in 1..i <=> j \in 1..(i - 1) \/ j = i
  BY <1>1
<1>3. p \notin DOMAIN news => after = before
  BY <1>2 DEF TrainedUpTo
<1>4. p \in DOMAIN news => after = before \cup {p}
  BY <1>2 DEF TrainedUpTo
<1>5. p \notin before
  <2>1. \A j \in 1..(i - 1) : j \in 1..Len(Planes) /\ j # i
    BY <1>1
  <2> QED BY <2>1, PlanesAre DEF TrainedUpTo
<1>6. /\ DOMAIN old = DOMAIN shadeMap \cup before
      /\ \A c \in DOMAIN old : old[c] = IF c \in before THEN UpdatedBins(Get(shadeMap, c, <<>>), news[c])
                                        ELSE shadeMap[c]
  BY DEF MapUpTo
<1>7. MapUpTo(news, i) =
        [c \in DOMAIN shadeMap \cup after |->
            IF c \in after THEN UpdatedBins(Get(shadeMap, c, <<>>), news[c]) ELSE shadeMap[c]]
  BY DEF MapUpTo
<1>8. p \notin DOMAIN news => MapUpTo(news, i) = old
  BY <1>3 DEF MapUpTo
<1>9. ASSUME p \in DOMAIN news PROVE MapUpTo(news, i) = WithSamples(old, p, news[p])
  <2>1. Get(old, p, <<>>) = Get(shadeMap, p, <<>>)
    BY <1>5, <1>6 DEF Get
  <2> DEFINE N == WithSamples(old, p, news[p])
             M == [c \in DOMAIN shadeMap \cup after |->
                     IF c \in after THEN UpdatedBins(Get(shadeMap, c, <<>>), news[c]) ELSE shadeMap[c]]
  <2>2. N = [c \in DOMAIN old \cup {p} |-> IF c = p THEN UpdatedBins(Get(shadeMap, p, <<>>), news[p]) ELSE old[c]]
    BY <2>1 DEF WithSamples
  <2> HIDE DEF N, old, p, after, before
  <2>3. DOMAIN shadeMap \cup after = DOMAIN old \cup {p}
    BY <1>4, <1>6, <1>9
  <2>4. ASSUME NEW c \in DOMAIN shadeMap \cup after
        PROVE  (IF c \in after THEN UpdatedBins(Get(shadeMap, c, <<>>), news[c]) ELSE shadeMap[c])
                 = IF c = p THEN UpdatedBins(Get(shadeMap, p, <<>>), news[p]) ELSE old[c]
    BY <1>4, <1>5, <1>6, <1>9, <2>3
  <2>5. M = N
    BY <2>2, <2>3, <2>4
  <2> QED BY <1>7, <2>5 DEF N
<1> QED BY <1>8, <1>9 DEF StoreChannel

LEMMA LearnedIsLast ==
    ASSUME NEW news, DOMAIN news \subseteq PlaneSet, shadeMap = [c \in DOMAIN shadeMap |-> shadeMap[c]]
    PROVE  LearnedMap(news) =
             [c \in DOMAIN shadeMap \cup DOMAIN news |->
                 IF c \in DOMAIN news THEN UpdatedBins(Get(shadeMap, c, <<>>), news[c]) ELSE shadeMap[c]]
<1> DEFINE n == Len(Planes)
           g == [i \in 0..n |-> MapUpTo(news, i)]
           f == CHOOSE h : IsLearned(news, h)
<1>1. n \in Nat
  BY PlanesAre
<1>2. MapUpTo(news, 0) = shadeMap
  <2>1. TrainedUpTo(news, 0) = {}
    BY DEF TrainedUpTo
  <2> QED BY <2>1 DEF MapUpTo
<1>3. IsLearned(news, g)
  <2> DEFINE h == [i \in 0..n |->
                    IF i = 0 THEN shadeMap
                    ELSE IF Planes[i] \notin DOMAIN news THEN g[i - 1]
                    ELSE WithSamples(g[i - 1], StoreChannel(Planes[i]), news[Planes[i]])]
  <2>1. ASSUME NEW i \in 0..n PROVE g[i] = h[i]
    <3>1. CASE i = 0
      BY <1>2, <3>1
    <3>2. CASE i # 0
      <4>1. i \in 1..n /\ i - 1 \in 0..n
        BY <1>1, <3>2
      <4>2. g[i - 1] = MapUpTo(news, i - 1) /\ g[i] = MapUpTo(news, i)
        BY <4>1
      <4>3. h[i] = IF Planes[i] \notin DOMAIN news THEN g[i - 1]
                   ELSE WithSamples(g[i - 1], StoreChannel(Planes[i]), news[Planes[i]])
        BY <3>2
      <4> HIDE DEF g, h
      <4> QED BY <4>1, <4>2, <4>3, NextPlane
    <3> QED BY <3>1, <3>2
  <2>2. g = h
    <3> HIDE DEF n
    <3> QED BY <2>1
  <2> QED BY <2>2 DEF IsLearned
<1>4. IsLearned(news, f)
  <2> HIDE DEF g
  <2> QED BY <1>3
<1>5. LearnedMap(news) = f[n]
  BY DEF LearnedMap, IsLearned
<1> HIDE DEF f, g, n
<1> DEFINE A == {i \in 0..n : f[i] = MapUpTo(news, i)}
<1>6. 0 \in A
  BY <1>1, <1>2, <1>4 DEF IsLearned, n
<1>7. ASSUME NEW i \in 0..n, i + 1 <= n, i \in A PROVE i + 1 \in A
  <2> DEFINE j == i + 1
  <2>1. j \in 1..n /\ j \in 0..n /\ j # 0 /\ j - 1 = i
    BY <1>1, <1>7
  <2>2. f[j] = IF Planes[j] \notin DOMAIN news THEN f[j - 1]
               ELSE WithSamples(f[j - 1], StoreChannel(Planes[j]), news[Planes[j]])
    <3> HIDE DEF j
    <3> QED BY <1>4, <2>1 DEF IsLearned, n
  <2>3. f[j - 1] = MapUpTo(news, j - 1)
    BY <1>7, <2>1
  <2> HIDE DEF j
  <2>4. j \in 1..Len(Planes)
    BY <2>1 DEF n
  <2>5. f[j] = MapUpTo(news, j)
    BY <2>2, <2>3, <2>4, NextPlane
  <2>6. j \in A
    BY <2>1, <2>5
  <2> QED BY <2>6 DEF j
<1> HIDE DEF A
<1>8. n \in A
  <2>1. \A k \in 0..n : k \in A
    BY <1>1, <1>6, <1>7, Reached
  <2> QED BY <1>1, <2>1
<1>9. TrainedUpTo(news, n) = DOMAIN news
  <2>1. \A c \in DOMAIN news : \E j \in 1..n : c = Planes[j]
    BY PlanesAre DEF n
  <2> QED BY <2>1 DEF TrainedUpTo
<1> QED BY <1>5, <1>8, <1>9 DEF A, MapUpTo

-----------------------------------------------------------------------------
(* The whole map.                                                            *)

Known(map, notes, night) ==
    /\ map = [c \in DOMAIN map |-> map[c]]
    /\ DOMAIN map = DOMAIN notes
    /\ \A c \in DOMAIN map : IsFiniteSet(DOMAIN map[c]) /\ Counted(map[c], notes[c], night)

LEMMA KnownLater ==
    ASSUME NEW night \in Nat, NEW map, NEW notes, Known(map, notes, night)
    PROVE  Known(map, notes, night + 1)
BY CountsLater DEF Known

LEMMA NothingIsKnown == \A night : Known(NoSamples, NoSamples, night)
BY DEF Known, NoSamples

\* A channel that is not there yet is empty.
LEMMA CountedOrEmpty ==
    ASSUME NEW map, NEW notes, NEW night, Known(map, notes, night), NEW c
    PROVE  /\ Counted(Get(map, c, <<>>), Get(notes, c, <<>>), night)
           /\ IsFiniteSet(DOMAIN Get(map, c, <<>>))
<1>1. CASE c \in DOMAIN map
  BY <1>1 DEF Known, Get
<1>2. CASE c \notin DOMAIN map
  <2>1. Get(map, c, <<>>) = <<>> /\ Get(notes, c, <<>>) = <<>>
    BY <1>2 DEF Known, Get
  <2>2. DOMAIN <<>> = {}
    OBVIOUS
  <2> QED BY <2>1, <2>2, FS_EmptySet DEF Counted
<1> QED BY <1>1, <1>2

\* A night is told of finitely many bins.
LEMMA NotedIsFinite ==
    ASSUME NEW notes, IsFiniteSet(DOMAIN notes), NEW news, IsNews(news)
    PROVE  IsFiniteSet(DOMAIN Noted(notes, news))
<1> DEFINE told == {news[i].bin : i \in DOMAIN news}
           f == [i \in DOMAIN news |-> news[i].bin]
<1>1. IsFiniteSet(DOMAIN news)
  BY FS_Interval DEF IsNews
<1>2. f \in Surjection(DOMAIN news, told)
  BY DEF Surjection
<1> HIDE DEF f, told
<1>3. IsFiniteSet(told)
  BY <1>1, <1>2, FS_Surjection
<1>4. IsFiniteSet(DOMAIN notes \cup told)
  BY <1>3, FS_Union
<1> QED BY <1>4 DEF Noted, told

LEMMA NightIsKnown ==
    ASSUME shadeNight \in Nat, Known(shadeMap, samples, shadeNight), NEW news, IsNightNews(news)
    PROVE  Known(LearnedMap(news), Remembered(news), shadeNight + 1)
<1> DEFINE map == LearnedMap(news)
           notes == Remembered(news)
<1>1. map = [c \in DOMAIN shadeMap \cup DOMAIN news |->
               IF c \in DOMAIN news THEN UpdatedBins(Get(shadeMap, c, <<>>), news[c]) ELSE shadeMap[c]]
  BY LearnedIsLast DEF IsNightNews, Known
<1>2. notes = [c \in DOMAIN samples \cup DOMAIN news |->
                 IF c \in DOMAIN news THEN Noted(Get(samples, c, <<>>), news[c]) ELSE samples[c]]
  BY DEF Remembered
<1> HIDE DEF map, notes
<1>3. DOMAIN map = DOMAIN notes /\ DOMAIN map = DOMAIN shadeMap \cup DOMAIN news
  BY <1>1, <1>2 DEF Known
<1>4. ASSUME NEW c \in DOMAIN map
      PROVE  IsFiniteSet(DOMAIN map[c]) /\ Counted(map[c], notes[c], shadeNight + 1)
  <2>1. CASE c \in DOMAIN news
    <3> DEFINE bins == Get(shadeMap, c, <<>>)  old == Get(samples, c, <<>>)  ns == news[c]
    <3>1. Counted(bins, old, shadeNight) /\ IsFiniteSet(DOMAIN bins)
      BY CountedOrEmpty
    <3>2. IsNews(ns)
      BY <2>1 DEF IsNightNews
    <3>3. map[c] = UpdatedBins(bins, ns) /\ notes[c] = Noted(old, ns)
      BY <1>1, <1>2, <1>3, <2>1
    <3> HIDE DEF bins, old, ns
    <3>4. Counted(UpdatedBins(bins, ns), Noted(old, ns), shadeNight + 1)
      BY <3>1, <3>2, NightCounts
    <3>5. IsFiniteSet(DOMAIN Noted(old, ns))
      BY <3>1, <3>2, NotedIsFinite DEF Counted
    <3> QED BY <3>3, <3>4, <3>5 DEF Counted
  <2>2. CASE c \notin DOMAIN news
    <3> DEFINE bins == shadeMap[c]  old == samples[c]  night == shadeNight
    <3>1. /\ map[c] = bins /\ notes[c] = old /\ Counted(bins, old, night) /\ night \in Nat
          /\ IsFiniteSet(DOMAIN bins)
      BY <1>1, <1>2, <1>3, <2>2 DEF Known
    <3> HIDE DEF bins, old, night
    <3>2. Counted(bins, old, night + 1)
      BY <3>1, CountsLater
    <3> QED BY <3>1, <3>2 DEF night
  <2> QED BY <2>1, <2>2
<1>5. map = [c \in DOMAIN map |-> map[c]]
  BY <1>1
<1> QED BY <1>3, <1>4, <1>5 DEF Known, map, notes

-----------------------------------------------------------------------------
(* A bootstrap file.                                                         *)

FileNotes(file) ==
    [c \in DOMAIN file |-> [b \in DOMAIN file[c] |->
        [k \in {-1} \X (1..Capped(file)[c][b].n) |-> Capped(file)[c][b].tau]]]

LEMMA FileKeys ==
    ASSUME NEW n \in Nat
    PROVE  /\ IsFiniteSet({-1} \X (1..n)) /\ Cardinality({-1} \X (1..n)) = n
           /\ \A k \in {-1} \X (1..n) : k[1] = -1
<1>1. IsFiniteSet(1..n) /\ Cardinality(1..n) = n
  BY FS_Interval
<1>2. IsFiniteSet({-1}) /\ Cardinality({-1}) = 1
  BY FS_Singleton
<1> DEFINE S == {-1}  T == 1..n
<1> HIDE DEF S, T
<1>3. IsFiniteSet(S \X T) /\ Cardinality(S \X T) = Cardinality(S) * Cardinality(T)
  BY <1>1, <1>2, FS_Product DEF S, T
<1>4. Cardinality(S \X T) = n
  BY <1>1, <1>2, <1>3 DEF S, T
<1>5. \A k \in {-1} \X (1..n) : k[1] = -1
  OBVIOUS
<1> QED BY <1>3, <1>4, <1>5 DEF S, T

LEMMA FileIsKnown ==
    ASSUME NEW file \in ShadeImports, NEW night \in Nat
    PROVE  Known(Capped(file), FileNotes(file), night)
<1> DEFINE map == Capped(file)  notes == FileNotes(file)
<1>1. /\ map = [c \in DOMAIN map |-> map[c]]
      /\ DOMAIN map = DOMAIN file /\ DOMAIN notes = DOMAIN file
      /\ \A c \in DOMAIN file : DOMAIN map[c] = DOMAIN file[c] /\ DOMAIN notes[c] = DOMAIN file[c]
      /\ \A c \in DOMAIN file : IsFiniteSet(DOMAIN file[c])
  BY ShadeAssumption DEF Capped, FileNotes
<1>2. ASSUME NEW c \in DOMAIN file, NEW b \in DOMAIN file[c]
      PROVE  Says(map[c][b], notes[c][b], night)
  <2> DEFINE x == map[c][b]  o == notes[c][b]
             n == Between(0, file[c][b].n, BootstrapMaxN)  tau == ClampedTau(file[c][b].tau)
  <2>1. x = [tau |-> tau, n |-> n] /\ o = [k \in {-1} \X (1..x.n) |-> x.tau]
    BY DEF Capped, FileNotes
  <2>2. file[c][b].n \in Int /\ file[c][b].tau \in Int \cup {Bad} /\ BootstrapMaxN \in Nat
    BY ShadeAssumption
  <2>3. n \in Nat
    BY <2>2 DEF Between
  <2>4. tau \in Taus
    BY <2>2, ClampedTauIs
  <2> HIDE DEF n, tau
  <2>5. x.n = n /\ x.tau = tau /\ o = [k \in {-1} \X (1..n) |-> tau]
    BY <2>1
  <2> HIDE DEF x, o
  <2>6. /\ IsFiniteSet(DOMAIN o) /\ x.n = Cardinality(DOMAIN o)
        /\ \A k \in DOMAIN o : o[k] = tau /\ k[1] = -1
    BY <2>3, <2>5, FileKeys
  <2>7. ASSUME n > 0 PROVE tau \in ValuesOf(o)
    <3>1. <<-1, 1>> \in DOMAIN o
      BY <2>3, <2>5, <2>7
    <3> QED BY <2>6, <3>1 DEF ValuesOf
  <2>8. tau \in Int /\ tau <= tau
    BY <2>4, ClampedTauIs
  <2>9. ASSUME NEW k \in DOMAIN o PROVE k[1] \in Int /\ k[1] < night
    <3>1. k[1] = -1
      BY <2>6
    <3> DEFINE q == k[1]
    <3> HIDE DEF q
    <3>2. q = -1
      BY <3>1 DEF q
    <3>3. q \in Int /\ q < night
      BY <3>2
    <3> QED BY <3>3 DEF q
  <2>10. Holds(x, o, night)
    BY <2>3, <2>4, <2>5, <2>6, <2>7, <2>8, <2>9 DEF Holds
  <2>11. Says(x, o, night)
    BY <2>4, <2>5, <2>10 DEF Says
  <2> QED BY <2>11 DEF x, o
<1> HIDE DEF map, notes
<1>3. Known(map, notes, night)
  BY <1>1, <1>2 DEF Known, Counted
<1> QED BY <1>3 DEF map, notes

-----------------------------------------------------------------------------
(* What a plane reads.                                                       *)

Sources(p) == {q \in PlaneSet : grouping[q] = grouping[p]} \cup {grouping[p]}

LEMMA SourcesAreFinite == ASSUME NEW p PROVE IsFiniteSet(Sources(p))
<1>1. IsFiniteSet(PlaneSet)
  BY SiteAssumption, ListIsFinite DEF PlaneSet
<1>2. IsFiniteSet({q \in PlaneSet : grouping[q] = grouping[p]}) /\ IsFiniteSet({grouping[p]})
  BY <1>1, FS_Subset, FS_Singleton
<1> QED BY <1>2, FS_Union DEF Sources

\* The sources that are learned are the pool, each at one place.
LEMMA PoolIsSources ==
    ASSUME NEW map, NEW p
    PROVE  LET pool == PoolOf(map, grouping, p)
           IN /\ IsFiniteSet(DOMAIN pool)
              /\ \A i \in DOMAIN pool : pool[i] \in Sources(p)
              /\ \A c \in Sources(p) \cap DOMAIN map :
                    \E i \in DOMAIN pool : {j \in DOMAIN pool : pool[j] = c} = {i}
<1> DEFINE mates == GroupMates(grouping, p)
           own == grouping[p]
           merged == own \in DOMAIN map /\ \A i \in mates : Planes[i] # own
           places == mates \cup {x \in {0} : merged}
           pool == PoolOf(map, grouping, p)
<1>1. pool = [i \in places |-> IF i = 0 THEN own ELSE Planes[i]]
  BY DEF PoolOf, PoolAt
<1>2. /\ \A i \in mates : i \in 1..Len(Planes) /\ i # 0 /\ grouping[Planes[i]] = own /\ Planes[i] \in PlaneSet
      /\ \A q \in PlaneSet : grouping[q] = own => \E i \in mates : q = Planes[i]
      /\ \A i, j \in mates : i # j => Planes[i] # Planes[j]
  BY PlanesAre DEF GroupMates, PlaneSet
<1> HIDE DEF mates, own
<1>3. IsFiniteSet(places)
  <2> HIDE DEF places
  <2>1. Len(Planes) \in Int /\ 1 \in Int
    BY PlanesAre
  <2> DEFINE n == Len(Planes)
  <2> HIDE DEF n
  <2>2. IsFiniteSet(1..n)
    BY <2>1, FS_Interval DEF n
  <2>3. IsFiniteSet(1..n) /\ IsFiniteSet({0})
    BY <2>2, FS_Singleton
  <2>4. IsFiniteSet((1..n) \cup {0})
    BY <2>3, FS_Union
  <2>5. places \subseteq (1..n) \cup {0}
    BY <1>2 DEF places, n
  <2> QED BY <2>4, <2>5, FS_Subset
<1>4. /\ \A q \in PlaneSet : grouping[q] = own => q \in Sources(p)
      /\ own \in Sources(p)
      /\ \A c \in Sources(p) : c = own \/ (c \in PlaneSet /\ grouping[c] = own)
  BY DEF Sources, own
<1>5. DOMAIN pool = places /\ \A i \in places : pool[i] = IF i = 0 THEN own ELSE Planes[i]
  BY <1>1
<1> HIDE DEF pool
<1>6. \A i \in DOMAIN pool : pool[i] \in Sources(p)
  BY <1>2, <1>4, <1>5
<1>7. ASSUME NEW c \in Sources(p) \cap DOMAIN map
      PROVE  \E i \in DOMAIN pool : {j \in DOMAIN pool : pool[j] = c} = {i}
  <2>1. CASE \E i \in mates : c = Planes[i]
    <3>1. PICK i \in mates : c = Planes[i]
      BY <2>1
    <3>2. ASSUME NEW j \in places, pool[j] = c PROVE j = i
      <4>1. CASE j = 0
        <5>1. c = own /\ merged
          BY <1>2, <1>5, <3>2, <4>1
        <5> QED BY <3>1, <5>1
      <4>2. CASE j # 0
        <5>1. j \in mates /\ pool[j] = Planes[j]
          BY <1>5, <3>2, <4>2
        <5> QED BY <1>2, <3>1, <3>2, <5>1
      <4> QED BY <4>1, <4>2
    <3>3. i \in places /\ pool[i] = c
      BY <1>2, <1>5, <3>1
    <3> HIDE DEF places
    <3> QED BY <1>5, <3>2, <3>3
  <2>2. CASE ~\E i \in mates : c = Planes[i]
    <3>1. c = own
      BY <1>2, <1>4, <2>2
    <3>2. merged
      BY <2>2, <3>1
    <3>3. 0 \in places /\ pool[0] = c
      BY <1>5, <3>1, <3>2
    <3>4. ASSUME NEW j \in places, pool[j] = c PROVE j = 0
      BY <1>5, <2>2, <3>4
    <3> HIDE DEF places
    <3> QED BY <1>5, <3>3, <3>4
  <2> QED BY <2>1, <2>2
<1>8. IsFiniteSet(DOMAIN pool)
  BY <1>3, <1>5
<1> QED BY <1>6, <1>7, <1>8 DEF pool

\* The pool counts what its sources have seen, once.
LEMMA PoolCounts ==
    ASSUME NEW map, NEW notes, NEW night, Known(map, notes, night), NEW p, NEW bin
    PROVE  PooledN(map, bin, PoolOf(map, grouping, p))
             = SumFunctionOnSet([c \in DOMAIN notes |-> SampleCount(notes[c], bin)],
                                Sources(p) \cap DOMAIN notes)
<1> DEFINE pool == PoolOf(map, grouping, p)
           S == Sources(p) \cap DOMAIN notes
           f == [c \in DOMAIN notes |-> SampleCount(notes[c], bin)]
<1>1. /\ IsFiniteSet(DOMAIN pool)
      /\ \A i \in DOMAIN pool : pool[i] \in Sources(p)
      /\ \A c \in Sources(p) \cap DOMAIN map :
            \E i \in DOMAIN pool : {j \in DOMAIN pool : pool[j] = c} = {i}
  BY PoolIsSources
<1> HIDE DEF pool
<1> DEFINE Has(c) == c \in DOMAIN map /\ bin \in DOMAIN map[c] /\ map[c][bin].n > 0
           I == {j \in DOMAIN pool : Has(pool[j])}
           g == [i \in I |-> map[pool[i]][bin].n]
           class == [i \in I |-> pool[i]]
           In(c) == {i \in I : class[i] = c}
           parts == [c \in S |-> SumFunctionOnSet(g, In(c))]
<1>2. PooledN(map, bin, pool) = SumFunctionOnSet(g, I)
  <2> DEFINE con == Contributions(map, bin, pool)
  <2>1. con = [i \in I |-> map[pool[i]][bin]]
    BY DEF Contributions
  <2>2. [i \in DOMAIN con |-> con[i].n] = g
    BY <2>1
  <2>3. SumFunction(g) = SumFunctionOnSet(g, DOMAIN g) /\ DOMAIN g = I
    BY DEF SumFunction
  <2> HIDE DEF g, I
  <2> QED BY <2>2, <2>3 DEF PooledN
<1>3. DOMAIN map = DOMAIN notes
  BY DEF Known
<1>4. ASSUME NEW c \in DOMAIN map
      PROVE  /\ Has(c) => f[c] = map[c][bin].n /\ f[c] \in Int
             /\ ~Has(c) => f[c] = 0
  <2>1. Counted(map[c], notes[c], night) /\ f[c] = SampleCount(notes[c], bin)
    BY <1>3 DEF Known
  <2>2. CASE bin \in DOMAIN map[c]
    <3> DEFINE x == map[c][bin]  o == notes[c][bin]
    <3>1. Says(x, o, night) /\ f[c] = Cardinality(DOMAIN o)
      BY <2>1, <2>2 DEF Counted, SampleCount
    <3> HIDE DEF x, o
    <3>2. f[c] = x.n /\ x.n \in Nat
      BY <3>1 DEF Says, Holds
    <3> QED BY <2>2, <3>2 DEF x
  <2>3. CASE bin \notin DOMAIN map[c]
    BY <2>1, <2>3 DEF Counted, SampleCount
  <2> QED BY <2>2, <2>3
<1>5. IsFiniteSet(I) /\ IsFiniteSet(S)
  <2>1. I \subseteq DOMAIN pool /\ S \subseteq Sources(p)
    OBVIOUS
  <2> HIDE DEF I, S
  <2> QED BY <1>1, <2>1, SourcesAreFinite, FS_Subset
<1>6. \A i \in I : /\ pool[i] \in DOMAIN map /\ Has(pool[i]) /\ pool[i] \in S
                   /\ g[i] = f[pool[i]] /\ g[i] \in Int /\ class[i] = pool[i] /\ i \in DOMAIN pool
  <2> HIDE DEF f
  <2> QED BY <1>1, <1>3, <1>4
<1>7. ASSUME NEW c \in S PROVE parts[c] = f[c]
  <2>1. c \in DOMAIN map
    BY <1>3
  <2>2. PICK i \in DOMAIN pool : {j \in DOMAIN pool : pool[j] = c} = {i}
    BY <1>1, <1>3
  <2>3. parts[c] = SumFunctionOnSet(g, In(c))
    OBVIOUS
  <2>4. CASE Has(c)
    <3>1. In(c) = {i} /\ i \in I /\ pool[i] = c
      BY <2>2, <2>4
    <3> DEFINE T == {i}
    <3>2. IsFiniteSet(T) /\ i \in T /\ T \ {i} = {} /\ \A x \in T : g[x] \in Int
      BY <1>6, <3>1, FS_Singleton
    <3> HIDE DEF T, g, f, I
    <3>3. SumFunctionOnSet(g, T) = g[i] + SumFunctionOnSet(g, T \ {i})
      BY <3>2, SumRemove
    <3>4. SumFunctionOnSet(g, {}) = 0
      BY FS_EmptySet, SumFirst
    <3>5. g[i] = f[c] /\ g[i] \in Int
      BY <1>6, <3>1
    <3> DEFINE rest == SumFunctionOnSet(g, T \ {i})
    <3>6. rest = 0
      BY <3>2, <3>4
    <3> HIDE DEF rest
    <3>7. SumFunctionOnSet(g, T) = g[i] + rest
      BY <3>3 DEF rest
    <3> DEFINE one == g[i]  all == SumFunctionOnSet(g, T)
    <3> HIDE DEF one, all
    <3>8. all = one + rest /\ one \in Int
      BY <3>5, <3>7 DEF one, all
    <3>9. all = one
      BY <3>6, <3>8
    <3>10. SumFunctionOnSet(g, T) = f[c]
      BY <3>5, <3>9 DEF one, all
    <3>11. In(c) = T
      BY <3>1 DEF T
    <3> QED BY <2>3, <3>10, <3>11
  <2>5. CASE ~Has(c)
    <3>1. In(c) = {}
      BY <1>6, <2>5
    <3> HIDE DEF g, f, I, Has
    <3>2. SumFunctionOnSet(g, {}) = 0
      BY FS_EmptySet, SumFirst
    <3> QED BY <1>4, <2>1, <2>3, <2>5, <3>1, <3>2
  <2> QED BY <2>4, <2>5
<1> DEFINE total == SumFunction([c \in S |-> SumFunctionOnSet(g, {x \in I : class[x] = c})])
<1>8. total = SumFunctionOnSet(g, I)
  <2>1. /\ \A x \in I : g[x] \in Int /\ class[x] \in S
    BY <1>6
  <2> HIDE DEF I, S, g, class
  <2> QED BY <1>5, <2>1, SumByClass
<1>9. total = SumFunctionOnSet(parts, S)
  <2>1. total = SumFunction(parts) /\ DOMAIN parts = S
    OBVIOUS
  <2> HIDE DEF parts, total, S
  <2> QED BY <2>1 DEF SumFunction
<1>10. SumFunctionOnSet(parts, S) = SumFunctionOnSet(f, S)
  <2> HIDE DEF parts, f, S
  <2> QED BY <1>5, <1>7, SumCong
<1> QED BY <1>2, <1>8, <1>9, <1>10 DEF pool

-----------------------------------------------------------------------------
ShadeInv ==
    /\ shadeNight \in Nat
    /\ Known(shadeMap, samples, shadeNight)
    /\ snapshot # Null => Known(snapshot.map, snapshot.samples, shadeNight)

THEOREM ShadeInvariant == ShadeSpec => []ShadeInv
<1>1. ShadeInit => ShadeInv
  BY NothingIsKnown DEF ShadeInit, ShadeInv
<1>2. ShadeInv /\ [ShadeNext]_shadeVars => ShadeInv'
  <2> SUFFICES ASSUME ShadeInv, [ShadeNext]_shadeVars PROVE ShadeInv'
    OBVIOUS
  <2>0. shadeNight \in Nat /\ Known(shadeMap, samples, shadeNight)
    BY DEF ShadeInv
  <2>1. ASSUME NEW day \in ShadeKinds, TrainShademap(day) PROVE ShadeInv'
    <3> DEFINE news == NewsOf(day)
    <3>1. /\ shadeNight' = shadeNight + 1 /\ snapshot' = [map |-> shadeMap, samples |-> samples]
          /\ shadeMap' = LearnedMap(news) /\ samples' = Remembered(news)
      BY <2>1 DEF TrainShademap
    <3>2. IsNightNews(news)
      BY NewsAreSamples
    <3> HIDE DEF news
    <3>3. Known(LearnedMap(news), Remembered(news), shadeNight + 1)
      BY <2>0, <3>2, NightIsKnown
    <3>4. Known(shadeMap, samples, shadeNight + 1)
      BY <2>0, KnownLater
    <3>5. snapshot'.map = shadeMap /\ snapshot'.samples = samples
      BY <3>1
    <3>6. Known(shadeMap, samples, shadeNight)'
      BY <3>1, <3>3
    <3>7. (snapshot # Null => Known(snapshot.map, snapshot.samples, shadeNight))'
      BY <3>1, <3>4, <3>5
    <3> QED BY <2>0, <3>1, <3>6, <3>7 DEF ShadeInv
  <2>2. CASE ImportShade
    <3>1. PICK file \in ShadeImports :
            /\ shadeMap' = Capped(file) /\ samples' = FileNotes(file)
            /\ snapshot' = [map |-> shadeMap, samples |-> samples] /\ shadeNight' = shadeNight
      BY <2>2 DEF ImportShade, FileNotes
    <3>2. Known(Capped(file), FileNotes(file), shadeNight)
      BY <2>0, FileIsKnown
    <3>3. snapshot'.map = shadeMap /\ snapshot'.samples = samples
      BY <3>1
    <3>4. Known(shadeMap, samples, shadeNight)'
      BY <3>1, <3>2
    <3>5. (snapshot # Null => Known(snapshot.map, snapshot.samples, shadeNight))'
      BY <2>0, <3>1, <3>3
    <3> QED BY <2>0, <3>1, <3>4, <3>5 DEF ShadeInv
  <2>3. CASE RollbackShade
    BY <2>3 DEF RollbackShade, ShadeInv
  <2>4. CASE Regroup
    BY <2>4 DEF Regroup, ShadeInv
  <2>5. CASE SwitchSlow
    BY <2>5 DEF SwitchSlow, ShadeInv
  <2>6. CASE UNCHANGED shadeVars
    BY <2>6 DEF shadeVars, ShadeInv
  <2> QED BY <2>1, <2>2, <2>3, <2>4, <2>5, <2>6 DEF ShadeNext, Night
<1> QED BY <1>1, <1>2, PTL DEF ShadeSpec

THEOREM SamplesCountedOnceHolds == ShadeSpec => []SamplesCountedOnce
<1>1. ShadeInv => SamplesCountedOnce
  <2> SUFFICES ASSUME ShadeInv PROVE SamplesCountedOnce
    OBVIOUS
  <2>1. Known(shadeMap, samples, shadeNight)
    BY DEF ShadeInv
  <2>2. DOMAIN shadeMap = DOMAIN samples
    BY <2>1 DEF Known
  <2>3. ASSUME NEW c \in DOMAIN shadeMap
        PROVE  /\ DOMAIN shadeMap[c] = DOMAIN samples[c]
               /\ \A b \in DOMAIN shadeMap[c] :
                     /\ shadeMap[c][b].n = Cardinality(DOMAIN samples[c][b])
                     /\ shadeMap[c][b].n > 0 =>
                           \E s, t \in ValuesOf(samples[c][b]) :
                              s <= shadeMap[c][b].tau /\ shadeMap[c][b].tau <= t
    BY <2>1 DEF Known, Counted, Says, Holds
  <2>4. ASSUME NEW p \in PlaneSet, NEW h \in DOMAIN SunAt
        PROVE  LET bin == BinOf(SunAt[h], FirstDoy)
                   sources == {q \in PlaneSet : grouping[q] = grouping[p]} \cup {grouping[p]}
               IN PooledN(shadeMap, bin, PoolOf(shadeMap, grouping, p))
                     = SumFunctionOnSet([c \in DOMAIN samples |-> SampleCount(samples[c], bin)],
                                        sources \cap DOMAIN samples)
    <3> DEFINE bin == BinOf(SunAt[h], FirstDoy)
    <3> HIDE DEF bin
    <3>1. PooledN(shadeMap, bin, PoolOf(shadeMap, grouping, p))
             = SumFunctionOnSet([c \in DOMAIN samples |-> SampleCount(samples[c], bin)],
                                Sources(p) \cap DOMAIN samples)
      BY <2>1, PoolCounts
    <3> QED BY <3>1 DEF bin, Sources
  <2> QED BY <2>2, <2>3, <2>4 DEF SamplesCountedOnce
<1> QED BY <1>1, ShadeInvariant, PTL

-----------------------------------------------------------------------------
(* Suggested groups: the order of the pairs.                                 *)

\* In a total order on a finite set every element has its own rank.
UpToIn(S, R, x) == {q \in S : q = x \/ <<q, x>> \in R}

LEMMA Ranked ==
    ASSUME NEW S, IsFiniteSet(S), NEW R,
           \A x, y \in S : x # y => <<x, y>> \in R \/ <<y, x>> \in R,
           \A x \in S : <<x, x>> \notin R,
           \A x, y, z \in S : <<x, y>> \in R /\ <<y, z>> \in R => <<x, z>> \in R
    PROVE  \E f \in Surjection(S, 1..Cardinality(S)) :
              /\ \A x, y \in S : f[x] = f[y] => x = y
              /\ \A x \in S : f[x] = Cardinality(UpToIn(S, R, x))
<1> DEFINE n == Cardinality(S)
           UpTo(x) == {q \in S : q = x \/ <<q, x>> \in R}
           f == [x \in S |-> Cardinality(UpTo(x))]
<1>1. n \in Nat
  BY FS_CardinalityType
<1>2. IsFiniteSet(1..n) /\ Cardinality(1..n) = n
  BY <1>1, FS_Interval
<1>3. ASSUME NEW x \in S PROVE IsFiniteSet(UpTo(x)) /\ Cardinality(UpTo(x)) \in 1..n
  <2>1. UpTo(x) \in SUBSET S /\ UpTo(x) # {}
    OBVIOUS
  <2> HIDE DEF UpTo, n
  <2>2. IsFiniteSet(UpTo(x)) /\ Cardinality(UpTo(x)) <= n
    BY <2>1, FS_Subset DEF n
  <2>3. Cardinality(UpTo(x)) \in Nat /\ Cardinality(UpTo(x)) # 0
    BY <2>1, <2>2, FS_CardinalityType, FS_EmptySet
  <2> QED BY <1>1, <2>2, <2>3
<1>4. ASSUME NEW x \in S, NEW y \in S, <<x, y>> \in R
      PROVE  Cardinality(UpTo(x)) # Cardinality(UpTo(y))
  <2>1. UpTo(x) \in SUBSET UpTo(y)
    BY <1>4
  <2>2. y \in UpTo(y) /\ y \notin UpTo(x)
    BY <1>4
  <2> HIDE DEF UpTo
  <2> QED BY <1>3, <2>1, <2>2, FS_Subset
<1> HIDE DEF UpTo
<1>5. f \in [S -> 1..n]
  BY <1>3
<1>6. \A x, y \in S : f[x] = f[y] => x = y
  BY <1>4
<1>7. f \in Injection(S, 1..n)
  BY <1>5, <1>6 DEF Injection, IsInjective
<1>8. \A x \in S : f[x] = Cardinality(UpTo(x))
  OBVIOUS
<1> HIDE DEF f
<1>9. f \in Surjection(S, 1..n)
  BY <1>2, <1>7, FS_Injection
<1>10. \A x \in S : UpTo(x) = UpToIn(S, R, x)
  BY DEF UpTo, UpToIn
<1> QED BY <1>6, <1>8, <1>9, <1>10

\* What is compared of the channels of a map.
IsMap(map) ==
    \A c \in DOMAIN map :
        /\ IsFiniteSet(DOMAIN map[c])
        /\ \A b \in DOMAIN map[c] : map[c][b].tau \in Int /\ map[c][b].n \in Nat

Weights(map, p, q) ==
    LET bins == DOMAIN Get(map, p, <<>>) \cap DOMAIN Get(map, q, <<>>)
        W(b) == IF map[p][b].n < map[q][b].n THEN map[p][b].n ELSE map[q][b].n
    IN [b \in {x \in bins : W(x) > 0} |-> W(b)]
Diffs(map, p, q) ==
    [b \in DOMAIN Weights(map, p, q) |->
        Weights(map, p, q)[b] * (IF map[p][b].tau < map[q][b].tau THEN map[q][b].tau - map[p][b].tau
                                 ELSE map[p][b].tau - map[q][b].tau)]

LEMMA SimilarityIs ==
    ASSUME NEW map, NEW p, NEW q
    PROVE  Similarity(map, p, q) = [bins |-> Cardinality(DOMAIN Weights(map, p, q)),
                                    weight |-> SumFunction(Weights(map, p, q)),
                                    diff |-> SumFunction(Diffs(map, p, q))]
<1> DEFINE bins == DOMAIN Get(map, p, <<>>) \cap DOMAIN Get(map, q, <<>>)
           W(b) == IF map[p][b].n < map[q][b].n THEN map[p][b].n ELSE map[q][b].n
           D(b) == IF map[p][b].tau < map[q][b].tau THEN map[q][b].tau - map[p][b].tau
                   ELSE map[p][b].tau - map[q][b].tau
           common == {b \in bins : W(b) > 0}
           w == [b \in common |-> W(b)]
           d == [b \in common |-> W(b) * D(b)]
<1>1. Similarity(map, p, q) = [bins |-> Cardinality(common), weight |-> SumFunction(w), diff |-> SumFunction(d)]
  BY DEF Similarity
<1>2. Weights(map, p, q) = w /\ DOMAIN w = common
  BY DEF Weights
<1>3. Diffs(map, p, q) = [b \in common |-> w[b] * D(b)]
  BY <1>2 DEF Diffs
<1>4. Diffs(map, p, q) = d
  <2>1. \A b \in common : w[b] = W(b)
    OBVIOUS
  <2> HIDE DEF w, common, W, D
  <2> QED BY <1>3, <2>1
<1> HIDE DEF w, d, common
<1> QED BY <1>1, <1>2, <1>4

\* The weights of two channels are the same from either side, and so are the
\* differences.
LEMMA EitherSide ==
    ASSUME NEW map, IsMap(map), NEW p, NEW q
    PROVE  /\ Weights(map, p, q) = Weights(map, q, p) /\ Diffs(map, p, q) = Diffs(map, q, p)
           /\ IsFiniteSet(DOMAIN Weights(map, p, q)) /\ DOMAIN Diffs(map, p, q) = DOMAIN Weights(map, p, q)
           /\ \A b \in DOMAIN Weights(map, p, q) :
                 /\ Weights(map, p, q)[b] \in Nat /\ Diffs(map, p, q)[b] \in Int
                 /\ p \in DOMAIN map /\ b \in DOMAIN map[p] /\ map[p][b].n > 0
<1> DEFINE bins(x, y) == DOMAIN Get(map, x, <<>>) \cap DOMAIN Get(map, y, <<>>)
           W(x, y, b) == IF map[x][b].n < map[y][b].n THEN map[x][b].n ELSE map[y][b].n
           D(x, y, b) == IF map[x][b].tau < map[y][b].tau THEN map[y][b].tau - map[x][b].tau
                         ELSE map[x][b].tau - map[y][b].tau
<1>1. ASSUME NEW x, NEW b \in DOMAIN Get(map, x, <<>>)
      PROVE  x \in DOMAIN map /\ b \in DOMAIN map[x] /\ map[x][b].tau \in Int /\ map[x][b].n \in Nat
  <2>1. DOMAIN <<>> = {}
    OBVIOUS
  <2> QED BY <2>1 DEF Get, IsMap
<1>2. ASSUME NEW x, NEW y, NEW b \in bins(x, y)
      PROVE  /\ W(x, y, b) = W(y, x, b) /\ W(x, y, b) \in Nat /\ W(x, y, b) <= map[x][b].n
             /\ D(x, y, b) = D(y, x, b) /\ D(x, y, b) \in Int /\ map[x][b].n \in Nat
  BY <1>1
<1> DEFINE A == {z \in bins(p, q) : W(p, q, z) > 0}
           B == {z \in bins(q, p) : W(q, p, z) > 0}
           w == Weights(map, p, q)
           v == Weights(map, q, p)
<1>3. /\ w = [b \in A |-> W(p, q, b)] /\ v = [b \in B |-> W(q, p, b)]
      /\ Diffs(map, p, q) = [b \in DOMAIN w |-> w[b] * D(p, q, b)]
      /\ Diffs(map, q, p) = [b \in DOMAIN v |-> v[b] * D(q, p, b)]
  BY DEF Weights, Diffs
<1>4. bins(p, q) = bins(q, p)
  OBVIOUS
<1>5. /\ \A b \in A : W(p, q, b) > 0
      /\ A \subseteq bins(p, q)
  OBVIOUS
<1> HIDE DEF bins, W, D, w, v
<1>a. A = B
  BY <1>2, <1>4
<1> HIDE DEF A, B
<1>6. w = v
  BY <1>2, <1>3, <1>5, <1>a
<1>7. /\ DOMAIN w \subseteq bins(p, q)
      /\ \A b \in DOMAIN w : w[b] = W(p, q, b) /\ w[b] > 0 /\ w[b] \in Nat
  BY <1>2, <1>3, <1>5
<1>8. Diffs(map, p, q) = [b \in DOMAIN w |-> w[b] * D(p, q, b)]
      /\ Diffs(map, q, p) = [b \in DOMAIN w |-> w[b] * D(q, p, b)]
  BY <1>3, <1>6
<1>9. Diffs(map, p, q) = Diffs(map, q, p)
  BY <1>2, <1>7, <1>8
<1>10. IsFiniteSet(DOMAIN w)
  <2>1. DOMAIN w \in SUBSET DOMAIN Get(map, p, <<>>)
    BY <1>7 DEF bins
  <2>2. IsFiniteSet(DOMAIN Get(map, p, <<>>))
    <3>1. CASE p \in DOMAIN map
      BY <3>1 DEF Get, IsMap
    <3>2. CASE p \notin DOMAIN map
      BY <3>2, FS_EmptySet DEF Get
    <3> QED BY <3>1, <3>2
  <2> QED BY <2>1, <2>2, FS_Subset
<1>11. ASSUME NEW b \in DOMAIN w
       PROVE  /\ w[b] \in Nat /\ Diffs(map, p, q)[b] \in Int
              /\ p \in DOMAIN map /\ b \in DOMAIN map[p] /\ map[p][b].n > 0
  <2>1. b \in bins(p, q) /\ w[b] \in Nat /\ w[b] > 0 /\ w[b] <= map[p][b].n /\ map[p][b].n \in Nat
        /\ D(p, q, b) \in Int
    BY <1>2, <1>7
  <2>2. b \in DOMAIN Get(map, p, <<>>)
    BY <2>1 DEF bins
  <2>3. Diffs(map, p, q)[b] = w[b] * D(p, q, b)
    BY <1>8
  <2>4. map[p][b].n > 0
    BY <2>1
  <2> QED BY <1>1, <2>1, <2>2, <2>3, <2>4
<1> QED BY <1>6, <1>8, <1>9, <1>10, <1>11 DEF w, v

Alike(map, i, j) == Similar(map, Planes[i], Planes[j])

LEMMA SimilarIs ==
    ASSUME NEW map, IsMap(map), NEW p, NEW q
    PROVE  /\ Similarity(map, p, q) = Similarity(map, q, p)
           /\ Similarity(map, p, q).weight \in Int /\ Similarity(map, p, q).diff \in Int
           /\ Similarity(map, p, q).weight > 0 => \E b \in DOMAIN Get(map, p, <<>>) : map[p][b].n > 0
<1> DEFINE w == Weights(map, p, q)  d == Diffs(map, p, q)
<1>1. /\ w = Weights(map, q, p) /\ d = Diffs(map, q, p)
      /\ IsFiniteSet(DOMAIN w) /\ DOMAIN d = DOMAIN w
      /\ \A b \in DOMAIN w : w[b] \in Int /\ d[b] \in Int /\ p \in DOMAIN map /\ b \in DOMAIN map[p]
                             /\ map[p][b].n > 0
  BY EitherSide
<1>2. /\ Similarity(map, p, q) = [bins |-> Cardinality(DOMAIN w), weight |-> SumFunction(w),
                                  diff |-> SumFunction(d)]
      /\ Similarity(map, q, p) = [bins |-> Cardinality(DOMAIN w), weight |-> SumFunction(w),
                                  diff |-> SumFunction(d)]
  BY <1>1, SimilarityIs
<1> HIDE DEF w, d
<1>3. SumFunction(w) \in Int /\ SumFunction(d) \in Int
  BY <1>1, SumIsInt DEF SumFunction
<1>4. ASSUME SumFunction(w) > 0 PROVE \E b \in DOMAIN Get(map, p, <<>>) : map[p][b].n > 0
  <2>1. DOMAIN w # {}
    <3>1. SumFunctionOnSet(w, {}) = 0
      BY FS_EmptySet, SumFirst
    <3>2. SumFunction(w) = SumFunctionOnSet(w, DOMAIN w)
      BY DEF SumFunction
    <3> QED BY <1>4, <3>1, <3>2
  <2>2. PICK b \in DOMAIN w : TRUE
    BY <2>1
  <2> QED BY <1>1, <2>2 DEF Get
<1> QED BY <1>2, <1>3, <1>4

\* Fractions are compared without dividing.
LEMMA Fractions ==
    ASSUME NEW a \in Int, NEW b \in Int, NEW c \in Int,
           NEW u \in Int, NEW v \in Int, NEW w \in Int, u > 0, v > 0, w > 0
    PROVE  /\ a * v < b * u /\ b * w <= c * v => a * w < c * u
           /\ a * v <= b * u /\ b * w < c * v => a * w < c * u
           /\ a * v = b * u /\ b * w = c * v => a * w = c * u
<1> DEFINE av == a * v  bu == b * u  bw == b * w  cv == c * v  aw == a * w  cu == c * u
<1>1. /\ av \in Int /\ bu \in Int /\ bw \in Int /\ cv \in Int /\ aw \in Int /\ cu \in Int
      /\ av * w = v * aw /\ bu * w = bw * u /\ cv * u = v * cu
  OBVIOUS
<1> HIDE DEF av, bu, bw, cv, aw, cu
<1>2. ASSUME av < bu, bw <= cv PROVE aw < cu
  <2>1. av * w < bu * w
    BY <1>1, <1>2
  <2>2. bw * u <= cv * u
    BY <1>1, <1>2
  <2>3. v * aw < v * cu
    BY <1>1, <2>1, <2>2
  <2> QED BY <1>1, <2>3
<1>3. ASSUME av <= bu, bw < cv PROVE aw < cu
  <2>1. av * w <= bu * w
    BY <1>1, <1>3
  <2>2. bw * u < cv * u
    BY <1>1, <1>3
  <2>3. v * aw < v * cu
    BY <1>1, <2>1, <2>2
  <2> QED BY <1>1, <2>3
<1>4. ASSUME av = bu, bw = cv PROVE aw = cu
  <2>1. v * aw = v * cu
    BY <1>1, <1>4
  <2> QED BY <1>1, <2>1
<1> QED BY <1>2, <1>3, <1>4 DEF av, bu, bw, cv, aw, cu

\* A pair and what it is ordered by.
LEMMA PairIs ==
    ASSUME NEW map, IsMap(map), NEW pr \in SimilarPairs(map)
    PROVE  /\ pr[1] \in Int /\ pr[2] \in Int /\ pr = <<pr[1], pr[2]>> /\ pr[1] < pr[2]
           /\ pr[1] \in WithData(map) /\ pr[2] \in WithData(map) /\ Alike(map, pr[1], pr[2])
           /\ Similarity(map, Planes[pr[1]], Planes[pr[2]]).diff \in Int
           /\ Similarity(map, Planes[pr[1]], Planes[pr[2]]).weight \in Int
           /\ Similarity(map, Planes[pr[1]], Planes[pr[2]]).weight > 0
<1>1. /\ pr \in WithData(map) \X WithData(map) /\ pr[1] < pr[2]
      /\ Similar(map, Planes[pr[1]], Planes[pr[2]])
  BY DEF SimilarPairs
<1>2. WithData(map) \subseteq Int
  <2>1. DOMAIN Planes = 1..Len(Planes)
    BY SiteAssumption, LenProperties
  <2> QED BY <2>1 DEF WithData
<1>3. Similarity(map, Planes[pr[1]], Planes[pr[2]]).weight > 0
  BY <1>1 DEF Similar
<1> QED BY <1>1, <1>2, <1>3, SimilarIs DEF Alike

LEMMA CloserOrders ==
    ASSUME NEW map, IsMap(map)
    PROVE  /\ \A x, y \in SimilarPairs(map) : x # y => Closer(map, x, y) \/ Closer(map, y, x)
           /\ \A x \in SimilarPairs(map) : ~Closer(map, x, x)
           /\ \A x, y, z \in SimilarPairs(map) :
                 Closer(map, x, y) /\ Closer(map, y, z) => Closer(map, x, z)
<1> DEFINE P == SimilarPairs(map)
           d(pr) == Similarity(map, Planes[pr[1]], Planes[pr[2]]).diff
           w(pr) == Similarity(map, Planes[pr[1]], Planes[pr[2]]).weight
           Places(x, y) == x[1] < y[1] \/ (x[1] = y[1] /\ x[2] < y[2])
<1>1. \A x \in P : /\ d(x) \in Int /\ w(x) \in Int /\ w(x) > 0
                   /\ x[1] \in Int /\ x[2] \in Int /\ x = <<x[1], x[2]>>
  BY PairIs
<1>2. \A x, y : Closer(map, x, y) <=> \/ d(x) * w(y) < d(y) * w(x)
                                      \/ d(x) * w(y) = d(y) * w(x) /\ Places(x, y)
  BY DEF Closer
<1> HIDE DEF P, d, w
<1>3. ASSUME NEW x \in P, NEW y \in P PROVE d(x) * w(y) \in Int /\ d(y) * w(x) \in Int
  BY <1>1
<1>4. ASSUME NEW x \in P, NEW y \in P, x # y PROVE Closer(map, x, y) \/ Closer(map, y, x)
  <2>1. Places(x, y) \/ Places(y, x)
    BY <1>1, <1>4
  <2> DEFINE a == d(x) * w(y)  b == d(y) * w(x)
  <2>2. a \in Int /\ b \in Int
    BY <1>3
  <2>3. /\ Closer(map, x, y) <=> (a < b \/ (a = b /\ Places(x, y)))
        /\ Closer(map, y, x) <=> (b < a \/ (b = a /\ Places(y, x)))
    BY <1>2
  <2> HIDE DEF a, b, Places
  <2> QED BY <2>1, <2>2, <2>3
<1>5. ASSUME NEW x \in P PROVE ~Closer(map, x, x)
  <2> DEFINE a == d(x) * w(x)
  <2>1. a \in Int
    BY <1>1
  <2>2. Closer(map, x, x) <=> (a < a \/ (a = a /\ Places(x, x)))
    BY <1>2
  <2>3. ~Places(x, x)
    BY <1>1
  <2> HIDE DEF a, Places
  <2> QED BY <2>1, <2>2, <2>3
<1>6. ASSUME NEW x \in P, NEW y \in P, NEW z \in P, Closer(map, x, y), Closer(map, y, z)
      PROVE  Closer(map, x, z)
  <2> DEFINE a == d(x)  b == d(y)  c == d(z)  u == w(x)  v == w(y)  k == w(z)
  <2>1. /\ a \in Int /\ b \in Int /\ c \in Int /\ u \in Int /\ v \in Int /\ k \in Int
        /\ u > 0 /\ v > 0 /\ k > 0
    BY <1>1
  <2>2. /\ a * v < b * u \/ (a * v = b * u /\ Places(x, y))
        /\ b * k < c * v \/ (b * k = c * v /\ Places(y, z))
    BY <1>2, <1>6
  <2>3. Places(x, y) /\ Places(y, z) => Places(x, z)
    BY <1>1
  <2>4. a * k < c * u \/ (a * k = c * u /\ Places(x, z)) => Closer(map, x, z)
    BY <1>2
  <2> HIDE DEF a, b, c, u, v, k, Places
  <2>5. /\ a * v < b * u /\ b * k <= c * v => a * k < c * u
        /\ a * v <= b * u /\ b * k < c * v => a * k < c * u
        /\ a * v = b * u /\ b * k = c * v => a * k = c * u
    BY <2>1, Fractions
  <2> DEFINE av == a * v  bu == b * u  bk == b * k  cv == c * v
  <2>6. av \in Int /\ bu \in Int /\ bk \in Int /\ cv \in Int
    BY <2>1
  <2>7. (av < bu => av <= bu) /\ (av = bu => av <= bu) /\ (bk < cv => bk <= cv) /\ (bk = cv => bk <= cv)
    <3> HIDE DEF av, bu, bk, cv
    <3> QED BY <2>6
  <2> QED BY <2>2, <2>3, <2>4, <2>5, <2>7
<1> QED BY <1>4, <1>5, <1>6 DEF P

\* Every similar pair has its turn.
LEMMA EveryPairInTurn ==
    ASSUME NEW map, IsMap(map)
    PROVE  /\ IsFiniteSet(SimilarPairs(map))
           /\ \A k \in 1..Cardinality(SimilarPairs(map)) : InTurn(map)[k] \in SimilarPairs(map)
           /\ \A pr \in SimilarPairs(map) :
                 \E k \in 1..Cardinality(SimilarPairs(map)) : InTurn(map)[k] = pr
<1> DEFINE P == SimilarPairs(map)
           n == Cardinality(P)
           R == {e \in P \X P : Closer(map, e[1], e[2])}
           UpTo(pr) == {q \in P : q = pr \/ Closer(map, q, pr)}
           Rank(pr) == {q \in P : q = pr \/ <<q, pr>> \in R}
           turn == InTurn(map)
<1>1. IsFiniteSet(P)
  <2>1. IsFiniteSet(DOMAIN Planes)
    BY SiteAssumption, ListIsFinite
  <2>2. WithData(map) \in SUBSET DOMAIN Planes
    BY DEF WithData
  <2> DEFINE data == WithData(map)
  <2> HIDE DEF data
  <2>3. IsFiniteSet(data)
    BY <2>1, <2>2, FS_Subset DEF data
  <2>4. IsFiniteSet(data \X data)
    BY <2>3, FS_Product
  <2>5. P \in SUBSET (data \X data)
    BY DEF SimilarPairs, data
  <2> QED BY <2>4, <2>5, FS_Subset
<1>2. turn = [k \in 1..n |-> CHOOSE pr \in P : Cardinality(UpTo(pr)) = k]
  BY DEF InTurn
<1>3. /\ \A x, y \in P : x # y => Closer(map, x, y) \/ Closer(map, y, x)
      /\ \A x \in P : ~Closer(map, x, x)
      /\ \A x, y, z \in P : Closer(map, x, y) /\ Closer(map, y, z) => Closer(map, x, z)
  BY CloserOrders
<1> HIDE DEF P, turn
<1>4. \A x, y \in P : <<x, y>> \in R <=> Closer(map, x, y)
  OBVIOUS
<1>5. \A pr \in P : UpTo(pr) = Rank(pr)
  BY <1>4
<1> HIDE DEF R
<1>6. /\ \A x, y \in P : x # y => <<x, y>> \in R \/ <<y, x>> \in R
      /\ \A x \in P : <<x, x>> \notin R
      /\ \A x, y, z \in P : <<x, y>> \in R /\ <<y, z>> \in R => <<x, z>> \in R
  BY <1>3, <1>4
<1>7. \E f \in Surjection(P, 1..n) :
         (\A x, y \in P : f[x] = f[y] => x = y) /\ \A x \in P : f[x] = Cardinality(Rank(x))
  <2> HIDE DEF n, Rank
  <2>1. \E f \in Surjection(P, 1..Cardinality(P)) :
           /\ \A x, y \in P : f[x] = f[y] => x = y
           /\ \A x \in P : f[x] = Cardinality(UpToIn(P, R, x))
    BY <1>1, <1>6, Ranked
  <2>2. \A x \in P : UpToIn(P, R, x) = Rank(x)
    BY DEF UpToIn, Rank
  <2> QED BY <2>1, <2>2 DEF n
<1>8. PICK f \in Surjection(P, 1..n) :
         (\A x, y \in P : f[x] = f[y] => x = y) /\ \A x \in P : f[x] = Cardinality(UpTo(x))
  <2> HIDE DEF UpTo, Rank, n
  <2> QED BY <1>5, <1>7
<1> HIDE DEF UpTo, n
<1>9. ASSUME NEW k \in 1..n PROVE turn[k] \in P /\ f[turn[k]] = k
  <2>1. \E pr \in P : Cardinality(UpTo(pr)) = k
    BY <1>8 DEF Surjection
  <2>2. turn[k] = CHOOSE pr \in P : Cardinality(UpTo(pr)) = k
    BY <1>2
  <2>3. turn[k] \in P /\ Cardinality(UpTo(turn[k])) = k
    BY <2>1, <2>2
  <2> QED BY <1>8, <2>3
<1>10. ASSUME NEW pr \in P PROVE \E k \in 1..n : turn[k] = pr
  <2>1. f[pr] \in 1..n
    BY <1>8 DEF Surjection
  <2> QED BY <1>8, <1>9, <2>1
<1> QED BY <1>1, <1>9, <1>10 DEF P, n, turn

-----------------------------------------------------------------------------
(* Suggested groups: pair after pair.                                        *)

AllAlike(map, a, b) == \A i \in a, j \in b : i # j => Alike(map, i, j)

LEMMA AlikeEither ==
    ASSUME NEW map, IsMap(map), NEW a, NEW b, AllAlike(map, a, b)
    PROVE  AllAlike(map, b, a)
<1> SUFFICES ASSUME NEW i \in b, NEW j \in a, i # j PROVE Alike(map, i, j)
  BY DEF AllAlike
<1>1. Alike(map, j, i)
  BY DEF AllAlike
<1>2. Similarity(map, Planes[i], Planes[j]) = Similarity(map, Planes[j], Planes[i])
  BY SimilarIs
<1> QED BY <1>1, <1>2 DEF Alike, Similar

Dividing(clusters, all) ==
    /\ UNION clusters = all /\ {} \notin clusters
    /\ \A a, b \in clusters : a # b => a \cap b = {}

\* The clusters after the first k pairs: each is alike, and no pair that had its
\* turn could still join two of them.
Refused(map, clusters, pr) ==
    \A a, b \in clusters : pr[1] \in a /\ pr[2] \in b /\ a # b => ~AllAlike(map, a, b)

Joined(map, clusters, k) ==
    /\ Dividing(clusters, WithData(map))
    /\ \A a \in clusters : AllAlike(map, a, a)
    /\ \A m \in 1..k : Refused(map, clusters, InTurn(map)[m])

LEMMA ClusterIs ==
    ASSUME NEW clusters, NEW all, Dividing(clusters, all), NEW i \in all
    PROVE  /\ ClusterOf(clusters, i) \in clusters /\ i \in ClusterOf(clusters, i)
           /\ \A c \in clusters : i \in c => c = ClusterOf(clusters, i)
<1>1. \E c \in clusters : i \in c
  BY DEF Dividing
<1>2. ClusterOf(clusters, i) \in clusters /\ i \in ClusterOf(clusters, i)
  BY <1>1 DEF ClusterOf
<1> QED BY <1>2 DEF Dividing

\* Two clusters become one.
LEMMA JoiningDivides ==
    ASSUME NEW C, NEW all, Dividing(C, all), NEW a \in C, NEW b \in C
    PROVE  Dividing((C \ {a, b}) \cup {a \cup b}, all)
<1> DEFINE new == (C \ {a, b}) \cup {a \cup b}
<1>1. \A x \in new : x = a \cup b \/ (x \in C /\ x # a /\ x # b)
  OBVIOUS
<1>2. UNION new = all
  <2>1. ASSUME NEW e \in all PROVE e \in UNION new
    <3>1. PICK c \in C : e \in c
      BY DEF Dividing
    <3>2. CASE c = a \/ c = b
      BY <3>1, <3>2
    <3>3. CASE c # a /\ c # b
      BY <3>1, <3>3
    <3> QED BY <3>2, <3>3
  <2>2. ASSUME NEW e \in UNION new PROVE e \in all
    BY <1>1, <2>2 DEF Dividing
  <2> QED BY <2>1, <2>2
<1>3. {} \notin new
  BY <1>1 DEF Dividing
<1>4. ASSUME NEW x \in new, NEW y \in new, x # y PROVE x \cap y = {}
  <2>1. \A c \in C : c # a /\ c # b => c \cap (a \cup b) = {}
    BY DEF Dividing
  <2>2. CASE x = a \cup b
    <3>1. y \in C /\ y # a /\ y # b
      BY <1>1, <1>4, <2>2
    <3> QED BY <2>1, <2>2, <3>1
  <2>3. CASE y = a \cup b
    <3>1. x \in C /\ x # a /\ x # b
      BY <1>1, <1>4, <2>3
    <3> QED BY <2>1, <2>3, <3>1
  <2>4. CASE x # a \cup b /\ y # a \cup b
    BY <1>1, <1>4, <2>4 DEF Dividing
  <2> QED BY <2>2, <2>3, <2>4
<1> QED BY <1>2, <1>3, <1>4 DEF Dividing

\* What was refused stays refused when clusters grow.
LEMMA StaysRefused ==
    ASSUME NEW map, NEW C, NEW D, NEW all, Dividing(C, all), Dividing(D, all),
           \A c \in C : \E d \in D : c \subseteq d,
           NEW pr, pr[1] \in all, pr[2] \in all, Refused(map, C, pr)
    PROVE  Refused(map, D, pr)
<1> SUFFICES ASSUME NEW x \in D, NEW y \in D, pr[1] \in x, pr[2] \in y, x # y, AllAlike(map, x, y)
             PROVE  FALSE
  BY DEF Refused
<1>1. PICK a \in C, b \in C : pr[1] \in a /\ pr[2] \in b
  BY DEF Dividing
<1>2. a \subseteq x /\ b \subseteq y
  <2>1. PICK d \in D : a \subseteq d
    OBVIOUS
  <2>2. PICK e \in D : b \subseteq e
    OBVIOUS
  <2>3. d = x
    BY <1>1, <2>1 DEF Dividing
  <2>4. e = y
    BY <1>1, <2>2 DEF Dividing
  <2> QED BY <2>1, <2>2, <2>3, <2>4
<1>3. a # b
  BY <1>1, <1>2 DEF Dividing
<1>4. AllAlike(map, a, b)
  BY <1>2 DEF AllAlike
<1> QED BY <1>1, <1>3, <1>4 DEF Refused

LEMMA MergeJoins ==
    ASSUME NEW map, IsMap(map), NEW C, NEW k \in Nat, k + 1 <= Cardinality(SimilarPairs(map)),
           Joined(map, C, k)
    PROVE  Joined(map, Merged(map, C, InTurn(map)[k + 1]), k + 1)
<1> DEFINE turn == InTurn(map)
           pr == turn[k + 1]
           all == WithData(map)
           a == ClusterOf(C, pr[1])
           b == ClusterOf(C, pr[2])
           new == (C \ {a, b}) \cup {a \cup b}
           n == Cardinality(SimilarPairs(map))
<1>1. n \in Nat /\ \A m \in 1..n : turn[m][1] \in all /\ turn[m][2] \in all
  BY EveryPairInTurn, PairIs, FS_CardinalityType
<1>2. k + 1 \in 1..n /\ \A m \in 1..(k + 1) : m \in 1..n /\ (m \in 1..k \/ m = k + 1)
  BY <1>1
<1>3. pr[1] \in all /\ pr[2] \in all
  BY <1>1, <1>2
<1>4. /\ Dividing(C, all) /\ \A c \in C : AllAlike(map, c, c)
      /\ \A m \in 1..k : Refused(map, C, turn[m])
  BY DEF Joined
<1>5. Merged(map, C, pr) = IF AllAlike(map, a, b) THEN new ELSE C
  BY DEF Merged, AllAlike, Alike
<1> HIDE DEF turn, pr, all, n
<1>6. /\ a \in C /\ pr[1] \in a /\ \A c \in C : pr[1] \in c => c = a
      /\ b \in C /\ pr[2] \in b /\ \A c \in C : pr[2] \in c => c = b
  BY <1>3, <1>4, ClusterIs
<1> HIDE DEF a, b
<1>7. CASE AllAlike(map, a, b)
  <2>1. Dividing(new, all)
    BY <1>4, <1>6, JoiningDivides
  <2>2. ASSUME NEW c \in new PROVE AllAlike(map, c, c)
    <3>1. CASE c = a \cup b
      <4>1. AllAlike(map, b, a) /\ AllAlike(map, a, a) /\ AllAlike(map, b, b)
        BY <1>4, <1>6, <1>7, AlikeEither
      <4> QED BY <1>7, <3>1, <4>1 DEF AllAlike
    <3>2. CASE c # a \cup b
      BY <1>4, <3>2
    <3> QED BY <3>1, <3>2
  <2>3. \A c \in C : \E d \in new : c \subseteq d
    <3> SUFFICES ASSUME NEW c \in C PROVE \E d \in new : c \subseteq d
      OBVIOUS
    <3>1. CASE c = a \/ c = b
      <4>1. a \cup b \in new /\ c \subseteq a \cup b
        BY <3>1
      <4> QED BY <4>1
    <3>2. CASE c # a /\ c # b
      BY <3>2
    <3> QED BY <3>1, <3>2
  <2>4. Refused(map, new, pr)
    <3>1. a \cup b \in new /\ pr[1] \in a \cup b /\ pr[2] \in a \cup b
      BY <1>6
    <3> HIDE DEF new
    <3>2. ASSUME NEW x \in new, NEW y \in new, pr[1] \in x, pr[2] \in y PROVE x = y
      <4>1. x = a \cup b
        BY <2>1, <3>1, <3>2 DEF Dividing
      <4>2. y = a \cup b
        BY <2>1, <3>1, <3>2 DEF Dividing
      <4> QED BY <4>1, <4>2
    <3> QED BY <3>2 DEF Refused
  <2> HIDE DEF new
  <2>5. ASSUME NEW m \in 1..(k + 1) PROVE Refused(map, new, turn[m])
    <3>1. CASE m = k + 1
      BY <2>4, <3>1 DEF pr
    <3>2. CASE m \in 1..k
      BY <1>1, <1>2, <1>4, <2>1, <2>3, <3>2, StaysRefused
    <3> QED BY <1>2, <3>1, <3>2
  <2>6. Joined(map, new, k + 1)
    BY <2>1, <2>2, <2>5 DEF Joined, turn, all
  <2> QED BY <1>5, <1>7, <2>6 DEF pr, turn
<1>8. CASE ~AllAlike(map, a, b)
  <2>1. Refused(map, C, pr)
    BY <1>6, <1>8 DEF Refused
  <2>2. \A m \in 1..(k + 1) : Refused(map, C, turn[m])
    BY <1>2, <1>4, <2>1 DEF pr
  <2>3. Joined(map, C, k + 1)
    BY <1>4, <2>2 DEF Joined, turn, all
  <2> QED BY <1>5, <1>8, <2>3 DEF pr, turn
<1> QED BY <1>7, <1>8

IsJoining(map, m, f) ==
    f = [k \in 0..m |-> IF k = 0 THEN {{i} : i \in WithData(map)} ELSE Merged(map, f[k - 1], InTurn(map)[k])]

LEMMA JoiningExists ==
    ASSUME NEW map, NEW n \in Nat
    PROVE  \E f : IsJoining(map, n, f)
<1> DEFINE A == {m \in 0..n : \E f : IsJoining(map, m, f)}
           alone == {{i} : i \in WithData(map)}
           turn == InTurn(map)
<1>0. \A m, f : IsJoining(map, m, f) <=>
                f = [k \in 0..m |-> IF k = 0 THEN alone ELSE Merged(map, f[k - 1], turn[k])]
  BY DEF IsJoining
<1> HIDE DEF alone, turn
<1>1. 0 \in A
  <2> DEFINE f == [k \in 0..0 |-> alone]
  <2>1. f = [k \in 0..0 |-> IF k = 0 THEN alone ELSE Merged(map, f[k - 1], turn[k])]
    OBVIOUS
  <2> HIDE DEF f
  <2>2. IsJoining(map, 0, f)
    BY <1>0, <2>1
  <2> QED BY <2>2
<1>2. ASSUME NEW m \in 0..n, m + 1 <= n, m \in A PROVE m + 1 \in A
  <2>1. PICK f : IsJoining(map, m, f)
    BY <1>2
  <2> DEFINE g == [k \in 0..(m + 1) |-> IF k = m + 1 THEN Merged(map, f[m], turn[m + 1]) ELSE f[k]]
             h == [k \in 0..(m + 1) |-> IF k = 0 THEN alone ELSE Merged(map, g[k - 1], turn[k])]
  <2>2. ASSUME NEW k \in 0..(m + 1) PROVE g[k] = h[k]
    <3>1. CASE k = m + 1
      <4>1. k - 1 = m /\ m \in 0..(m + 1) /\ m # m + 1 /\ k # 0
        BY <1>2, <3>1
      <4>2. g[m] = f[m]
        BY <4>1
      <4> QED BY <3>1, <4>1, <4>2
    <3>2. CASE k # m + 1
      <4>1. k \in 0..m
        BY <1>2, <3>2
      <4>2. f[k] = IF k = 0 THEN alone ELSE Merged(map, f[k - 1], turn[k])
        BY <1>0, <2>1, <4>1
      <4>3. k # 0 => k - 1 \in 0..(m + 1) /\ k - 1 # m + 1
        BY <1>2, <4>1
      <4>4. k # 0 => g[k - 1] = f[k - 1]
        BY <4>3
      <4> QED BY <3>2, <4>2, <4>4
    <3> QED BY <3>1, <3>2
  <2>3. g = h
    BY <2>2
  <2>4. IsJoining(map, m + 1, g)
    <3>1. g = [k \in 0..(m + 1) |-> IF k = 0 THEN alone ELSE Merged(map, g[k - 1], turn[k])]
      BY <2>3
    <3> HIDE DEF g
    <3> QED BY <1>0, <3>1
  <2>5. m + 1 \in 0..n
    BY <1>2
  <2> HIDE DEF g
  <2> QED BY <2>4, <2>5
<1> HIDE DEF A
<1>3. \A m \in 0..n : m \in A
  BY <1>1, <1>2, Reached
<1> QED BY <1>3 DEF A

\* The groups are the clusters after the last pair, and the planes without data.
LEMMA SuggestedAreJoined ==
    ASSUME NEW map, IsMap(map)
    PROVE  \E C : /\ Joined(map, C, Cardinality(SimilarPairs(map)))
                  /\ SuggestedGroups(map) = C \cup {{i} : i \in DOMAIN Planes \ WithData(map)}
<1> DEFINE n == Cardinality(SimilarPairs(map))
           f == CHOOSE g : IsJoining(map, n, g)
           turn == InTurn(map)
           alone == {{i} : i \in WithData(map)}
           A == {k \in 0..n : Joined(map, f[k], k)}
<1>1. n \in Nat
  BY EveryPairInTurn, FS_CardinalityType
<1>2. IsJoining(map, n, f)
  <2> HIDE DEF n
  <2> QED BY <1>1, JoiningExists
<1>3. SuggestedGroups(map) = f[n] \cup {{i} : i \in DOMAIN Planes \ WithData(map)}
  BY DEF SuggestedGroups, IsJoining
<1>4. f = [k \in 0..n |-> IF k = 0 THEN alone ELSE Merged(map, f[k - 1], turn[k])]
  BY <1>2 DEF IsJoining
<1> HIDE DEF f, n, turn
<1>5. 0 \in A
  <2>1. f[0] = alone /\ 0 \in 0..n
    BY <1>1, <1>4
  <2>2. Dividing(alone, WithData(map))
    BY DEF Dividing
  <2>3. \A a \in alone : AllAlike(map, a, a)
    BY DEF AllAlike
  <2>4. Joined(map, alone, 0)
    BY <2>2, <2>3 DEF Joined
  <2> QED BY <2>1, <2>4
<1> HIDE DEF alone
<1>6. ASSUME NEW k \in 0..n, k + 1 <= n, k \in A PROVE k + 1 \in A
  <2>1. k + 1 \in 0..n /\ k + 1 # 0 /\ (k + 1) - 1 = k /\ k \in Nat
    BY <1>1, <1>6
  <2>2. f[k + 1] = Merged(map, f[k], turn[k + 1])
    BY <1>4, <2>1
  <2>3. Joined(map, f[k], k)
    BY <1>6
  <2>4. Joined(map, f[k + 1], k + 1)
    BY <1>6, <2>1, <2>2, <2>3, MergeJoins DEF n, turn
  <2> QED BY <2>1, <2>4
<1>7. Joined(map, f[n], n)
  <2> HIDE DEF A
  <2>1. \A k \in 0..n : k \in A
    BY <1>1, <1>5, <1>6, Reached
  <2>2. n \in A
    BY <1>1, <2>1
  <2> QED BY <2>2 DEF A
<1> QED BY <1>3, <1>7 DEF n

\* A plane without data is alike to none.
LEMMA NoDataNoLikeness ==
    ASSUME NEW map, IsMap(map), NEW i \in DOMAIN Planes, NEW j \in DOMAIN Planes,
           Alike(map, i, j)
    PROVE  i \in WithData(map) /\ j \in WithData(map)
<1>1. /\ Similarity(map, Planes[i], Planes[j]).weight > 0
      /\ Similarity(map, Planes[j], Planes[i]).weight > 0
  BY SimilarIs DEF Alike, Similar
<1>2. HasShadeData(map, Planes[i]) /\ HasShadeData(map, Planes[j])
  BY <1>1, SimilarIs DEF HasShadeData
<1> QED BY <1>2 DEF WithData

\* Two clusters that are left could not be joined: some pair across them is
\* similar, and had its turn.
LEMMA LeftApart ==
    ASSUME NEW map, IsMap(map), NEW C, Joined(map, C, Cardinality(SimilarPairs(map))),
           NEW a \in C, NEW b \in C, a # b
    PROVE  ~AllAlike(map, a, b)
<1> DEFINE n == Cardinality(SimilarPairs(map))
           all == WithData(map)
<1> SUFFICES ASSUME AllAlike(map, a, b) PROVE FALSE
  OBVIOUS
<1>1. Dividing(C, all) /\ \A m \in 1..n : Refused(map, C, InTurn(map)[m])
  BY DEF Joined
<1>2. PICK i \in a, j \in b : TRUE
  <2>1. {} \notin C
    BY <1>1 DEF Dividing
  <2>2. a # {} /\ b # {}
    BY <2>1
  <2> QED BY <2>2
<1>3. i # j /\ i \in all /\ j \in all
  BY <1>1, <1>2 DEF Dividing
<1>4. all \subseteq Int
  <2>1. DOMAIN Planes = 1..Len(Planes)
    BY SiteAssumption, LenProperties
  <2> QED BY <2>1 DEF WithData
<1>5. AllAlike(map, b, a)
  BY AlikeEither
<1>6. Alike(map, i, j) /\ Alike(map, j, i)
  BY <1>2, <1>3, <1>5 DEF AllAlike
<1>7. CASE i < j
  <2>1. <<i, j>> \in SimilarPairs(map)
    BY <1>3, <1>6, <1>7 DEF SimilarPairs, Alike
  <2>2. PICK m \in 1..n : InTurn(map)[m] = <<i, j>>
    BY <2>1, EveryPairInTurn
  <2>3. Refused(map, C, <<i, j>>)
    BY <1>1, <2>2
  <2> QED BY <1>2, <2>3 DEF Refused
<1>8. CASE j < i
  <2>1. <<j, i>> \in SimilarPairs(map)
    BY <1>3, <1>6, <1>8 DEF SimilarPairs, Alike
  <2>2. PICK m \in 1..n : InTurn(map)[m] = <<j, i>>
    BY <2>1, EveryPairInTurn
  <2>3. Refused(map, C, <<j, i>>)
    BY <1>1, <2>2
  <2> QED BY <1>2, <1>5, <2>3 DEF Refused
<1> QED BY <1>3, <1>4, <1>7, <1>8

LEMMA GroupsDivide ==
    ASSUME NEW map, IsMap(map)
    PROVE  LET groups == SuggestedGroups(map)
           IN /\ UNION groups = DOMAIN Planes
              /\ \A a, b \in groups : IF a = b THEN AllAlike(map, a, a)
                                      ELSE a \cap b = {} /\ ~AllAlike(map, a, b)
<1> DEFINE all == WithData(map)
           rest == {{i} : i \in DOMAIN Planes \ all}
           groups == SuggestedGroups(map)
<1>1. PICK C : Joined(map, C, Cardinality(SimilarPairs(map))) /\ groups = C \cup rest
  BY SuggestedAreJoined
<1>2. /\ UNION C = all /\ {} \notin C /\ \A a, b \in C : a # b => a \cap b = {}
      /\ \A a \in C : AllAlike(map, a, a)
  BY <1>1 DEF Joined, Dividing
<1>3. all \subseteq DOMAIN Planes
  BY DEF WithData
<1>4. \A i, j \in DOMAIN Planes : Alike(map, i, j) => i \in all /\ j \in all
  BY NoDataNoLikeness
<1>5. \A a, b \in C : a # b => ~AllAlike(map, a, b)
  BY <1>1, LeftApart
<1> HIDE DEF all, groups
<1>6. UNION groups = DOMAIN Planes
  <2>1. UNION rest = DOMAIN Planes \ all
    OBVIOUS
  <2>2. UNION groups = (UNION C) \cup (UNION rest)
    <3> HIDE DEF rest
    <3> QED BY <1>1
  <2> QED BY <1>2, <1>3, <2>1, <2>2
<1>7. ASSUME NEW a \in groups PROVE AllAlike(map, a, a)
  <2>1. CASE a \in C
    BY <1>2, <2>1
  <2>2. CASE a \in rest
    BY <2>2 DEF AllAlike
  <2> QED BY <1>1, <2>1, <2>2
<1>8. ASSUME NEW x \in rest, NEW y \in groups, x # y
      PROVE  x \cap y = {} /\ ~AllAlike(map, x, y) /\ ~AllAlike(map, y, x)
  <2>1. PICK i \in DOMAIN Planes \ all : x = {i}
    OBVIOUS
  <2>2. y # {} /\ i \notin y /\ y \subseteq DOMAIN Planes
    <3>1. CASE y \in C
      BY <1>2, <1>3, <2>1, <3>1
    <3>2. CASE y \in rest
      BY <1>8, <2>1, <3>2
    <3> QED BY <1>1, <3>1, <3>2
  <2>3. PICK j \in y : j # i /\ j \in DOMAIN Planes
    BY <2>2
  <2>4. ~Alike(map, i, j) /\ ~Alike(map, j, i)
    BY <1>4, <2>1, <2>3
  <2> QED BY <2>1, <2>2, <2>3, <2>4 DEF AllAlike
<1>9. ASSUME NEW a \in groups, NEW b \in groups, a # b
      PROVE  a \cap b = {} /\ ~AllAlike(map, a, b)
  <2>1. CASE a \in rest
    BY <1>8, <1>9, <2>1
  <2>2. CASE b \in rest
    <3>1. b \cap a = {} /\ ~AllAlike(map, a, b)
      BY <1>8, <1>9, <2>2
    <3> QED BY <3>1
  <2>3. CASE a \in C /\ b \in C
    BY <1>2, <1>5, <1>9, <2>3
  <2> QED BY <1>1, <2>1, <2>2, <2>3
<1> QED BY <1>6, <1>7, <1>9 DEF groups

\* What the learner holds can be compared.
LEMMA InvIsMap == ShadeInv => IsMap(shadeMap)
<1> SUFFICES ASSUME ShadeInv, NEW c \in DOMAIN shadeMap
             PROVE  /\ IsFiniteSet(DOMAIN shadeMap[c])
                    /\ \A b \in DOMAIN shadeMap[c] : shadeMap[c][b].tau \in Int /\ shadeMap[c][b].n \in Nat
  BY DEF IsMap
<1>1. IsFiniteSet(DOMAIN shadeMap[c]) /\ Counted(shadeMap[c], samples[c], shadeNight)
  BY DEF ShadeInv, Known
<1> QED BY <1>1 DEF Counted, Says, Holds

\* Whatever was learned, imported or taken back, the proposed groups divide the
\* planes, the planes of a group are similar pair by pair, and no two groups could
\* still be joined (suggest_shade_groups).
THEOREM GroupsAreAlikeHolds == ShadeSpec => []GroupsAreAlike
<1>1. ShadeInv => GroupsAreAlike
  <2> SUFFICES ASSUME ShadeInv PROVE GroupsAreAlike
    OBVIOUS
  <2> DEFINE groups == SuggestedGroups(shadeMap)
  <2>1. /\ UNION groups = DOMAIN Planes
        /\ \A a, b \in groups : IF a = b THEN AllAlike(shadeMap, a, a)
                                ELSE a \cap b = {} /\ ~AllAlike(shadeMap, a, b)
    BY InvIsMap, GroupsDivide
  <2> HIDE DEF groups
  <2> QED BY <2>1 DEF GroupsAreAlike, AllAlike, Alike, groups
<1> QED BY <1>1, ShadeInvariant, PTL

-----------------------------------------------------------------------------
(* Quantile bands: counts, ranks and percentiles.                            *)

\* What counts its places is a list.
LEMMA IsListed ==
    ASSUME NEW n \in Nat, NEW f, f = [i \in 1..n |-> f[i]]
    PROVE  IsList(f) /\ Len(f) = n /\ DOMAIN f = 1..n
<1> DEFINE X == {f[i] : i \in 1..n}
<1>1. DOMAIN f = 1..n /\ \A i \in 1..n : f[i] \in X
  OBVIOUS
<1> HIDE DEF X
<1>2. f \in [1..n -> X]
  BY <1>1
<1>3. f \in Seq(X)
  BY <1>2, SeqDef
<1>4. Len(f) = n
  BY <1>1, <1>3, LenProperties
<1> QED BY <1>1, <1>3, <1>4 DEF X, IsList

\* A set divided into classes of at most d elements.
LEMMA ClassesHold ==
    ASSUME NEW S, IsFiniteSet(S), NEW C, IsFiniteSet(C), NEW d \in Nat,
           NEW class, \A x \in S : class[x] \in C,
           \A c \in C : Cardinality({x \in S : class[x] = c}) <= d
    PROVE  Cardinality(S) <= d * Cardinality(C)
<1> DEFINE one == [x \in S |-> 1]
           In(c) == {x \in S : class[x] = c}
           parts == [c \in C |-> SumFunctionOnSet(one, In(c))]
           unit == [c \in C |-> 1]
           full == [c \in C |-> d]
<1>1. /\ \A x \in S : one[x] = 1 /\ one[x] \in Int
      /\ \A c \in C : unit[c] = 1 /\ unit[c] \in Int /\ full[c] = d * unit[c]
                      /\ full[c] \in Int /\ full[c] = d
  OBVIOUS
<1>2. /\ DOMAIN parts = C
      /\ \A c \in C : parts[c] = SumFunctionOnSet(one, In(c)) /\ In(c) \in SUBSET S
  OBVIOUS
<1>3. SumFunction(parts) = SumFunctionOnSet(one, S)
  <2> HIDE DEF one, unit, full
  <2> QED BY <1>1, SumByClass
<1>4. SumFunction(parts) = SumFunctionOnSet(parts, C)
  BY <1>2 DEF SumFunction
<1>a. \A c \in C : Cardinality(In(c)) <= d
  OBVIOUS
<1> HIDE DEF one, parts, unit, full, In
<1>5. ASSUME NEW c \in C PROVE parts[c] \in Int /\ parts[c] <= full[c]
  <2>1. IsFiniteSet(In(c)) /\ Cardinality(In(c)) \in Nat
    BY <1>2, FS_Subset, FS_CardinalityType
  <2>2. \A x \in In(c) : one[x] = 1
    BY <1>1, <1>2
  <2>3. parts[c] = Cardinality(In(c))
    BY <1>2, <2>1, <2>2, CountIsSum
  <2> QED BY <1>1, <1>a, <2>1, <2>3
<1>6. SumFunctionOnSet(parts, C) <= SumFunctionOnSet(full, C)
  BY <1>1, <1>5, SumMono
<1>7. SumFunctionOnSet(full, C) = d * SumFunctionOnSet(unit, C)
  BY <1>1, SumScale
<1>8. SumFunctionOnSet(unit, C) = Cardinality(C) /\ SumFunctionOnSet(one, S) = Cardinality(S)
  BY <1>1, CountIsSum
<1> QED BY <1>3, <1>4, <1>6, <1>7, <1>8

\* The order in which places are picked.
LEMMA PlacesInOrder ==
    ASSUME NEW n \in Nat, NEW places \in SUBSET (1..n)
    PROVE  /\ IsFiniteSet(places) /\ Cardinality(places) \in 0..n
           /\ Sorted(places) \in Injection(1..Cardinality(places), places)
<1> DEFINE c == Cardinality(places)  o == Sorted(places)
<1>1. IsFiniteSet(places) /\ c \in Nat /\ c <= n
  <2>1. IsFiniteSet(1..n) /\ Cardinality(1..n) = n
    BY FS_Interval
  <2> QED BY <2>1, FS_Subset, FS_CardinalityType
<1>2. o \in [1..c -> places] /\ \A i, j \in 1..c : o[i] = o[j] => i = j
  <2>1. places \subseteq Int
    OBVIOUS
  <2> QED BY <1>1, <2>1, SortedIsInjective
<1>3. o \in Injection(1..c, places)
  <2> HIDE DEF o, c
  <2> QED BY <1>2 DEF Injection, IsInjective
<1> QED BY <1>1, <1>3

\* What is picked out of a list.
LEMMA PickedIs ==
    ASSUME NEW n \in Nat, NEW s, NEW places \in SUBSET (1..n)
    PROVE  /\ IsList(Picked(s, places))
           /\ Len(Picked(s, places)) = Cardinality(places)
           /\ DOMAIN Picked(s, places) = 1..Cardinality(places)
           /\ \A k \in 1..Cardinality(places) : Picked(s, places)[k] = s[Sorted(places)[k]]
<1> DEFINE c == Cardinality(places)  o == Sorted(places)  p == Picked(s, places)
<1>1. c \in Nat
  BY PlacesInOrder
<1>2. p = [k \in 1..c |-> s[o[k]]]
  BY DEF Picked
<1> HIDE DEF p, o, c
<1>3. p = [k \in 1..c |-> p[k]] /\ \A k \in 1..c : p[k] = s[o[k]]
  BY <1>2
<1>4. IsList(p) /\ Len(p) = c /\ DOMAIN p = 1..c
  BY <1>1, <1>3, IsListed
<1> QED BY <1>3, <1>4 DEF p, o, c

\* Picking adds nothing to a class of places.
LEMMA PickedCount ==
    ASSUME NEW n \in Nat, NEW places \in SUBSET (1..n), NEW K \in SUBSET (1..n)
    PROVE  Cardinality({k \in 1..Cardinality(places) : Sorted(places)[k] \in K}) <= Cardinality(K)
<1>1. Sorted(places) \in Injection(1..Cardinality(places), places)
  BY PlacesInOrder
<1>2. IsFiniteSet(K)
  <2>1. IsFiniteSet(1..n)
    BY FS_Interval
  <2> QED BY <2>1, FS_Subset
<1> DEFINE c == Cardinality(places)  o == Sorted(places)
           L == {k \in 1..c : o[k] \in K}
           f == [k \in L |-> o[k]]
<1>a. o \in Injection(1..c, places)
  BY <1>1
<1>3. L \subseteq 1..c /\ \A k \in L : o[k] \in K
  OBVIOUS
<1> HIDE DEF L, o, c
<1>4. f \in [L -> K] /\ \A i, j \in L : f[i] = f[j] => i = j
  BY <1>a, <1>3 DEF Injection, IsInjective
<1>5. f \in Injection(L, K)
  <2> HIDE DEF f
  <2> QED BY <1>4 DEF Injection, IsInjective
<1>6. Cardinality(L) <= Cardinality(K)
  BY <1>2, <1>5, FS_Injection
<1> QED BY <1>6 DEF L, o, c

-----------------------------------------------------------------------------
(* Rings.                                                                    *)

Places(ring, from) == {j \in DOMAIN ring : ring[j].from = from}

LEMMA RingIs ==
    ASSUME NEW r, IsRing(r)
    PROVE  /\ Len(r) \in Nat /\ DOMAIN r = 1..Len(r)
           /\ \A f : Places(r, f) \in SUBSET (1..Len(r)) /\ Cardinality(Places(r, f)) <= DayCap
                     /\ Cardinality(Places(r, f)) \in Nat
<1>1. Len(r) \in Nat /\ DOMAIN r = 1..Len(r)
  BY LenProperties DEF IsRing, IsList
<1>2. ASSUME NEW f
      PROVE  /\ Places(r, f) \in SUBSET (1..Len(r)) /\ Cardinality(Places(r, f)) <= DayCap
             /\ Cardinality(Places(r, f)) \in Nat
  <2>1. Places(r, f) \in SUBSET (1..Len(r))
    BY <1>1 DEF Places
  <2>2. Cardinality(Places(r, f)) \in Nat
    <3>1. IsFiniteSet(1..Len(r))
      BY <1>1, FS_Interval
    <3> QED BY <2>1, <3>1, FS_Subset, FS_CardinalityType
  <2>3. CASE Places(r, f) = {}
    BY <2>1, <2>2, <2>3, FS_EmptySet, QuantileAssumption
  <2>4. CASE Places(r, f) # {}
    <3>1. PICK i \in DOMAIN r : r[i].from = f
      BY <2>4 DEF Places
    <3>2. Places(r, f) = {j \in DOMAIN r : r[j].from = r[i].from}
      BY <3>1 DEF Places
    <3> QED BY <2>1, <2>2, <3>2 DEF IsRing
  <2> QED BY <2>3, <2>4
<1> QED BY <1>1, <1>2

\* A part of a ring is one.
LEMMA PickedRing ==
    ASSUME NEW r, IsRing(r), NEW places \in SUBSET DOMAIN r
    PROVE  /\ IsRing(Picked(r, places)) /\ Len(Picked(r, places)) = Cardinality(places)
           /\ \A k \in DOMAIN Picked(r, places) : \E i \in places : Picked(r, places)[k] = r[i]
<1> DEFINE n == Len(r)  c == Cardinality(places)  o == Sorted(places)  p == Picked(r, places)
<1>1. n \in Nat /\ DOMAIN r = 1..n /\ places \in SUBSET (1..n)
  BY RingIs
<1>2. o \in Injection(1..c, places)
  BY <1>1, PlacesInOrder
<1>3. /\ IsList(p) /\ Len(p) = c /\ DOMAIN p = 1..c
      /\ \A k \in 1..c : p[k] = r[o[k]]
  BY <1>1, PickedIs
<1> HIDE DEF p
<1>4. \A k \in 1..c : o[k] \in places /\ o[k] \in DOMAIN r
  <2> HIDE DEF o, c
  <2> QED BY <1>2 DEF Injection
<1>5. ASSUME NEW f PROVE Cardinality(Places(p, f)) <= DayCap
  <2> DEFINE K == Places(r, f)
             L == {k \in 1..c : o[k] \in K}
  <2>1. K \in SUBSET (1..n) /\ Cardinality(K) <= DayCap /\ Cardinality(K) \in Nat
    BY RingIs
  <2>2. Cardinality(L) <= Cardinality(K)
    BY <1>1, <2>1, PickedCount
  <2>3. Places(p, f) = L
    BY <1>3, <1>4 DEF Places
  <2>4. Cardinality(L) \in Nat
    <3>1. c \in Nat
      BY <1>1, PlacesInOrder
    <3>2. IsFiniteSet(1..c) /\ L \in SUBSET (1..c)
      BY <3>1, FS_Interval
    <3> HIDE DEF L
    <3> QED BY <3>2, FS_Subset, FS_CardinalityType
  <2> HIDE DEF L, K
  <2> QED BY <2>1, <2>2, <2>3, <2>4, QuantileAssumption
<1>6. \A k \in 1..c : IsSample(p[k])
  BY <1>3, <1>4 DEF IsRing
<1>7. \A k, l \in 1..c : p[k].from = p[l].from => (p[k].day = Null <=> p[l].day = Null)
  BY <1>3, <1>4 DEF IsRing
<1>8. IsRing(p)
  <2>1. \A i \in DOMAIN p : Cardinality({j \in DOMAIN p : p[j].from = p[i].from}) <= DayCap
    BY <1>5 DEF Places
  <2> HIDE DEF c
  <2> QED BY <1>3, <1>6, <1>7, <2>1 DEF IsRing
<1>9. \A k \in DOMAIN p : \E i \in places : p[k] = r[i]
  BY <1>3, <1>4
<1> QED BY <1>3, <1>8, <1>9 DEF p

LEMMA EarliestOf ==
    ASSUME NEW r, IsRing(r), NEW P \in SUBSET DOMAIN r, P # {}
    PROVE  \E m \in P : \A i \in P \ {m} : Older(r, m, i)
<1> DEFINE n == Len(r)
           undated == {i \in P : r[i].day = Null}
<1>1. n \in Nat /\ DOMAIN r = 1..n
  BY RingIs
<1>2. \A i \in P : r[i].day = Null \/ (r[i].day \in Int /\ r[i].day # Null)
  BY NullAssumption DEF IsRing, IsSample
<1>3. IsFiniteSet(P) /\ P \subseteq Int
  <2>1. IsFiniteSet(1..n)
    BY <1>1, FS_Interval
  <2> HIDE DEF n
  <2>2. IsFiniteSet(P)
    BY <1>1, <2>1, FS_Subset
  <2> QED BY <1>1, <2>2
<1>4. CASE undated # {}
  <2>1. IsFiniteSet(undated) /\ undated \subseteq Int
    BY <1>3, FS_Subset
  <2>2. PICK m \in undated : \A j \in undated : m <= j
    BY <1>4, <2>1, LeastNumber
  <2>3. ASSUME NEW i \in P \ {m} PROVE Older(r, m, i)
    <3>1. CASE r[i].day = Null
      <4>1. m \in Int /\ i \in Int /\ m <= i /\ m # i
        BY <1>3, <2>2, <3>1
      <4>2. m < i
        BY <4>1
      <4> QED BY <2>2, <3>1, <4>2 DEF Older
    <3>2. CASE r[i].day # Null
      BY <2>2, <3>2 DEF Older
    <3> QED BY <3>1, <3>2
  <2> QED BY <2>2, <2>3
<1>5. CASE undated = {}
  <2> DEFINE w == [i \in P |-> -r[i].day]
  <2>1. \A i \in P : r[i].day \in Int /\ r[i].day # Null
    BY <1>2, <1>5
  <2>2. \A i \in P : w[i] \in Int /\ w[i] = -r[i].day
    BY <2>1
  <2> HIDE DEF w
  <2>3. PICK x \in P : \A y \in P : w[x] >= w[y]
    BY <1>3, <2>2, Heaviest
  <2>4. \A y \in P : r[x].day <= r[y].day
    BY <2>1, <2>2, <2>3
  <2> DEFINE ties == {i \in P : r[i].day = r[x].day}
  <2>5. IsFiniteSet(ties) /\ ties \subseteq Int /\ ties # {}
    BY <1>3, FS_Subset
  <2>6. PICK m \in ties : \A j \in ties : m <= j
    BY <2>5, LeastNumber
  <2>7. ASSUME NEW i \in P \ {m} PROVE Older(r, m, i)
    <3>1. CASE r[i].day = r[x].day
      <4>1. m \in Int /\ i \in Int /\ m <= i /\ m # i
        BY <1>3, <2>6, <3>1
      <4>2. m < i
        BY <4>1
      <4> QED BY <2>6, <3>1, <4>2 DEF Older
    <3>2. CASE r[i].day # r[x].day
      <4>1. r[m].day = r[x].day /\ r[x].day <= r[i].day
        BY <2>4, <2>6
      <4>2. r[m].day \in Int /\ r[i].day \in Int /\ r[m].day # Null /\ r[i].day # Null
        BY <2>1, <2>6
      <4>3. r[m].day < r[i].day
        BY <3>2, <4>1, <4>2
      <4> QED BY <4>2, <4>3 DEF Older
    <3> QED BY <3>1, <3>2
  <2> QED BY <2>6, <2>7
<1> QED BY <1>4, <1>5

\* Of a ring no more is kept than it may hold.
LEMMA KeptFits ==
    ASSUME NEW r, IsRing(r)
    PROVE  Kept(r) \in SUBSET DOMAIN r /\ Cardinality(Kept(r)) <= RingCap
<1> DEFINE n == Len(r)  K == Kept(r)
<1>1. n \in Nat /\ DOMAIN r = 1..n /\ K \in SUBSET DOMAIN r
  BY RingIs DEF Kept
<1>2. IsFiniteSet(DOMAIN r)
  BY <1>1, FS_Interval
<1>3. IsFiniteSet(K) /\ Cardinality(K) \in Nat
  BY <1>1, <1>2, FS_Subset, FS_CardinalityType
<1>4. CASE K = {}
  BY <1>4, FS_EmptySet, QuantileAssumption
<1>5. CASE K # {}
  <2> HIDE DEF K
  <2>1. PICK m \in K : \A i \in K \ {m} : Older(r, m, i)
    BY <1>1, <1>5, EarliestOf
  <2> DEFINE after == {j \in DOMAIN r : Older(r, m, j)}
  <2>2. Cardinality(after) < RingCap
    BY <2>1 DEF K, Kept
  <2>3. K \ {m} \in SUBSET after /\ after \in SUBSET DOMAIN r
    BY <1>1, <2>1
  <2> HIDE DEF after
  <2>4. IsFiniteSet(after) /\ Cardinality(after) \in Nat
    BY <1>2, <2>3, FS_Subset, FS_CardinalityType
  <2>5. Cardinality(K \ {m}) <= Cardinality(after) /\ Cardinality(K \ {m}) = Cardinality(K) - 1
    BY <1>3, <2>1, <2>3, <2>4, FS_Subset, FS_RemoveElement
  <2>6. RingCap \in Nat
    BY QuantileAssumption
  <2> DEFINE x == Cardinality(K)  y == Cardinality(after)
  <2>7. x \in Nat /\ y \in Nat /\ x - 1 <= y /\ y < RingCap
    BY <1>3, <2>2, <2>4, <2>5
  <2> HIDE DEF x, y
  <2>8. x <= RingCap
    BY <2>6, <2>7
  <2> QED BY <1>1, <2>8 DEF x, K
<1> QED BY <1>1, <1>4, <1>5

\* A trimmed ring is one, within its cap and its window.
LEMMA TrimmedIs ==
    ASSUME NEW r, IsRing(r), NEW asOf \in Int
    PROVE  /\ IsRing(TrimmedRing(r, asOf)) /\ Len(TrimmedRing(r, asOf)) <= RingCap
           /\ \A k \in DOMAIN TrimmedRing(r, asOf) :
                 /\ TrimmedRing(r, asOf)[k].day # Null => TrimmedRing(r, asOf)[k].day >= asOf - RingDays
                 /\ \E i \in DOMAIN r : TrimmedRing(r, asOf)[k] = r[i]
<1> DEFINE young == {i \in DOMAIN r : r[i].day = Null \/ r[i].day >= asOf - RingDays}
           recent == Picked(r, young)
           t == TrimmedRing(r, asOf)
<1>1. /\ young \in SUBSET DOMAIN r
      /\ \A i \in young : r[i].day # Null => r[i].day >= asOf - RingDays
  OBVIOUS
<1>2. t = Picked(recent, Kept(recent))
  BY DEF TrimmedRing
<1> HIDE DEF young, recent, t
<1>3. IsRing(recent) /\ \A k \in DOMAIN recent : \E i \in young : recent[k] = r[i]
  BY <1>1, PickedRing DEF recent
<1>4. Kept(recent) \in SUBSET DOMAIN recent /\ Cardinality(Kept(recent)) <= RingCap
  BY <1>3, KeptFits
<1>5. /\ IsRing(t) /\ Len(t) = Cardinality(Kept(recent))
      /\ \A k \in DOMAIN t : \E i \in Kept(recent) : t[k] = recent[i]
  BY <1>2, <1>3, <1>4, PickedRing
<1>6. \A k \in DOMAIN t : \E i \in young : t[k] = r[i]
  BY <1>3, <1>4, <1>5
<1> QED BY <1>1, <1>4, <1>5, <1>6 DEF t

\* The days behind a ring are no fewer than its evidence says.
LEMMA EvidenceIsOfDays ==
    ASSUME NEW r, IsRing(r)
    PROVE  /\ EvidenceDays(r) \in Nat /\ Cardinality({r[i].from : i \in DOMAIN r}) \in Nat
           /\ EvidenceDays(r) <= Cardinality({r[i].from : i \in DOMAIN r})
<1> DEFINE n == Len(r)
           from == [i \in 1..n |-> r[i].from]
           N == {i \in 1..n : r[i].day = Null}
           F == {r[i].from : i \in 1..n}
           U == {r[i].from : i \in N}
           D == {r[i].day : i \in 1..n} \ {Null}
           days == {r[i].day : i \in 1..n}
<1>1. n \in Nat /\ DOMAIN r = 1..n /\ \A i \in 1..n : IsSample(r[i])
  BY RingIs DEF IsRing
<1>2. \A i, j \in 1..n : r[i].from = r[j].from => (r[i].day = Null <=> r[j].day = Null)
  BY <1>1 DEF IsRing
<1>3. F = D \cup U /\ D \cap U = {}
  <2>1. \A i \in 1..n : r[i].day = Null \/ (r[i].day # Null /\ r[i].day = r[i].from)
    BY <1>1, NullAssumption DEF IsSample
  <2>2. \A i \in 1..n : r[i].from # Null
    BY <1>1, NullAssumption DEF IsSample
  <2> HIDE DEF n
  <2> QED BY <1>2, <2>1, <2>2
<1>4. IsFiniteSet(F) /\ IsFiniteSet(D) /\ IsFiniteSet(U) /\ IsFiniteSet(N)
  <2>1. IsFiniteSet(1..n)
    BY <1>1, FS_Interval
  <2>2. from \in Surjection(1..n, F)
    BY DEF Surjection
  <2> HIDE DEF n, from, F
  <2>3. IsFiniteSet(F)
    BY <2>1, <2>2, FS_Surjection
  <2>4. D \in SUBSET F /\ U \in SUBSET F /\ N \in SUBSET (1..n)
    BY <1>3
  <2> HIDE DEF D, U, N
  <2> QED BY <2>1, <2>3, <2>4, FS_Subset
<1>5. /\ Cardinality(F) = Cardinality(D) + Cardinality(U)
      /\ Cardinality(D) \in Nat /\ Cardinality(U) \in Nat /\ Cardinality(N) \in Nat
  <2> HIDE DEF F, D, U, N
  <2>1. Cardinality(D \cup U) = Cardinality(D) + Cardinality(U) - Cardinality(D \cap U)
    BY <1>4, FS_Union
  <2>2. Cardinality(D \cap U) = 0
    BY <1>3, FS_EmptySet
  <2>3. Cardinality(D) \in Nat /\ Cardinality(U) \in Nat /\ Cardinality(N) \in Nat
    BY <1>4, FS_CardinalityType
  <2> QED BY <1>3, <2>1, <2>2, <2>3
<1>6. Cardinality(N) <= DayCap * Cardinality(U)
  <2>1. \A i \in N : from[i] \in U
    OBVIOUS
  <2>2. ASSUME NEW c \in U PROVE Cardinality({i \in N : from[i] = c}) <= DayCap
    <3> DEFINE A == {i \in N : from[i] = c}
    <3>1. A \in SUBSET Places(r, c)
      BY <1>1 DEF Places
    <3>2. IsFiniteSet(Places(r, c)) /\ Cardinality(Places(r, c)) <= DayCap
          /\ Cardinality(Places(r, c)) \in Nat
      <4>1. IsFiniteSet(1..n)
        BY <1>1, FS_Interval
      <4>2. Places(r, c) \in SUBSET (1..n) /\ Cardinality(Places(r, c)) <= DayCap
            /\ Cardinality(Places(r, c)) \in Nat
        BY RingIs
      <4> HIDE DEF n
      <4> QED BY <4>1, <4>2, FS_Subset
    <3> HIDE DEF A
    <3>3. Cardinality(A) <= Cardinality(Places(r, c)) /\ Cardinality(A) \in Nat
      BY <3>1, <3>2, FS_Subset, FS_CardinalityType
    <3>4. Cardinality(A) <= DayCap
      BY <3>2, <3>3, QuantileAssumption
    <3> QED BY <3>4 DEF A
  <2>3. DayCap \in Nat
    BY QuantileAssumption
  <2> HIDE DEF from, U, N
  <2> QED BY <1>4, <2>1, <2>2, <2>3, ClassesHold
<1>7. EvidenceDays(r) = Cardinality(D) + CeilDiv(Cardinality(N), DayCap)
  BY <1>1 DEF EvidenceDays
<1> DEFINE a == Cardinality(N)  u == Cardinality(U)
<1>8. CeilDiv(a, DayCap) \in Nat /\ CeilDiv(a, DayCap) <= u
  <2>1. a \in Nat /\ u \in Nat /\ a <= DayCap * u /\ DayCap \in Nat /\ DayCap > 0
    BY <1>5, <1>6, QuantileAssumption
  <2> HIDE DEF a, u
  <2> DEFINE x == a + DayCap - 1
  <2>2. x \in Nat /\ x < DayCap * u + DayCap
    BY <2>1
  <2> HIDE DEF x
  <2>3. x \div DayCap \in Nat
    BY <2>1, <2>2, Quotient
  <2>4. x \div DayCap <= u
    BY <2>1, <2>2, FlooredBounds
  <2> QED BY <2>3, <2>4 DEF CeilDiv, x
<1> HIDE DEF F, D, U, N
<1>9. /\ EvidenceDays(r) \in Nat /\ Cardinality(F) \in Nat
      /\ EvidenceDays(r) <= Cardinality(F)
  BY <1>5, <1>7, <1>8
<1> QED BY <1>1, <1>9 DEF F

-----------------------------------------------------------------------------
(* Percentiles.                                                              *)

IsAscending(v, n) ==
    v \in [1..n -> Int] /\ \A i, j \in 1..n : i <= j => v[i] <= v[j]

\* A sorted list ascends.
LEMMA AscendingAscends ==
    ASSUME NEW n \in Nat, NEW s \in [1..n -> Int]
    PROVE  IsAscending(Ascending(s), n) /\ DOMAIN Ascending(s) = 1..n
<1> DEFINE values == {s[i] : i \in 1..n}
           Below(v) == {i \in 1..n : s[i] < v}
           UpTo(v) == {i \in 1..n : s[i] <= v}
           IsAt(k, v) == Cardinality(Below(v)) < k /\ k <= Cardinality(UpTo(v))
           a == Ascending(s)
<1>1. IsFiniteSet(1..n) /\ Cardinality(1..n) = n
  BY FS_Interval
<1>2. IsFiniteSet(values) /\ values \subseteq Int
  <2>1. s \in Surjection(1..n, values)
    BY DEF Surjection
  <2>2. values \subseteq Int
    OBVIOUS
  <2> HIDE DEF values
  <2> QED BY <1>1, <2>1, <2>2, FS_Surjection
<1>3. a = [k \in 1..n |-> CHOOSE v \in values : IsAt(k, v)]
  <2>1. DOMAIN s = 1..n
    OBVIOUS
  <2> DEFINE D == DOMAIN s
             of(E) == [k \in E |-> CHOOSE v \in {s[i] : i \in E} :
                          /\ Cardinality({i \in E : s[i] < v}) < k
                          /\ k <= Cardinality({i \in E : s[i] <= v})]
  <2>2. a = of(D)
    BY DEF Ascending
  <2>3. of(1..n) = [k \in 1..n |-> CHOOSE v \in values : IsAt(k, v)]
    OBVIOUS
  <2>4. D = 1..n
    BY <2>1
  <2> HIDE DEF D, of, a, values, IsAt
  <2>5. of(D) = of(1..n)
    BY <2>4
  <2> QED BY <2>2, <2>3, <2>5
<1>4. ASSUME NEW v
      PROVE  /\ Below(v) \in SUBSET (1..n) /\ UpTo(v) \in SUBSET (1..n)
             /\ IsFiniteSet(Below(v)) /\ IsFiniteSet(UpTo(v))
             /\ Cardinality(Below(v)) \in Nat /\ Cardinality(UpTo(v)) \in Nat
  <2>1. Below(v) \in SUBSET (1..n) /\ UpTo(v) \in SUBSET (1..n)
    OBVIOUS
  <2> HIDE DEF Below, UpTo
  <2> QED BY <1>1, <2>1, FS_Subset, FS_CardinalityType
<1>5. ASSUME NEW u \in values, NEW v \in values, u < v
      PROVE  Cardinality(UpTo(u)) <= Cardinality(Below(v))
  <2>1. UpTo(u) \in SUBSET Below(v)
    <3>1. \A i \in 1..n : s[i] \in Int
      OBVIOUS
    <3>2. u \in Int /\ v \in Int
      BY <1>2
    <3> QED BY <1>5, <3>1, <3>2
  <2> HIDE DEF Below, UpTo
  <2> QED BY <1>4, <2>1, FS_Subset
<1>6. ASSUME NEW k \in 1..n PROVE \E v \in values : IsAt(k, v)
  <2> DEFINE enough == {v \in values : k <= Cardinality(UpTo(v))}
             w == [v \in values |-> v]
  <2>1. enough # {}
    <3>1. values # {} /\ \A v \in values : w[v] \in Int /\ w[v] = v
      BY <1>2, <1>6
    <3> HIDE DEF w
    <3>2. PICK v \in values : \A u \in values : w[v] >= w[u]
      BY <1>2, <3>1, Heaviest
    <3>3. \A i \in 1..n : s[i] \in values
      OBVIOUS
    <3>4. \A i \in 1..n : s[i] <= v
      BY <3>1, <3>2, <3>3
    <3>5. UpTo(v) = 1..n
      BY <3>4
    <3>6. k <= Cardinality(UpTo(v))
      <4> HIDE DEF UpTo
      <4> QED BY <1>1, <1>6, <3>5
    <3> QED BY <3>2, <3>6
  <2>2. IsFiniteSet(enough) /\ enough \subseteq Int
    <3>1. enough \in SUBSET values
      OBVIOUS
    <3> HIDE DEF enough
    <3> QED BY <1>2, <3>1, FS_Subset
  <2> HIDE DEF enough
  <2>3. PICK v \in enough : \A u \in enough : v <= u
    BY <2>1, <2>2, LeastNumber
  <2>4. v \in values /\ k <= Cardinality(UpTo(v))
    BY <2>3 DEF enough
  <2>5. Cardinality(Below(v)) < k
    <3> DEFINE lower == {u \in values : u < v}
    <3>1. CASE lower = {}
      <4>1. Below(v) = {}
        BY <3>1
      <4>2. Cardinality(Below(v)) = 0
        BY <4>1, FS_EmptySet
      <4> QED BY <1>6, <4>2
    <3>2. CASE lower # {}
      <4>1. \A u \in lower : w[u] \in Int /\ w[u] = u
        BY <1>2
      <4>2. IsFiniteSet(lower)
        <5>1. lower \in SUBSET values
          OBVIOUS
        <5> HIDE DEF lower
        <5> QED BY <1>2, <5>1, FS_Subset
      <4>3. \A u \in lower : u \in values /\ u < v
        OBVIOUS
      <4>4. \A i \in 1..n : s[i] < v => s[i] \in lower
        OBVIOUS
      <4> HIDE DEF w, lower
      <4>5. PICK u \in lower : \A x \in lower : w[u] >= w[x]
        BY <3>2, <4>1, <4>2, Heaviest
      <4>6. \A x \in lower : x <= u
        BY <4>1, <4>5
      <4>7. Below(v) \in SUBSET UpTo(u)
        BY <4>4, <4>6
      <4>8. Cardinality(Below(v)) <= Cardinality(UpTo(u))
        <5> HIDE DEF Below, UpTo
        <5> QED BY <1>4, <4>7, FS_Subset
      <4>9. ~(v <= u)
        BY <1>2, <2>4, <4>3, <4>5
      <4>10. u \notin enough
        BY <2>3, <4>9
      <4>11. ~(k <= Cardinality(UpTo(u)))
        BY <4>3, <4>5, <4>10 DEF enough
      <4> HIDE DEF Below, UpTo
      <4> QED BY <1>4, <1>6, <4>8, <4>11
    <3> QED BY <3>1, <3>2
  <2> QED BY <2>4, <2>5
<1> HIDE DEF IsAt, a
<1>7. \A k \in 1..n : a[k] \in values /\ IsAt(k, a[k])
  BY <1>3, <1>6
<1>8. a \in [1..n -> Int]
  <2> HIDE DEF values
  <2> QED BY <1>2, <1>3, <1>7
<1>9. ASSUME NEW i \in 1..n, NEW j \in 1..n, i <= j PROVE a[i] <= a[j]
  <2>1. SUFFICES ASSUME ~(a[i] <= a[j]) PROVE FALSE
    OBVIOUS
  <2>2. a[j] < a[i] /\ a[i] \in values /\ a[j] \in values
    <3> HIDE DEF values
    <3> QED BY <1>7, <1>8, <2>1
  <2>3. Cardinality(UpTo(a[j])) <= Cardinality(Below(a[i]))
    BY <1>5, <2>2
  <2>4. Cardinality(Below(a[i])) < i /\ j <= Cardinality(UpTo(a[j]))
    BY <1>7 DEF IsAt
  <2> HIDE DEF Below, UpTo
  <2> QED BY <1>4, <1>9, <2>3, <2>4
<1>10. IsAscending(a, n) /\ DOMAIN a = 1..n
  BY <1>8, <1>9 DEF IsAscending
<1> QED BY <1>10 DEF a

\* The value at a hundredth of a place, counted from zero.
ValueAt(v, x) ==
    v[x \div 100 + 1] + ((x % 100) * (v[CeilDiv(x, 100) + 1] - v[x \div 100 + 1])) \div 100

LEMMA PlacesOf ==
    ASSUME NEW n \in Nat, NEW x \in Nat, x <= 100 * (n - 1)
    PROVE  /\ x \div 100 \in 0..(n - 1) /\ x % 100 \in 0..99
           /\ x = 100 * (x \div 100) + (x % 100)
           /\ x % 100 = 0 => CeilDiv(x, 100) = x \div 100
           /\ x % 100 # 0 => CeilDiv(x, 100) = x \div 100 + 1 /\ x \div 100 + 1 <= n - 1
<1> DEFINE q == x \div 100  r == x % 100
<1>1. q \in Nat /\ r \in 0..99 /\ x = 100 * q + r
  OBVIOUS
<1>2. CeilDiv(x, 100) = (x + 99) \div 100
  BY DEF CeilDiv
<1> HIDE DEF q, r
<1>3. q \in 0..(n - 1)
  BY <1>1
<1>4. r = 0 => (x + 99) \div 100 = q
  BY <1>1
<1>5. r # 0 => (x + 99) \div 100 = q + 1 /\ q + 1 <= n - 1
  BY <1>1
<1> QED BY <1>1, <1>2, <1>3, <1>4, <1>5 DEF q, r

\* It lies between its neighbours.
LEMMA ValueBetween ==
    ASSUME NEW n \in Nat, NEW v, IsAscending(v, n), NEW x \in Nat, x <= 100 * (n - 1)
    PROVE  /\ v[x \div 100 + 1] \in Int /\ v[CeilDiv(x, 100) + 1] \in Int
           /\ ValueAt(v, x) \in Int
           /\ v[x \div 100 + 1] <= ValueAt(v, x) /\ ValueAt(v, x) <= v[CeilDiv(x, 100) + 1]
           /\ x % 100 = 0 => ValueAt(v, x) = v[x \div 100 + 1]
<1> DEFINE q == x \div 100  r == x % 100  c == CeilDiv(x, 100)
           lo == v[q + 1]  hi == v[c + 1]
<1>1. /\ q \in 0..(n - 1) /\ r \in 0..99 /\ c \in 0..(n - 1) /\ q <= c
      /\ r = 0 => c = q
  <2>1. /\ q \in 0..(n - 1) /\ r \in 0..99
        /\ r = 0 => c = q
        /\ r # 0 => c = q + 1 /\ q + 1 <= n - 1
    BY PlacesOf
  <2> HIDE DEF q, r, c
  <2>2. CASE r = 0
    BY <2>1, <2>2
  <2>3. CASE r # 0
    BY <2>1, <2>3
  <2> QED BY <2>2, <2>3
<1>2. ValueAt(v, x) = lo + (r * (hi - lo)) \div 100
  BY DEF ValueAt
<1> HIDE DEF q, r, c
<1>3. lo \in Int /\ hi \in Int /\ lo <= hi /\ (r = 0 => hi = lo)
  <2>1. q + 1 \in 1..n /\ c + 1 \in 1..n /\ q + 1 <= c + 1
    BY <1>1
  <2> QED BY <1>1, <2>1 DEF IsAscending
<1> HIDE DEF lo, hi
<1> DEFINE d == hi - lo  y == r * d
<1>4. d \in Nat /\ r \in Nat /\ r <= 100 /\ (r = 0 => d = 0)
  BY <1>1, <1>3
<1> HIDE DEF d
<1>5. y \in Nat /\ y <= 100 * d /\ (r = 0 => y = 0)
  <2>1. r * d \in Nat
    BY <1>4
  <2>2. r * d <= 100 * d
    BY <1>4
  <2>3. r = 0 => r * d = 0
    BY <1>4
  <2> QED BY <2>1, <2>2, <2>3
<1> HIDE DEF y
<1>6. y \div 100 \in Nat /\ y \div 100 <= d /\ (r = 0 => y \div 100 = 0)
  BY <1>4, <1>5
<1>7. ValueAt(v, x) = lo + y \div 100
  BY <1>2 DEF y, d
<1>8. /\ ValueAt(v, x) \in Int /\ lo <= ValueAt(v, x) /\ ValueAt(v, x) <= hi
      /\ r = 0 => ValueAt(v, x) = lo
  <2>1. d = hi - lo
    BY DEF d
  <2> QED BY <1>3, <1>6, <1>7, <2>1
<1> QED BY <1>3, <1>8 DEF lo, hi, q, r, c

LEMMA ValueGrows ==
    ASSUME NEW n \in Nat, NEW v, IsAscending(v, n),
           NEW x \in Nat, NEW y \in Nat, x <= y, y <= 100 * (n - 1)
    PROVE  ValueAt(v, x) <= ValueAt(v, y)
<1> DEFINE q == x \div 100  r == x % 100  s == y \div 100  t == y % 100
<1>1. x <= 100 * (n - 1)
  OBVIOUS
<1>2. /\ v[q + 1] \in Int /\ v[CeilDiv(x, 100) + 1] \in Int /\ ValueAt(v, x) \in Int
      /\ v[q + 1] <= ValueAt(v, x) /\ ValueAt(v, x) <= v[CeilDiv(x, 100) + 1]
      /\ r = 0 => ValueAt(v, x) = v[q + 1]
  BY <1>1, ValueBetween
<1>3. /\ v[s + 1] \in Int /\ v[CeilDiv(y, 100) + 1] \in Int /\ ValueAt(v, y) \in Int
      /\ v[s + 1] <= ValueAt(v, y)
  BY ValueBetween
<1>4. /\ q \in 0..(n - 1) /\ r \in 0..99 /\ x = 100 * q + r
      /\ r = 0 => CeilDiv(x, 100) = q
      /\ r # 0 => CeilDiv(x, 100) = q + 1 /\ q + 1 <= n - 1
  BY <1>1, PlacesOf
<1>5. /\ s \in 0..(n - 1) /\ t \in 0..99 /\ y = 100 * s + t
      /\ t = 0 => CeilDiv(y, 100) = s
      /\ t # 0 => CeilDiv(y, 100) = s + 1 /\ s + 1 <= n - 1
  BY PlacesOf
<1>6. /\ ValueAt(v, x) = v[q + 1] + (r * (v[CeilDiv(x, 100) + 1] - v[q + 1])) \div 100
      /\ ValueAt(v, y) = v[s + 1] + (t * (v[CeilDiv(y, 100) + 1] - v[s + 1])) \div 100
  BY DEF ValueAt
<1> HIDE DEF q, r, s, t
<1>7. CASE q = s
  <2>1. r <= t
    BY <1>4, <1>5, <1>7
  <2>2. CASE r = 0
    BY <1>2, <1>3, <1>7, <2>2
  <2>3. CASE r # 0
    <3>1. t # 0
      BY <1>4, <1>5, <2>1, <2>3
    <3> DEFINE d == v[q + 2] - v[q + 1]  a == r * d  b == t * d
    <3>2. /\ CeilDiv(x, 100) + 1 = q + 2 /\ CeilDiv(y, 100) + 1 = q + 2
          /\ q + 1 \in 1..n /\ q + 2 \in 1..n /\ q + 1 <= q + 2
      BY <1>4, <1>5, <1>7, <2>3, <3>1
    <3>3. d \in Nat
      BY <3>2 DEF IsAscending
    <3>4. ValueAt(v, x) = v[q + 1] + a \div 100 /\ ValueAt(v, y) = v[q + 1] + b \div 100
      BY <1>6, <1>7, <3>2
    <3> HIDE DEF d
    <3>5. a \in Nat /\ b \in Nat /\ a <= b
      <4>1. r \in Nat /\ t \in Nat
        BY <1>4, <1>5
      <4> QED BY <2>1, <3>3, <4>1
    <3> HIDE DEF a, b
    <3>6. a \div 100 <= b \div 100 /\ a \div 100 \in Int /\ b \div 100 \in Int
      BY <3>5
    <3> QED BY <1>2, <3>4, <3>6
  <2> QED BY <2>2, <2>3
<1>8. CASE q # s
  <2>1. q + 1 <= s
    BY <1>4, <1>5, <1>8
  <2>2. CeilDiv(x, 100) + 1 \in 1..n /\ s + 1 \in 1..n /\ CeilDiv(x, 100) + 1 <= s + 1
    <3>1. CASE r = 0
      BY <1>4, <1>5, <2>1, <3>1
    <3>2. CASE r # 0
      BY <1>4, <1>5, <2>1, <3>2
    <3> QED BY <3>1, <3>2
  <2>3. v[CeilDiv(x, 100) + 1] <= v[s + 1]
    BY <2>2 DEF IsAscending
  <2> QED BY <1>2, <1>3, <2>3
<1> QED BY <1>7, <1>8

\* Percentiles of a sorted list are in order: the clamp that follows them in
\* bands_for_bin has nothing to do.
LEMMA PercentilesInOrder ==
    ASSUME NEW n \in Nat, n > 0, NEW v, IsAscending(v, n), Len(v) = n,
           NEW a \in 0..100, NEW b \in 0..100, a <= b
    PROVE  /\ Percentile(v, a) \in Int /\ Percentile(v, b) \in Int
           /\ Percentile(v, a) <= Percentile(v, b)
<1> DEFINE x == (n - 1) * a  y == (n - 1) * b  m == n - 1
<1>1. Percentile(v, a) = ValueAt(v, x) /\ Percentile(v, b) = ValueAt(v, y)
  BY DEF Percentile, ValueAt
<1>2. x \in Nat /\ y \in Nat /\ x <= y /\ x <= 100 * (n - 1) /\ y <= 100 * (n - 1)
  <2>1. m \in Nat /\ a \in Nat /\ b \in Nat /\ a <= b /\ b <= 100
    OBVIOUS
  <2> HIDE DEF m
  <2>2. m * a \in Nat /\ m * b \in Nat
    BY <2>1
  <2>3. m * a <= m * b
    BY <2>1
  <2>4. m * b <= m * 100
    BY <2>1
  <2>5. m * 100 = 100 * m
    BY <2>1
  <2> QED BY <2>2, <2>3, <2>4, <2>5 DEF m
<1> HIDE DEF x, y
<1>3. ValueAt(v, x) \in Int /\ ValueAt(v, y) \in Int
  BY <1>2, ValueBetween
<1>4. ValueAt(v, x) <= ValueAt(v, y)
  BY <1>2, ValueGrows
<1> QED BY <1>1, <1>3, <1>4

-----------------------------------------------------------------------------
(* What trains a ring.                                                       *)

\* An error is between its bounds.
LEMMA ErrorClamped ==
    ASSUME NEW x \in Int
    PROVE  Between(ErrMin, x, ErrMax) \in ErrMin..ErrMax
  BY QuantileAssumption DEF Between

\* What was measured at an hour is an integer.
LEMMA MeasuredIsInt ==
    ASSUME NEW label, IsLabel(label), NEW today,
           SiteMeasured(label.hourly, PlaneSet, today) # Null,
           NEW h \in DOMAIN SiteMeasured(label.hourly, PlaneSet, today)
    PROVE  SiteMeasured(label.hourly, PlaneSet, today)[h] \in Int
<1> DEFINE of(p) == InDay(Get(label.hourly, p, <<>>), today)
           common == {x \in UNION {DOMAIN of(p) : p \in PlaneSet} :
                         \A p \in PlaneSet : x \in DOMAIN of(p)}
           measured == SiteMeasured(label.hourly, PlaneSet, today)
<1>1. measured = [x \in common |-> Total([p \in PlaneSet |-> of(p)[x]])]
  BY DEF SiteMeasured
<1>2. h \in DOMAIN measured
  OBVIOUS
<1> HIDE DEF measured
<1>3. ASSUME NEW p \in PlaneSet PROVE IsCurve(of(p))
  <2>1. CASE p \in DOMAIN label.hourly
    BY <2>1, DayOfCurve DEF IsLabel, Get
  <2>2. CASE p \notin DOMAIN label.hourly
    <3>1. IsCurve(<<>>)
      BY FS_EmptySet DEF IsCurve
    <3> QED BY <2>2, <3>1, DayOfCurve DEF Get
  <2> QED BY <2>1, <2>2
<1> HIDE DEF of
<1>4. h \in common
  BY <1>1, <1>2
<1>5. IsCurve([p \in PlaneSet |-> of(p)[h]])
  BY <1>3, <1>4, PlanesAreFinite DEF IsCurve
<1>6. Total([p \in PlaneSet |-> of(p)[h]]) \in Int
  BY <1>5, TotalIsInt
<1> QED BY <1>1, <1>4, <1>6 DEF measured

IsErrors(news) ==
    \E n \in Nat : DOMAIN news = 1..n /\ \A i \in 1..n : news[i].err \in ErrMin..ErrMax

\* A day's samples are a list of errors.
LEMMA DayIsErrors ==
    ASSUME NEW day \in QKinds
    PROVE  IsErrors(DaySamples(day))
<1> DEFINE entry == IF DOMAIN day.issued.corrected # {} THEN day.issued.corrected ELSE day.issued.raw
           today == LocalDay(0)
           curve == MeteredModeled(InDay(Sanitised(entry), today), day.issued.correctedOf, PlaneSet)
           measured == SiteMeasured(day.label.hourly, PlaneSet, today)
           hours == {h \in DOMAIN curve \cap DOMAIN measured : curve[h] > MinForecast}
           order == Sorted(hours)
           c == Cardinality(hours)
           Error(h) == Between(ErrMin, (100 * measured[h]) \div curve[h], ErrMax)
           Bin(h) == <<Get(day.issued.class, h, "clear"), day.issued.part[h]>>
           news == DaySamples(day)
<1>1. news = IF curve = Null \/ measured = Null THEN <<>>
             ELSE [i \in DOMAIN order |-> [bin |-> Bin(order[i]), err |-> Error(order[i])]]
  BY DEF DaySamples
<1> HIDE DEF curve, measured, hours, order, c, Error, Bin, news
<1>2. CASE curve = Null \/ measured = Null
  <2>1. news = <<>>
    BY <1>1, <1>2
  <2>2. 0 \in Nat /\ DOMAIN news = 1..0 /\ \A i \in 1..0 : news[i].err \in ErrMin..ErrMax
    BY <2>1
  <2>3. IsErrors(news)
    BY <2>2 DEF IsErrors
  <2> QED BY <2>3 DEF news
<1>3. CASE curve # Null /\ measured # Null
  <2>1. curve = InDay(Sanitised(entry), today)
    <3>1. PlaneSet # {}
      BY <1>3 DEF MeteredModeled, curve
    <3> QED BY <3>1 DEF MeteredModeled, curve
  <2>2. IsCurve(Sanitised(entry)) /\ DOMAIN Sanitised(entry) \subseteq Int
    <3>1. IsCurve(Sanitised(entry)) /\ DOMAIN entry \subseteq Int
      BY QuantileAssumption DEF IsLayer
    <3> QED BY <3>1 DEF Sanitised, Where
  <2>3. IsCurve(curve) /\ DOMAIN curve \subseteq Int
    <3> DEFINE whole == Sanitised(entry)
    <3>1. DOMAIN InDay(whole, today) \subseteq DOMAIN whole
      BY DEF InDay, Where
    <3> HIDE DEF whole, today
    <3>2. IsCurve(InDay(whole, today))
      BY <2>2, DayOfCurve DEF whole
    <3> QED BY <2>1, <2>2, <3>1, <3>2 DEF whole
  <2>4. IsLabel(day.label)
    BY QuantileAssumption
  <2>5. \A h \in DOMAIN measured : measured[h] \in Int
    <3> DEFINE label == day.label
    <3>1. IsLabel(label) /\ measured = SiteMeasured(label.hourly, PlaneSet, today)
      BY <2>4 DEF measured
    <3> HIDE DEF label, today
    <3> QED BY <1>3, <3>1, MeasuredIsInt
  <2>6. news = [i \in DOMAIN order |-> [bin |-> Bin(order[i]), err |-> Error(order[i])]]
    BY <1>1, <1>3
  <2> HIDE DEF entry, today
  <2>7. ASSUME NEW h \in hours PROVE Error(h) \in ErrMin..ErrMax
    <3> DEFINE a == 100 * measured[h]  b == curve[h]
    <3>1. a \in Int /\ b \in Int /\ b > 0
      BY <2>3, <2>5, QuantileAssumption DEF IsCurve, hours
    <3> HIDE DEF a, b
    <3>2. a \div b \in Int
      BY <3>1, Floored
    <3>3. Between(ErrMin, a \div b, ErrMax) \in ErrMin..ErrMax
      BY <3>2, ErrorClamped
    <3> QED BY <3>3 DEF a, b, Error
  <2>8. IsFiniteSet(hours) /\ hours \subseteq Int
    <3>1. hours \in SUBSET DOMAIN curve
      BY DEF hours
    <3> QED BY <2>3, <3>1, FS_Subset DEF IsCurve
  <2>9. order \in [1..c -> hours] /\ c \in Nat
    BY <2>8, SortedIsInjective, FS_CardinalityType DEF order, c
  <2>10. DOMAIN news = 1..c /\ \A i \in 1..c : news[i].err = Error(order[i])
    BY <2>6, <2>9
  <2>11. \A i \in 1..c : news[i].err \in ErrMin..ErrMax
    BY <2>7, <2>9, <2>10
  <2>12. IsErrors(news)
    BY <2>9, <2>10, <2>11 DEF IsErrors
  <2> QED BY <2>12 DEF news
<1> QED BY <1>2, <1>3

\* A ring stays one with the new samples of a day, as many as the day has room for.
LEMMA GrownRing ==
    ASSUME NEW r, IsRing(r), NEW date \in Nat, NEW m \in Nat,
           NEW add, add = [k \in 1..m |-> add[k]],
           \A k \in 1..m : /\ add[k].day = date /\ add[k].from = date
                           /\ add[k].err \in ErrMin..ErrMax,
           m = 0 \/ Cardinality({i \in DOMAIN r : r[i].day = date}) + m <= DayCap
    PROVE  IsRing(r \o add)
<1> DEFINE n == Len(r)  q == r \o add
           X == {r[i] : i \in DOMAIN r} \cup {add[i] : i \in DOMAIN add}
<1>1. n \in Nat /\ DOMAIN r = 1..n /\ \A i \in 1..n : IsSample(r[i])
  BY RingIs DEF IsRing
<1>0. IsFiniteSet(1..n)
  BY <1>1, FS_Interval
<1>2. IsList(add) /\ Len(add) = m /\ DOMAIN add = 1..m
  BY IsListed
<1>3. r \in Seq(X) /\ add \in Seq(X)
  <2> DEFINE A == {r[i] : i \in DOMAIN r}  B == {add[i] : i \in DOMAIN add}
  <2>1. r \in Seq(A) /\ add \in Seq(B)
    BY <1>2 DEF IsRing, IsList
  <2>2. X = A \cup B
    OBVIOUS
  <2> HIDE DEF A, B, X
  <2> QED BY <2>1, <2>2, SeqDef
<1> HIDE DEF X
<1>4. /\ Len(q) = n + m /\ DOMAIN q = 1..(n + m) /\ q \in Seq(X)
      /\ \A i \in 1..(n + m) : q[i] = IF i <= n THEN r[i] ELSE add[i - n]
  <2>1. /\ q \in Seq(X) /\ Len(q) = n + m
        /\ \A i \in 1..(n + m) : q[i] = IF i <= n THEN r[i] ELSE add[i - n]
    BY <1>2, <1>3, ConcatProperties
  <2> HIDE DEF q, n
  <2> QED BY <2>1, LenProperties
<1> HIDE DEF q, n
<1>5. /\ \A i \in 1..n : q[i] = r[i]
      /\ \A i \in (n + 1)..(n + m) : i - n \in 1..m /\ q[i] = add[i - n]
  <2>1. ASSUME NEW i \in 1..n PROVE q[i] = r[i]
    <3>1. i \in 1..(n + m) /\ i <= n
      BY <1>1
    <3> QED BY <1>4, <3>1
  <2>2. ASSUME NEW i \in (n + 1)..(n + m) PROVE i - n \in 1..m /\ q[i] = add[i - n]
    <3>1. i \in 1..(n + m) /\ ~(i <= n) /\ i - n \in 1..m
      BY <1>1
    <3> QED BY <1>4, <3>1
  <2> QED BY <2>1, <2>2
<1>6. \A i \in 1..(n + m) : i \in 1..n \/ i \in (n + 1)..(n + m)
  BY <1>1
<1>7. IsList(q)
  <2> DEFINE Y == {q[i] : i \in 1..(n + m)}
  <2>1. q = [i \in 1..(n + m) |-> q[i]] /\ n + m \in Nat
    <3>1. q \in [1..(n + m) -> X]
      BY <1>1, <1>4, SeqDef
    <3> QED BY <1>1, <3>1
  <2> QED BY <2>1, IsListed
<1>8. \A i \in 1..(n + m) : IsSample(q[i])
  <2>1. \A k \in 1..m : IsSample(add[k])
    BY DEF IsSample
  <2> QED BY <1>1, <1>5, <1>6, <2>1
<1>9. \A i \in (n + 1)..(n + m) : q[i].day = date /\ q[i].from = date
  BY <1>5
<1>10. \A i \in 1..n : r[i].from = date => r[i].day = date
  BY <1>1, NullAssumption DEF IsSample
<1>11. \A i, j \in 1..(n + m) : q[i].from = q[j].from => (q[i].day = Null <=> q[j].day = Null)
  <2> SUFFICES ASSUME NEW i \in 1..(n + m), NEW j \in 1..(n + m), q[i].from = q[j].from
               PROVE  q[i].day = Null <=> q[j].day = Null
    OBVIOUS
  <2>0. date # Null
    BY NullAssumption
  <2>1. CASE i \in 1..n /\ j \in 1..n
    BY <1>1, <1>5, <2>1 DEF IsRing
  <2>2. CASE i \in 1..n /\ j \in (n + 1)..(n + m)
    BY <1>5, <1>9, <1>10, <2>0, <2>2
  <2>3. CASE i \in (n + 1)..(n + m) /\ j \in 1..n
    BY <1>5, <1>9, <1>10, <2>0, <2>3
  <2>4. CASE i \in (n + 1)..(n + m) /\ j \in (n + 1)..(n + m)
    BY <1>9, <2>4
  <2> QED BY <1>6, <2>1, <2>2, <2>3, <2>4
<1>12. ASSUME NEW f PROVE Cardinality(Places(q, f)) <= DayCap
  <2> DEFINE new == (n + 1)..(n + m)
  <2>1. Places(r, f) \in SUBSET (1..n) /\ Cardinality(Places(r, f)) <= DayCap
        /\ Cardinality(Places(r, f)) \in Nat
    BY RingIs DEF n
  <2>2. f # date \/ m = 0 => Places(q, f) = Places(r, f)
    <3>1. CASE f # date
      BY <1>1, <1>4, <1>5, <1>6, <1>9, <3>1 DEF Places
    <3>2. CASE m = 0
      BY <1>1, <1>4, <1>5, <3>2 DEF Places
    <3> QED BY <3>1, <3>2
  <2>3. f = date => Places(q, f) = Places(r, f) \cup new
    BY <1>1, <1>4, <1>5, <1>6, <1>9 DEF Places
  <2>4. Places(r, date) = {i \in DOMAIN r : r[i].day = date}
    <3>1. \A i \in 1..n : r[i].from = date <=> r[i].day = date
      BY <1>1, <1>10, NullAssumption DEF IsSample
    <3> QED BY <1>1, <3>1 DEF Places
  <2>5. CASE f # date \/ m = 0
    BY <2>1, <2>2, <2>5
  <2>6. CASE f = date /\ m # 0
    <3> DEFINE P == Places(r, f)
    <3>1. IsFiniteSet(new) /\ Cardinality(new) = m
      <4> DEFINE a == n + 1  z == n + m
      <4>1. a \in Int /\ z \in Int /\ ~(a > z) /\ z - a + 1 = m
        BY <1>1, <2>6
      <4> HIDE DEF a, z
      <4>2. IsFiniteSet(a..z) /\ Cardinality(a..z) = m
        BY <4>1, FS_Interval
      <4> QED BY <4>2 DEF a, z
    <3>2. IsFiniteSet(P)
      <4> HIDE DEF n
      <4> QED BY <1>0, <2>1, FS_Subset
    <3>3. P \cap new = {}
      BY <1>1, <2>1
    <3> HIDE DEF new, P
    <3>4. Cardinality(P \cup new) = Cardinality(P) + Cardinality(new) - Cardinality(P \cap new)
      BY <3>1, <3>2, FS_Union
    <3>5. Cardinality(P \cap new) = 0
      BY <3>3, FS_EmptySet
    <3>6. Cardinality(P) \in Nat
      BY <2>1 DEF P
    <3>7. Cardinality(P) + m <= DayCap
      <4>1. P = {i \in DOMAIN r : r[i].day = date}
        BY <2>4, <2>6 DEF P
      <4> QED BY <2>6, <4>1
    <3>8. Places(q, f) = P \cup new
      BY <2>3, <2>6 DEF P
    <3>9. Cardinality(P \cup new) = Cardinality(P) + m
      BY <3>1, <3>4, <3>5, <3>6
    <3> QED BY <3>7, <3>8, <3>9
  <2> QED BY <2>5, <2>6
<1>13. \A i \in DOMAIN q : Cardinality({j \in DOMAIN q : q[j].from = q[i].from}) <= DayCap
  BY <1>12 DEF Places
<1>14. IsRing(q)
  BY <1>4, <1>7, <1>8, <1>11, <1>13 DEF IsRing
<1> QED BY <1>14 DEF q

IsState(file) == \A b \in DOMAIN file : IsRing(file[b]) /\ Len(file[b]) \in 1..RingCap

LEMMA NoRing == IsRing(<<>>)
<1>1. IsList(<<>>) /\ DOMAIN <<>> = {}
  BY EmptySeq DEF IsList
<1> QED BY <1>1 DEF IsRing

\* A night leaves rings.
LEMMA TrainingKeepsRings ==
    ASSUME NEW old, IsState(old), NEW date \in Nat, NEW news, IsErrors(news)
    PROVE  IsState(TrainedRings(old, date, news))
<1> DEFINE bins == DOMAIN old \cup {news[i].bin : i \in DOMAIN news}
           Mine(b) == Picked(news, {i \in DOMAIN news : news[i].bin = b})
           Ring(b) == Get(old, b, <<>>)
           Had(b) == Cardinality({i \in DOMAIN Ring(b) : Ring(b)[i].day = date})
           Room(b) == Between(0, DayCap - Had(b), Len(Mine(b)))
           Taken(b) == SubSeq(Mine(b), 1, Room(b))
           Added(b) == [i \in DOMAIN Taken(b) |-> [day |-> date, err |-> Taken(b)[i].err, from |-> date]]
           Grown(b) == Ring(b) \o Added(b)
           all == [b \in bins |-> TrimmedRing(Grown(b), date)]
           new == TrainedRings(old, date, news)
<1>1. new = Where(all, LAMBDA b : all[b] # <<>>)
  BY DEF TrainedRings
<1> HIDE DEF new
<1>2. DOMAIN new \subseteq bins /\ \A b \in DOMAIN new : new[b] = TrimmedRing(Grown(b), date) /\ new[b] # <<>>
  <2>1. DOMAIN all = bins /\ \A b \in bins : all[b] = TrimmedRing(Grown(b), date)
    OBVIOUS
  <2> HIDE DEF all, bins, Grown
  <2>2. new = [k \in {x \in DOMAIN all : all[x] # <<>>} |-> all[k]]
    BY <1>1 DEF Where
  <2> QED BY <2>1, <2>2
<1>3. PICK n \in Nat : DOMAIN news = 1..n /\ \A i \in 1..n : news[i].err \in ErrMin..ErrMax
  BY DEF IsErrors
<1>4. ASSUME NEW b PROVE IsRing(Grown(b))
  <2>1. IsRing(Ring(b))
    BY NoRing DEF IsState, Get
  <2> DEFINE places == {i \in DOMAIN news : news[i].bin = b}  c == Cardinality(places)
             mine == Mine(b)  had == Had(b)  m == Room(b)  taken == Taken(b)  add == Added(b)
             ring == Ring(b)
  <2>2. places \in SUBSET (1..n)
    BY <1>3
  <2>3. c \in Nat /\ Sorted(places) \in [1..c -> places]
    <3> HIDE DEF places
    <3>1. Cardinality(places) \in 0..n /\ Sorted(places) \in Injection(1..Cardinality(places), places)
      BY ONLY <1>3, <2>2, PlacesInOrder
    <3>2. c \in Nat /\ Sorted(places) \in Injection(1..c, places)
      BY <3>1
    <3> HIDE DEF c
    <3> QED BY <3>2 DEF Injection
  <2>4. /\ IsList(mine) /\ Len(mine) = c /\ DOMAIN mine = 1..c
        /\ \A k \in 1..c : mine[k] = news[Sorted(places)[k]]
    <3>1. mine = Picked(news, places)
      OBVIOUS
    <3> HIDE DEF mine, places
    <3> QED BY <2>2, <3>1, PickedIs
  <2>5. \A k \in 1..c : mine[k].err \in ErrMin..ErrMax
    <3> HIDE DEF mine, c
    <3> QED BY <1>3, <2>2, <2>3, <2>4
  <2>6. had \in Nat /\ had = Cardinality({i \in DOMAIN ring : ring[i].day = date})
    <3> DEFINE D == {i \in DOMAIN ring : ring[i].day = date}
    <3>1. D \in SUBSET DOMAIN ring /\ had = Cardinality(D)
      OBVIOUS
    <3>2. IsFiniteSet(DOMAIN ring)
      <4>1. IsRing(ring)
        BY <2>1
      <4> HIDE DEF ring
      <4> QED BY <4>1, RingIs, FS_Interval
    <3> HIDE DEF D, ring, had
    <3>3. Cardinality(D) \in Nat
      BY <3>1, <3>2, FS_Subset, FS_CardinalityType
    <3> QED BY <3>1, <3>3 DEF D
  <2>7. m = Between(0, DayCap - had, Len(mine)) /\ taken = SubSeq(mine, 1, m)
    OBVIOUS
  <2>8. add = [i \in DOMAIN taken |-> [day |-> date, err |-> taken[i].err, from |-> date]]
    OBVIOUS
  <2>9. Grown(b) = ring \o add /\ IsRing(ring)
    BY <2>1
  <2> HIDE DEF places, c, mine, had, m, taken, add, ring, Grown
  <2>10. m \in 0..c /\ (m = 0 \/ had + m <= DayCap)
    BY <2>3, <2>4, <2>6, <2>7, QuantileAssumption DEF Between
  <2>11. DOMAIN taken = 1..m /\ \A k \in 1..m : taken[k] = mine[k]
    <3> DEFINE X == {mine[i] : i \in DOMAIN mine}
    <3>1. \A i \in 1..m : mine[i] \in X
      BY <2>3, <2>4, <2>10
    <3> HIDE DEF X
    <3>2. taken \in Seq(X) /\ Len(taken) = m /\ \A k \in 1..m : taken[k] = mine[k]
      BY <2>7, <2>10, <3>1, SubSeqProperties
    <3> QED BY <3>2, LenProperties
  <2>12. add = [k \in 1..m |-> add[k]]
    BY <2>8, <2>11
  <2>13. \A k \in 1..m : /\ add[k].day = date /\ add[k].from = date
                         /\ add[k].err \in ErrMin..ErrMax
    BY <2>3, <2>5, <2>8, <2>10, <2>11
  <2> QED BY <2>6, <2>9, <2>10, <2>12, <2>13, GrownRing
<1> HIDE DEF Grown, all
<1>5. ASSUME NEW b \in DOMAIN new PROVE IsRing(new[b]) /\ Len(new[b]) \in 1..RingCap
  <2>1. IsRing(new[b]) /\ Len(new[b]) <= RingCap
    BY <1>2, <1>4, TrimmedIs
  <2>2. Len(new[b]) \in Nat \ {0}
    BY <1>2, <2>1, EmptySeq DEF IsRing, IsList
  <2> QED BY <2>1, <2>2, QuantileAssumption
<1>6. IsState(new)
  BY <1>5 DEF IsState
<1> QED BY <1>6 DEF new

-----------------------------------------------------------------------------
(* What is read from a ring and from an ensemble.                            *)

\* The three percentiles of a list of numbers are numbers in order.
LEMMA SpreadInOrder ==
    ASSUME NEW n \in Nat, n > 0, NEW s \in [1..n -> Int]
    PROVE  /\ Percentile(Ascending(s), 10) \in Int /\ Percentile(Ascending(s), 50) \in Int
           /\ Percentile(Ascending(s), 90) \in Int
           /\ Percentile(Ascending(s), 10) <= Percentile(Ascending(s), 50)
           /\ Percentile(Ascending(s), 50) <= Percentile(Ascending(s), 90)
<1> DEFINE v == Ascending(s)
<1>1. IsAscending(v, n)
  BY AscendingAscends
<1> HIDE DEF v
<1>2. v = [i \in 1..n |-> v[i]]
  BY <1>1 DEF IsAscending
<1>3. Len(v) = n
  BY <1>2, IsListed
<1>4. Percentile(v, 10) \in Int /\ Percentile(v, 50) \in Int /\ Percentile(v, 10) <= Percentile(v, 50)
  <2>1. 10 \in 0..100 /\ 50 \in 0..100 /\ 10 <= 50
    OBVIOUS
  <2> QED BY <1>1, <1>3, <2>1, PercentilesInOrder
<1>5. Percentile(v, 90) \in Int /\ Percentile(v, 50) <= Percentile(v, 90)
  <2>1. 50 \in 0..100 /\ 90 \in 0..100 /\ 50 <= 90
    OBVIOUS
  <2> QED BY <1>1, <1>3, <2>1, PercentilesInOrder
<1> QED BY <1>4, <1>5 DEF v

\* The factors of an hour of the ensemble are numbers.
LEMMA FactorsAreInts ==
    ASSUME NEW members \in Members, NEW h \in DOMAIN EnsembleFactors(members)
    PROVE  EnsembleFactors(members)[h].lo \in Int /\ EnsembleFactors(members)[h].hi \in Int
<1> DEFINE Good(x) == Picked(members[x], {i \in DOMAIN members[x] : members[x][i] # Bad})
           Mult(x, i) == Between(SpreadMin, (100 * Good(x)[i]) \div DetGhi[x], SpreadMax)
           Spread(x) == [i \in DOMAIN Good(x) |-> Mult(x, i)]
           lo == Percentile(Ascending(Spread(h)), 10)
           hi == Percentile(Ascending(Spread(h)), 90)
           factors == EnsembleFactors(members)
<1>1. /\ h \in DOMAIN members /\ h \in DOMAIN DetGhi /\ DetGhi[h] >= MinDetGhi
      /\ Len(Good(h)) >= MinMembers
      /\ factors[h] = [lo |-> lo, hi |-> hi]
  <2> DEFINE hours == {x \in DOMAIN members : /\ x \in DOMAIN DetGhi
                                              /\ DetGhi[x] >= MinDetGhi
                                              /\ Len(Good(x)) >= MinMembers}
             Of(x) == [lo |-> Percentile(Ascending(Spread(x)), 10),
                       hi |-> Percentile(Ascending(Spread(x)), 90)]
  <2>1. factors = [x \in hours |-> Of(x)] /\ h \in DOMAIN factors
    BY DEF EnsembleFactors
  <2>2. Of(h) = [lo |-> lo, hi |-> hi]
    OBVIOUS
  <2> HIDE DEF factors, Of, lo, hi
  <2>3. h \in hours /\ factors[h] = Of(h)
    BY <2>1
  <2> QED BY <2>2, <2>3
<1>2. DetGhi[h] \in Int /\ members[h] \in Seq(Int \cup {Bad}) /\ MinDetGhi > 0 /\ MinMembers > 0
      /\ MinDetGhi \in Nat /\ MinMembers \in Nat
  BY <1>1, QuantileAssumption
<1> DEFINE says == members[h]  places == {i \in DOMAIN says : says[i] # Bad}
           c == Cardinality(places)  good == Good(h)  spread == Spread(h)
<1>3. good = Picked(says, places) /\ spread = [i \in DOMAIN good |-> Mult(h, i)]
  OBVIOUS
<1>4. PICK n \in Nat : DOMAIN says = 1..n /\ \A i \in places : i \in 1..n /\ says[i] \in Int
  <2>1. Len(says) \in Nat /\ DOMAIN says = 1..Len(says) /\ \A i \in 1..Len(says) : says[i] \in Int \cup {Bad}
    BY <1>2, LenProperties, ElementOfSeq
  <2> QED BY <2>1
<1>5. places \in SUBSET (1..n)
  BY <1>4
<1> HIDE DEF says, lo, hi, factors
<1>6. /\ c \in Nat /\ Sorted(places) \in [1..c -> places]
  <2> HIDE DEF places
  <2>1. Cardinality(places) \in 0..n /\ Sorted(places) \in Injection(1..Cardinality(places), places)
    BY ONLY <1>4, <1>5, PlacesInOrder
  <2>2. c \in Nat /\ Sorted(places) \in Injection(1..c, places)
    BY <2>1
  <2> HIDE DEF c
  <2> QED BY <2>2 DEF Injection
<1>7. DOMAIN good = 1..c /\ Len(good) = c /\ \A k \in 1..c : good[k] = says[Sorted(places)[k]]
  <2> HIDE DEF good, places
  <2>1. /\ DOMAIN Picked(says, places) = 1..c /\ Len(Picked(says, places)) = c
        /\ \A k \in 1..c : Picked(says, places)[k] = says[Sorted(places)[k]]
    BY <1>4, <1>5, PickedIs
  <2> HIDE DEF c
  <2> QED BY <1>3, <2>1
<1> DEFINE Of(k) == good[k]
<1>8. \A k \in 1..c : good[k] \in Int
  <2> HIDE DEF good, places, c
  <2> QED BY <1>4, <1>6, <1>7
<1>9. c > 0
  BY <1>1, <1>2, <1>6, <1>7
<1>10. ASSUME NEW k \in 1..c PROVE Mult(h, k) \in Int
  <2> DEFINE a == 100 * good[k]  d == DetGhi[h]
  <2>1. Mult(h, k) = Between(SpreadMin, a \div d, SpreadMax)
    OBVIOUS
  <2>2. a \in Int /\ d \in Int /\ d > 0
    <3>1. good[k] \in Int
      BY <1>8
    <3> HIDE DEF good
    <3> QED BY <1>1, <1>2, <3>1
  <2> HIDE DEF a, d, Mult
  <2>3. a \div d \in Int
    BY <2>2, Floored
  <2> QED BY <2>1, <2>3, QuantileAssumption DEF Between
<1> HIDE DEF good, c, Mult, Good
<1>11. spread \in [1..c -> Int]
  <2> HIDE DEF spread
  <2> QED BY <1>3, <1>7, <1>10
<1>12. lo \in Int /\ hi \in Int
  <2>1. lo = Percentile(Ascending(spread), 10) /\ hi = Percentile(Ascending(spread), 90)
    BY DEF lo, hi
  <2> HIDE DEF spread
  <2> QED BY <1>6, <1>9, <1>11, <2>1, SpreadInOrder
<1> QED BY <1>1, <1>12 DEF factors

\* What the learner holds, and what it was last told by an ensemble.
QInv ==
    /\ qToday \in Nat \ {0} /\ qToday <= QDays
    /\ qTrained \subseteq 0..(qToday - 1)
    /\ bandsOn \in BOOLEAN
    /\ IsState(rings)
    /\ ensemble # Null =>
          \A h \in DOMAIN ensemble : ensemble[h].lo \in Int /\ ensemble[h].hi \in Int

\* A band is in order, and one that is not neutral has the samples and the days.
LEMMA BandIs ==
    ASSUME QInv, NEW bin
    PROVE  /\ BandOf(bin).p10 \in Int /\ BandOf(bin).p50 \in Int /\ BandOf(bin).p90 \in Int
           /\ BandOf(bin).p10 <= BandOf(bin).p50 /\ BandOf(bin).p50 <= BandOf(bin).p90
           /\ DOMAIN BandOf(bin) = {"p10", "p50", "p90", "n"}
           /\ \/ BandOf(bin) = NeutralBand
              \/ /\ bin \in DOMAIN rings
                 /\ IsRing(ReadRing(rings[bin], qToday))
                 /\ EvidenceDays(ReadRing(rings[bin], qToday)) >= QMinDays
<1> DEFINE kept == Get(rings, bin, <<>>)
           ring == ReadRing(kept, qToday)
           errs == [i \in DOMAIN ring |-> ring[i].err]
           n == Len(ring)
           v == Ascending(errs)
           band == BandOf(bin)
           learned == [p10 |-> Percentile(v, 10), p50 |-> Percentile(v, 50),
                       p90 |-> Percentile(v, 90), n |-> n]
<1>1. /\ band = NeutralBand
         \/ (ring # <<>> /\ ~(EvidenceDays(ring) < QMinDays) /\ band = learned)
  BY DEF BandOf
<1>2. CASE band = NeutralBand
  BY <1>2 DEF NeutralBand
<1>3. CASE ring # <<>> /\ ~(EvidenceDays(ring) < QMinDays) /\ band = learned
  <2>1. IsRing(kept) /\ qToday \in Int
    BY NoRing DEF QInv, IsState, Get
  <2>2. IsRing(ring) /\ \A k \in DOMAIN ring : \E i \in DOMAIN kept : ring[k] = kept[i]
    BY <2>1, TrimmedIs DEF ReadRing
  <2> HIDE DEF kept, ring, errs, v, band
  <2>3. n \in Nat /\ n > 0 /\ DOMAIN ring = 1..n
    <3>1. n \in Nat \ {0}
      BY <1>3, <2>2, EmptySeq DEF IsRing, IsList
    <3> QED BY <2>2, <3>1, RingIs
  <2>4. bin \in DOMAIN rings /\ kept = rings[bin]
    <3>1. DOMAIN kept # {}
      <4>1. 1 \in DOMAIN ring
        <5> HIDE DEF n
        <5> QED BY <2>3
      <4> QED BY <2>2, <4>1
    <3>2. DOMAIN <<>> = {}
      OBVIOUS
    <3> QED BY <3>1, <3>2 DEF Get, kept
  <2>5. errs \in [1..n -> Int]
    <3>1. \A i \in 1..n : ring[i].err \in Int
      BY <2>2, <2>3, QuantileAssumption DEF IsRing, IsSample
    <3> HIDE DEF n
    <3> QED BY <2>3, <3>1 DEF errs
  <2>6. /\ Percentile(v, 10) \in Int /\ Percentile(v, 50) \in Int /\ Percentile(v, 90) \in Int
        /\ Percentile(v, 10) <= Percentile(v, 50) /\ Percentile(v, 50) <= Percentile(v, 90)
    <3> HIDE DEF n
    <3> QED BY <2>3, <2>5, SpreadInOrder DEF v
  <2>7. EvidenceDays(ring) \in Nat /\ QMinDays \in Nat
    BY <2>2, EvidenceIsOfDays, QuantileAssumption
  <2>8. EvidenceDays(ring) >= QMinDays
    BY <1>3, <2>7
  <2>9. ring = ReadRing(rings[bin], qToday)
    BY <2>4 DEF ring
  <2>10. /\ band.p10 \in Int /\ band.p50 \in Int /\ band.p90 \in Int
         /\ band.p10 <= band.p50 /\ band.p50 <= band.p90
         /\ DOMAIN band = {"p10", "p50", "p90", "n"}
    BY <1>3, <2>6
  <2> QED BY <2>2, <2>4, <2>8, <2>9, <2>10 DEF band
<1> QED BY <1>1, <1>2, <1>3

\* Fusing widens, keeps the order, and leaves a band without an ensemble alone.
LEMMA FusedWidens ==
    ASSUME NEW learned, DOMAIN learned = {"p10", "p50", "p90", "n"},
           learned.p10 \in Int, learned.p50 \in Int, learned.p90 \in Int,
           learned.p10 <= learned.p50, learned.p50 <= learned.p90,
           NEW ens, ens = Null \/ (ens.lo \in Int /\ ens.hi \in Int)
    PROVE  /\ Fused(learned, ens).p10 <= learned.p10 /\ learned.p90 <= Fused(learned, ens).p90
           /\ Fused(learned, ens).p50 = learned.p50
           /\ Fused(learned, ens).p10 <= learned.p50 /\ learned.p50 <= Fused(learned, ens).p90
           /\ ens = Null => Fused(learned, ens) = learned
<1>1. CASE ens = Null
  BY <1>1 DEF Fused
<1>2. CASE ens # Null /\ IsNeutral(learned)
  <2> DEFINE lo == Least(ens.lo, 100)  hi == Most(ens.hi, 100)
  <2>1. Fused(learned, ens) = [learned EXCEPT !.p10 = lo, !.p90 = hi]
    BY <1>2 DEF Fused
  <2>2. lo \in Int /\ hi \in Int /\ lo <= 100 /\ 100 <= hi
    BY <1>2 DEF Least, Most
  <2>3. learned.p10 = 100 /\ learned.p50 = 100 /\ learned.p90 = 100
    BY <1>2 DEF IsNeutral
  <2> HIDE DEF lo, hi
  <2>4. /\ Fused(learned, ens).p10 = lo /\ Fused(learned, ens).p90 = hi
        /\ Fused(learned, ens).p50 = learned.p50
    BY <2>1
  <2> QED BY <1>2, <2>2, <2>3, <2>4
<1>3. CASE ens # Null /\ ~IsNeutral(learned)
  <2> DEFINE lo == Least(Least(learned.p10, ens.lo), learned.p50)
             hi == Most(Most(learned.p90, ens.hi), learned.p50)
  <2>1. Fused(learned, ens) = [learned EXCEPT !.p10 = lo, !.p90 = hi]
    BY <1>3 DEF Fused
  <2>2. lo <= learned.p10 /\ lo <= learned.p50 /\ learned.p90 <= hi /\ learned.p50 <= hi
    BY <1>3 DEF Least, Most
  <2> HIDE DEF lo, hi
  <2>3. /\ Fused(learned, ens).p10 = lo /\ Fused(learned, ens).p90 = hi
        /\ Fused(learned, ens).p50 = learned.p50
    BY <2>1
  <2> QED BY <1>3, <2>2, <2>3
<1> QED BY <1>1, <1>2, <1>3

-----------------------------------------------------------------------------
(* Steps.                                                                    *)

LEMMA InitQ == QInit => QInv
<1> SUFFICES ASSUME QInit PROVE QInv
  OBVIOUS
<1>1. IsState(rings)
  BY RingsAssumption DEF QInit, IsState
<1> QED BY <1>1, QuantileAssumption DEF QInit, QInv

LEMMA NextQ == QInv /\ [QNext]_qVars => QInv'
<1> SUFFICES ASSUME QInv, [QNext]_qVars PROVE QInv'
  OBVIOUS
<1>1. ASSUME NEW date \in 0..(qToday - 1), NEW day \in QKinds, TrainQuantilesDay(date, day)
      PROVE  QInv'
  <2>1. IsState(rings')
    <3>1. CASE DaySamples(day) = <<>>
      BY <1>1, <3>1 DEF TrainQuantilesDay, QInv
    <3>2. CASE DaySamples(day) # <<>>
      <4>1. rings' = TrainedRings(rings, date, DaySamples(day))
        BY <1>1, <3>2 DEF TrainQuantilesDay
      <4>2. IsState(rings) /\ date \in Nat /\ IsErrors(DaySamples(day))
        BY DayIsErrors DEF QInv
      <4> QED BY <4>1, <4>2, TrainingKeepsRings
    <3> QED BY <3>1, <3>2
  <2>2. qTrained' \subseteq 0..(qToday - 1)
    BY <1>1 DEF TrainQuantilesDay, QInv
  <2> QED BY <1>1, <2>1, <2>2 DEF TrainQuantilesDay, QInv
<1>2. CASE QMidnight
  <2>1. 0..(qToday - 1) \subseteq 0..(qToday' - 1)
    BY <1>2 DEF QMidnight, QInv
  <2>2. qToday' \in Nat \ {0} /\ qToday' <= QDays
    BY <1>2, QuantileAssumption DEF QMidnight, QInv
  <2> QED BY <1>2, <2>1, <2>2 DEF QMidnight, QInv, IsState
<1>3. CASE EmptyRings
  <2>1. IsState(rings')
    BY <1>3 DEF EmptyRings, IsState
  <2> QED BY <1>3, <2>1 DEF EmptyRings, QInv
<1>4. CASE SwitchBands
  BY <1>4 DEF SwitchBands, QInv, IsState
<1>5. CASE EnsembleUpdate
  <2>1. PICK members \in Members : ensemble' = EnsembleFactors(members)
    BY <1>5 DEF EnsembleUpdate
  <2>2. \A h \in DOMAIN ensemble' : ensemble'[h].lo \in Int /\ ensemble'[h].hi \in Int
    BY <2>1, FactorsAreInts
  <2> QED BY <1>5, <2>2 DEF EnsembleUpdate, QInv, IsState
<1>6. CASE EnsembleOff
  BY <1>6 DEF EnsembleOff, QInv, IsState
<1>7. CASE UNCHANGED qVars
  BY <1>7 DEF qVars, QInv, IsState
<1> QED BY <1>1, <1>2, <1>3, <1>4, <1>5, <1>6, <1>7 DEF QNext, QNight

\* Every ring a stored state or a night leaves is one: no longer than its cap, no
\* day with more than its share, every error between its bounds.
THEOREM BandInvariant == QSpec => []QInv
<1>1. QInit => QInv
  BY InitQ
<1>2. QInv /\ [QNext]_qVars => QInv'
  BY NextQ
<1> QED BY <1>1, <1>2, PTL DEF QSpec

THEOREM BandTypes == QSpec => []QTypeOK
<1>1. QInv => QTypeOK
  <2> SUFFICES ASSUME QInv PROVE QTypeOK
    OBVIOUS
  <2>1. qToday \in 1..QDays /\ qTrained \subseteq 0..(qToday - 1)
    BY QuantileAssumption DEF QInv
  <2>2. ASSUME NEW b \in DOMAIN rings
        PROVE  /\ rings[b] # <<>> /\ Len(rings[b]) <= RingCap
               /\ \A i \in DOMAIN rings[b] : rings[b][i].err \in ErrMin..ErrMax
               /\ Summary[b].n = Len(rings[b])
    <3>1. IsRing(rings[b]) /\ Len(rings[b]) \in 1..RingCap
      BY DEF QInv, IsState
    <3>2. rings[b] # <<>>
      <4>1. Len(<<>>) = 0
        BY EmptySeq
      <4> QED BY <3>1, <4>1
    <3>3. \A i \in DOMAIN rings[b] : rings[b][i].err \in ErrMin..ErrMax
      BY <3>1 DEF IsRing, IsSample
    <3>4. Summary[b].n = Len(rings[b])
      BY DEF Summary
    <3> QED BY <3>1, <3>2, <3>3, <3>4
  <2> QED BY <2>1, <2>2 DEF QTypeOK
<1> QED BY <1>1, BandInvariant, PTL

\* A learned spread is read from days, not from hours.
LEMMA EarnedSpread == QInv => SpreadIsEarned
<1> SUFFICES ASSUME QInv, NEW h \in DOMAIN QSlots, LearnedAt(h).n > 0
             PROVE  LET ring == ReadRing(rings[<<QSlots[h].class, QSlots[h].part>>], qToday)
                    IN /\ Cardinality({ring[i].from : i \in DOMAIN ring}) >= QMinDays
                       /\ \A i \in DOMAIN ring :
                             /\ ring[i].day # Null => ring[i].day >= qToday - RingDays
                             /\ Cardinality({j \in DOMAIN ring : ring[j].from = ring[i].from}) <= DayCap
  BY DEF SpreadIsEarned
<1> DEFINE bin == <<QSlots[h].class, QSlots[h].part>>
           ring == ReadRing(rings[bin], qToday)
<1>1. LearnedAt(h) = BandOf(bin)
  BY DEF LearnedAt
<1> HIDE DEF bin
<1>2. BandOf(bin) # NeutralBand
  BY <1>1 DEF NeutralBand
<1>3. bin \in DOMAIN rings /\ IsRing(ring) /\ EvidenceDays(ring) >= QMinDays
  BY <1>2, BandIs
<1>4. \A i \in DOMAIN ring : ring[i].day # Null => ring[i].day >= qToday - RingDays
  <2>1. IsRing(rings[bin]) /\ qToday \in Int
    BY <1>3 DEF QInv, IsState
  <2> QED BY <2>1, TrimmedIs DEF ReadRing
<1> HIDE DEF ring
<1>5. Cardinality({ring[i].from : i \in DOMAIN ring}) >= QMinDays
  <2> DEFINE days == Cardinality({ring[i].from : i \in DOMAIN ring})
  <2>1. EvidenceDays(ring) \in Nat /\ days \in Nat /\ EvidenceDays(ring) <= days
    BY <1>3, EvidenceIsOfDays
  <2> HIDE DEF days
  <2>2. days >= QMinDays
    BY <1>3, <2>1, QuantileAssumption
  <2> QED BY <2>2 DEF days
<1>6. \A i \in DOMAIN ring : Cardinality({j \in DOMAIN ring : ring[j].from = ring[i].from}) <= DayCap
  BY <1>3 DEF IsRing
<1> QED BY <1>4, <1>5, <1>6 DEF ring, bin

LEMMA ServedWidens == QInv => BandOnlyWidens
<1> SUFFICES ASSUME QInv, NEW h \in DOMAIN QSlots
             PROVE  LET served == ServedAt(h)
                        learned == IF bandsOn THEN LearnedAt(h) ELSE NeutralBand
                    IN /\ served.p10 <= learned.p10 /\ learned.p90 <= served.p90
                       /\ served.p50 = learned.p50
                       /\ served.p10 <= served.p50 /\ served.p50 <= served.p90
                       /\ EnsembleAt(h) = Null => served = learned
                       /\ SlotSource(h) \in {"ensemble", "envelope"} => EnsembleAt(h) # Null
  BY DEF BandOnlyWidens
<1> DEFINE bin == <<QSlots[h].class, QSlots[h].part>>
           ens == EnsembleAt(h)
           learned == IF bandsOn THEN LearnedAt(h) ELSE NeutralBand
           served == ServedAt(h)
<1>1. LearnedAt(h) = BandOf(bin)
  BY DEF LearnedAt
<1>2. SlotSource(h) \in {"ensemble", "envelope"} => EnsembleAt(h) # Null
  BY DEF SlotSource
<1>3. ens = Null \/ (ens.lo \in Int /\ ens.hi \in Int)
  BY DEF EnsembleAt, QInv, Get
<1>4. DOMAIN rings = {} => LearnedAt(h) = NeutralBand
  BY <1>1, BandIs
<1>5. served = IF bandsOn THEN Fused(LearnedAt(h), ens) ELSE NeutralBand
  BY <1>4 DEF ServedAt
<1> HIDE DEF ens, served
<1>6. CASE bandsOn
  <2> DEFINE band == LearnedAt(h)
  <2>1. /\ DOMAIN band = {"p10", "p50", "p90", "n"}
        /\ band.p10 \in Int /\ band.p50 \in Int /\ band.p90 \in Int
        /\ band.p10 <= band.p50 /\ band.p50 <= band.p90
    BY <1>1, BandIs
  <2>2. learned = band /\ served = Fused(band, ens)
    BY <1>5, <1>6
  <2> HIDE DEF band, learned
  <2>3. /\ served.p10 <= learned.p10 /\ learned.p90 <= served.p90
        /\ served.p50 = learned.p50
        /\ served.p10 <= served.p50 /\ served.p50 <= served.p90
        /\ ens = Null => served = learned
    BY <1>3, <2>1, <2>2, FusedWidens
  <2> QED BY <1>2, <2>3 DEF served, learned, ens
<1>7. CASE ~bandsOn
  <2>1. served = NeutralBand /\ learned = NeutralBand
    BY <1>5, <1>7
  <2> HIDE DEF learned
  <2>2. /\ served.p10 <= learned.p10 /\ learned.p90 <= served.p90
        /\ served.p50 = learned.p50
        /\ served.p10 <= served.p50 /\ served.p50 <= served.p90
        /\ ens = Null => served = learned
    BY <2>1 DEF NeutralBand
  <2> QED BY <1>2, <2>2 DEF served, learned, ens
<1> QED BY <1>6, <1>7

\* Whatever happened before, a band that is not neutral has its days within the
\* window, and what an ensemble adds only widens it.
THEOREM BandIsEarnedHolds == QSpec => []BandIsEarned
<1>1. QInv => BandIsEarned
  BY EarnedSpread, ServedWidens DEF BandIsEarned
<1> QED BY <1>1, BandInvariant, PTL
=============================================================================
