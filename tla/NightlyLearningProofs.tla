----------------------- MODULE NightlyLearningProofs -----------------------
(***************************************************************************)
(* Proofs about NightlyLearning: a day is folded once, a streak counts      *)
(* days, a collapse leaves no trace, for every calendar, window, streak,    *)
(* ring and set of labels.  None is inductive alone: what a state may hold  *)
(* of a day depends on the marker and on the evidence of that day in the    *)
(* same store, and both only grow (Folds, FoldsGrow).                       *)
(***************************************************************************)
EXTENDS NightlyLearning, FiniteSetTheorems, WellFoundedInduction, TLAPS

Fields == {"issued", "label", "trained", "ring", "bias", "shade", "quantile",
           "streak", "losing", "disabled", "seen", "frozen"}

Bag == [0..MaxDay -> Nat]

\* Days with a forecast and a measurement that did not collapse.
Evidence(s) ==
    {d \in DOMAIN s.issued \cap DOMAIN s.label : ~s.label[d].collapsed}

\* The states that markers T, evidence E and k raised passes allow.
Folds(T, E, k) ==
    {x \in Bag : /\ x[0] <= 1
                 /\ \A d \in Day : /\ x[d] <= (IF d \in T THEN 1 ELSE 0) + k
                                   /\ x[d] # 0 => d \in E}

\* A fold of day d takes every state of B into C.
MayFold(d, B, C) == \A x \in B : [x EXCEPT ![d] = @ + 1] \in C

\* A snapshot of states in B.
Snap(B) == [taken : Nat, bias : B, shade : B, quantile : B]

\* The three learners and every snapshot are in B.
AllIn(s, B) ==
    /\ DOMAIN s = Fields
    /\ s.ring \in Seq(Snap(B))
    /\ s.bias \in B
    /\ s.shade \in B
    /\ s.quantile \in B

\* The streaks count days among T.
StreaksIn(s, T) ==
    \A l \in Layer :
        /\ IsFiniteSet(s.losing[l])
        /\ s.streak[l] = Cardinality(s.losing[l])
        /\ \A d \in s.losing[l] :
              /\ d \in T
              /\ d \in Evidence(s)
              /\ s.label[d].dayAhead = "losing" \/ s.label[d].slow = "losing"

\* Every label is one a day may get.
LabelsIn(s) == \A d \in DOMAIN s.label : d \in Day /\ s.label[d] \in Label

\* A store, in memory or in the file, after k raised passes.
StoreInv(s, k) ==
    /\ LabelsIn(s)
    /\ AllIn(s, Folds(s.trained, Evidence(s), k))
    /\ StreaksIn(s, s.trained)

\* The inductive invariant.
NightInv ==
    /\ utc \in Nat
    /\ raised \in Nat
    /\ pending \subseteq Day
    /\ StoreInv(store, raised)
    /\ StoreInv(disk, raised)

-----------------------------------------------------------------------------
(* Sets of states.                                                          *)

\* What is allowed stays allowed when markers, evidence and passes grow.
LEMMA FoldsGrow ==
    ASSUME NEW T, NEW E, NEW k \in Nat, NEW T2, NEW E2, NEW k2 \in Nat,
           T \subseteq T2, E \subseteq E2, k <= k2
    PROVE  Folds(T, E, k) \subseteq Folds(T2, E2, k2)
<1> SUFFICES ASSUME NEW x \in Folds(T, E, k), NEW d \in Day
             PROVE  /\ x[d] <= (IF d \in T2 THEN 1 ELSE 0) + k2
                    /\ x[d] # 0 => d \in E2
  BY DEF Folds
<1>1. x[d] \in Nat
  BY RingAssumption DEF Folds, Bag, Day
<1> QED
  BY <1>1 DEF Folds

\* The empty and the imported state hold no day.
LEMMA NothingFolded ==
    ASSUME NEW T, NEW E, NEW k \in Nat
    PROVE  Fresh \in Folds(T, E, k) /\ Imported \in Folds(T, E, k)
BY RingAssumption DEF Fresh, Imported, Folds, Bag, Day

\* A day with evidence and without marker may be folded once.
LEMMA FoldOnce ==
    ASSUME NEW T, NEW E, NEW k \in Nat, NEW d \in Day, d \notin T, d \in E,
           NEW x \in Folds(T, E, k)
    PROVE  [x EXCEPT ![d] = @ + 1] \in Folds(T \cup {d}, E, k)
<1> DEFINE y == [x EXCEPT ![d] = @ + 1]
<1>1. x \in Bag
  BY DEF Folds
<1>2. y \in Bag
  <2>1. y = [e \in 0..MaxDay |-> IF e = d THEN x[d] + 1 ELSE x[e]]
    BY <1>1 DEF Bag
  <2>2. ASSUME NEW e \in 0..MaxDay
        PROVE  (IF e = d THEN x[d] + 1 ELSE x[e]) \in Nat
    <3>1. x[e] \in Nat
      BY <1>1 DEF Bag
    <3>2. CASE e = d
      BY <3>1, <3>2
    <3>3. CASE e # d
      BY <3>1, <3>3
    <3> QED
      BY <3>2, <3>3
  <2> HIDE DEF y
  <2> QED
    BY <2>1, <2>2 DEF Bag
<1>3. ASSUME NEW e \in Day
      PROVE  /\ y[e] <= (IF e \in T \cup {d} THEN 1 ELSE 0) + k
             /\ y[e] # 0 => e \in E
  <2>1. e \in 0..MaxDay /\ x[e] \in Nat
    BY <1>1, RingAssumption DEF Bag, Day
  <2>2. x[e] <= (IF e \in T THEN 1 ELSE 0) + k /\ (x[e] # 0 => e \in E)
    BY DEF Folds
  <2>3. CASE e = d
    BY <1>1, <2>1, <2>2, <2>3 DEF Bag
  <2>4. CASE e # d
    BY <1>1, <2>1, <2>2, <2>4 DEF Bag
  <2> QED
    BY <2>3, <2>4
<1>4. y[0] <= 1
  BY <1>1, RingAssumption DEF Bag, Day, Folds
<1> QED
  BY <1>2, <1>3, <1>4 DEF Folds

\* A set of days has a least one: Min is that of the community module.
LEMMA LeastDay ==
    ASSUME NEW S \in SUBSET Day, S # {}
    PROVE  Min(S) \in S /\ \A y \in S : Min(S) <= y
<1> DEFINE R == OpToRel(<, Nat)
<1>1. IsWellFoundedOn(R, Nat)
  BY NatLessThanWellFounded
<1> HIDE DEF R
<1>2. S \subseteq Nat
  BY RingAssumption DEF Day
<1>3. PICK x \in S : \A y \in S : ~(<<y, x>> \in R)
  BY <1>1, <1>2, WFMin
<1>4. \A y \in S : ~(y < x)
  BY <1>2, <1>3 DEF R, OpToRel
<1>5. \A y \in S : x <= y
  BY <1>2, <1>4
<1> QED
  BY <1>5 DEF Min

\* The entry that is restored is one of the ring.
LEMMA RestoredIndex ==
    ASSUME NEW n \in Nat, n # 0
    PROVE  Max({1, n - Streak + 1}) \in 1..n
<1> DEFINE S == {1, n - Streak + 1}
<1>1. n - Streak + 1 \in Int /\ n - Streak + 1 <= n
  BY RingAssumption
<1>2. \E x \in S : \A y \in S : x >= y
  BY <1>1
<1>3. Max(S) \in S /\ \A y \in S : Max(S) >= y
  BY <1>2 DEF Max
<1> QED
  BY <1>1, <1>3

-----------------------------------------------------------------------------
(* The steps of a training pass.                                            *)

\* A snapshot holds what the store holds.
LEMMA SnapshotKeeps ==
    ASSUME utc \in Nat, NEW B, NEW s, AllIn(s, B)
    PROVE  /\ AllIn(PushSnapshot(s), B) /\ AllIn(MaybePushSnapshot(s), B)
           /\ \A f \in Fields \ {"ring"} :
                 PushSnapshot(s)[f] = s[f] /\ MaybePushSnapshot(s)[f] = s[f]
<1> DEFINE ring == Append(s.ring, [taken |-> utc, bias |-> s.bias,
                                   shade |-> s.shade, quantile |-> s.quantile])
<1>1. [taken |-> utc, bias |-> s.bias, shade |-> s.shade, quantile |-> s.quantile]
        \in Snap(B)
  BY DEF AllIn, Snap
<1>2. ring \in Seq(Snap(B)) /\ Len(ring) = Len(s.ring) + 1
  BY <1>1 DEF AllIn
<1>3. (IF Len(ring) > RingSize THEN Tail(ring) ELSE ring) \in Seq(Snap(B))
  <2>1. ring # <<>>
    BY <1>2 DEF AllIn
  <2> QED
    BY <1>2, <2>1
<1>4. PushSnapshot(s) = [s EXCEPT !.ring = IF Len(ring) > RingSize THEN Tail(ring) ELSE ring]
  BY DEF PushSnapshot
<1> HIDE DEF ring
<1>5. AllIn(PushSnapshot(s), B)
  BY <1>3, <1>4 DEF AllIn, Fields
<1>6. \A f \in Fields \ {"ring"} : PushSnapshot(s)[f] = s[f]
  BY <1>4 DEF AllIn, Fields
<1> QED
  BY <1>5, <1>6 DEF MaybePushSnapshot

\* The snapshot of the night and the freeze touch no learner state.
LEMMA PrepareKeeps ==
    ASSUME utc \in Nat, NEW B, NEW s, AllIn(s, B), NEW d
    PROVE  /\ AllIn(Prepare(s, d), B)
           /\ \A f \in Fields \ {"ring", "frozen"} : Prepare(s, d)[f] = s[f]
<1> DEFINE p == MaybePushSnapshot(s)
<1>1. AllIn(p, B) /\ \A f \in Fields \ {"ring"} : p[f] = s[f]
  BY SnapshotKeeps
<1>2. Prepare(s, d) = [p EXCEPT !.frozen = PlanFreeze(p, d)]
  BY DEF Prepare, SetFreeze
<1> HIDE DEF p
<1> QED
  BY <1>1, <1>2 DEF AllIn, Fields

\* B holds what the store held before a fold of day d, C what it may hold after it.
LEMMA DayAheadKeeps ==
    ASSUME NEW B, NEW C, B \subseteq C, NEW s, AllIn(s, C), s.bias \in B, NEW d,
           Comparable(s, d) => MayFold(d, B, C)
    PROVE  /\ AllIn(TrainDayAhead(s, d), C)
           /\ \A f \in Fields \ {"bias"} : TrainDayAhead(s, d)[f] = s[f]
<1>1. CASE Active(s, "dayAhead") /\ Comparable(s, d)
  <2>1. TrainDayAhead(s, d) = [s EXCEPT !.bias = [s.bias EXCEPT ![d] = @ + 1]]
    BY <1>1 DEF TrainDayAhead
  <2>2. [s.bias EXCEPT ![d] = @ + 1] \in C
    BY <1>1 DEF MayFold
  <2> QED
    BY <2>1, <2>2 DEF AllIn, Fields
<1>2. CASE ~(Active(s, "dayAhead") /\ Comparable(s, d))
  BY <1>2 DEF TrainDayAhead
<1> QED
  BY <1>1, <1>2

LEMMA ShademapKeeps ==
    ASSUME NEW B, NEW C, B \subseteq C, NEW s, AllIn(s, C), s.shade \in B, NEW d,
           HasEvidence(s, d) => MayFold(d, B, C)
    PROVE  /\ AllIn(TrainShademap(s, d), C)
           /\ \A f \in Fields \ {"shade"} : TrainShademap(s, d)[f] = s[f]
<1> DEFINE trains == /\ Active(s, "slow") /\ ~SlowFrozen(s)
                     /\ HasEvidence(s, d) /\ s.label[d].clear
<1>1. CASE trains
  <2>1. TrainShademap(s, d) = [s EXCEPT !.shade = [s.shade EXCEPT ![d] = @ + 1]]
    BY <1>1 DEF TrainShademap
  <2>2. [s.shade EXCEPT ![d] = @ + 1] \in C
    BY <1>1 DEF MayFold
  <2> QED
    BY <2>1, <2>2 DEF AllIn, Fields
<1>2. CASE ~trains
  BY <1>2 DEF TrainShademap
<1> QED
  BY <1>1, <1>2

LEMMA QuantilesKeep ==
    ASSUME NEW B, NEW C, B \subseteq C, NEW s, AllIn(s, C), s.quantile \in B, NEW d,
           Comparable(s, d) => MayFold(d, B, C)
    PROVE  /\ AllIn(TrainQuantiles(s, d), C)
           /\ \A f \in Fields \ {"quantile"} : TrainQuantiles(s, d)[f] = s[f]
<1>1. CASE Comparable(s, d)
  <2>1. TrainQuantiles(s, d) = [s EXCEPT !.quantile = [s.quantile EXCEPT ![d] = @ + 1]]
    BY <1>1 DEF TrainQuantiles
  <2>2. [s.quantile EXCEPT ![d] = @ + 1] \in C
    BY <1>1 DEF MayFold
  <2> QED
    BY <2>1, <2>2 DEF AllIn, Fields
<1>2. CASE ~Comparable(s, d)
  BY <1>2 DEF TrainQuantiles
<1> QED
  BY <1>1, <1>2

LEMMA RestoreKeeps ==
    ASSUME NEW C, NEW s, AllIn(s, C), NEW off
    PROVE  /\ AllIn(RestoreLayers(s, off), C)
           /\ \A f \in Fields \ {"bias", "shade"} : RestoreLayers(s, off)[f] = s[f]
<1>1. CASE s.ring = <<>>
  BY <1>1 DEF RestoreLayers
<1>2. CASE s.ring # <<>>
  <2> DEFINE i == Max({1, Len(s.ring) - Streak + 1})
             snap == s.ring[i]
  <2>1. Len(s.ring) \in Nat /\ Len(s.ring) # 0
    BY <1>2 DEF AllIn
  <2>2. i \in 1..Len(s.ring)
    BY <2>1, RestoredIndex
  <2>3. snap \in Snap(C)
    <3> HIDE DEF i
    <3> QED
      BY <2>2 DEF AllIn
  <2>4. RestoreLayers(s, off) =
            [s EXCEPT !.bias = IF "dayAhead" \in off THEN snap.bias ELSE @,
                      !.shade = IF "slow" \in off THEN snap.shade ELSE @]
    BY <1>2 DEF RestoreLayers
  <2> HIDE DEF snap
  <2>5. snap.bias \in C /\ snap.shade \in C
    BY <2>3 DEF Snap
  <2> QED
    BY <2>4, <2>5 DEF AllIn, Fields
<1> QED
  BY <1>1, <1>2

\* A verdict adds the day to a streak, ends it, or leaves it as it is.
LEMMA DriftKeeps ==
    ASSUME NEW C, Fresh \in C, NEW s, AllIn(s, C), NEW d, NEW T, NEW U, T \subseteq U,
           LabelsIn(s), StreaksIn(s, T), d \notin T,
           Comparable(s, d) => d \in U /\ d \in Evidence(s)
    PROVE  /\ AllIn(UpdateDrift(s, d), C)
           /\ StreaksIn(UpdateDrift(s, d), U)
           /\ \A f \in {"issued", "label", "trained"} : UpdateDrift(s, d)[f] = s[f]
<1> DEFINE losing == [l \in Layer |->
                         CASE LegOf(s, d, l) = "losing"  -> s.losing[l] \cup {d}
                           [] LegOf(s, d, l) = "holding" -> {}
                           [] LegOf(s, d, l) = "none"    -> s.losing[l]]
           streak == [l \in Layer |->
                         CASE LegOf(s, d, l) = "losing"  -> s.streak[l] + 1
                           [] LegOf(s, d, l) = "holding" -> 0
                           [] LegOf(s, d, l) = "none"    -> s.streak[l]]
           off == {l \in Layer : Comparable(s, d) /\ Active(s, l) /\ streak[l] >= Streak}
           r == RestoreLayers(s, off)
           new == UpdateDrift(s, d)
<1>1. new = [r EXCEPT !.streak = Cleared(streak, off, 0),
                      !.losing = Cleared(losing, off, {}),
                      !.disabled = [l \in Layer |-> l \in off \/ s.disabled[l]],
                      !.quantile = IF off # {} THEN Fresh ELSE @]
  BY DEF UpdateDrift
<1>2. AllIn(r, C) /\ \A f \in Fields \ {"bias", "shade"} : r[f] = s[f]
  BY RestoreKeeps
<1> HIDE DEF r, new, off
<1>3. AllIn(new, C) /\ \A f \in {"issued", "label", "trained"} : new[f] = s[f]
  BY <1>1, <1>2 DEF AllIn, Fields
<1>4. /\ new.streak = Cleared(streak, off, 0)
      /\ new.losing = Cleared(losing, off, {})
  BY <1>1, <1>2 DEF AllIn, Fields
<1>5. Evidence(new) = Evidence(s)
  BY <1>3 DEF Evidence
<1>6. ASSUME NEW l \in Layer
      PROVE  /\ IsFiniteSet(losing[l])
             /\ streak[l] = Cardinality(losing[l])
             /\ \A e \in losing[l] :
                   /\ e \in U /\ e \in Evidence(s)
                   /\ s.label[e].dayAhead = "losing" \/ s.label[e].slow = "losing"
  <2>1. LegOf(s, d, l) \in Verdict
    BY DEF LegOf, Comparable, HasEvidence, HasActuals, LabelsIn, Label, Verdict
  <2>2. CASE LegOf(s, d, l) = "losing"
    <3>1. losing[l] = s.losing[l] \cup {d} /\ streak[l] = s.streak[l] + 1
      BY <2>2
    <3>2. /\ Comparable(s, d)
          /\ s.label[d].dayAhead = "losing" \/ s.label[d].slow = "losing"
      BY <2>2 DEF LegOf
    <3>3. d \notin s.losing[l]
      BY DEF StreaksIn
    <3>4. /\ IsFiniteSet(s.losing[l] \cup {d})
          /\ Cardinality(s.losing[l] \cup {d}) = Cardinality(s.losing[l]) + 1
      BY <3>3, FS_AddElement DEF StreaksIn
    <3> QED
      BY <3>1, <3>2, <3>4 DEF StreaksIn
  <2>3. CASE LegOf(s, d, l) = "holding"
    <3>1. losing[l] = {} /\ streak[l] = 0
      BY <2>3
    <3> QED
      BY <3>1, FS_EmptySet
  <2>4. CASE LegOf(s, d, l) = "none"
    <3>1. losing[l] = s.losing[l] /\ streak[l] = s.streak[l]
      BY <2>4
    <3> QED
      BY <3>1 DEF StreaksIn
  <2> QED
    BY <2>1, <2>2, <2>3, <2>4 DEF Verdict
<1> HIDE DEF losing, streak
<1>7. \A l \in Layer :
          \/ new.streak[l] = streak[l] /\ new.losing[l] = losing[l]
          \/ new.streak[l] = 0 /\ new.losing[l] = {}
  BY <1>4 DEF Cleared
<1>8. StreaksIn(new, U)
  <2> SUFFICES ASSUME NEW l \in Layer
               PROVE  /\ IsFiniteSet(new.losing[l])
                      /\ new.streak[l] = Cardinality(new.losing[l])
                      /\ \A e \in new.losing[l] :
                            /\ e \in U /\ e \in Evidence(new)
                            /\ new.label[e].dayAhead = "losing" \/ new.label[e].slow = "losing"
    BY DEF StreaksIn
  <2>1. CASE new.streak[l] = streak[l] /\ new.losing[l] = losing[l]
    BY <1>3, <1>5, <1>6, <2>1
  <2>2. CASE new.streak[l] = 0 /\ new.losing[l] = {}
    BY <2>2, FS_EmptySet
  <2> QED
    BY <1>7, <2>1, <2>2
<1> QED
  BY <1>3, <1>8 DEF new

-----------------------------------------------------------------------------
(* A whole pass, whether it ends or a step of it raises.                    *)

\* What a training pass is given: states B and streaks T before it; states C
\* and streaks U after it.
Ready(s, d, B, C, T, U) ==
    /\ AllIn(s, B)
    /\ LabelsIn(s)
    /\ StreaksIn(s, T)
    /\ B \subseteq C
    /\ Fresh \in C
    /\ T \subseteq U
    /\ d \notin T
    /\ HasEvidence(s, d) => d \in U
    /\ d \in Evidence(s) => MayFold(d, B, C)

\* What it leaves of the days, and what it keeps.
Done(t, s, C, U) ==
    /\ AllIn(t, C)
    /\ StreaksIn(t, U)
    /\ t.issued = s.issued
    /\ t.label = s.label
    /\ t.trained = s.trained

LEMMA AllInGrows ==
    ASSUME NEW B, NEW C, B \subseteq C, NEW s, AllIn(s, B)
    PROVE  AllIn(s, C)
<1>1. Snap(B) \subseteq Snap(C)
  BY DEF Snap
<1>2. Seq(Snap(B)) \subseteq Seq(Snap(C))
  BY <1>1
<1> QED
  BY <1>2 DEF AllIn

\* Streaks look at labels and forecasts only.
LEMMA StreaksSame ==
    ASSUME NEW s, NEW t, NEW T, StreaksIn(s, T),
           t.issued = s.issued, t.label = s.label,
           t.losing = s.losing, t.streak = s.streak
    PROVE  StreaksIn(t, T)
BY DEF StreaksIn, Evidence

LEMMA StreaksGrow ==
    ASSUME NEW s, NEW T, NEW U, T \subseteq U, StreaksIn(s, T)
    PROVE  StreaksIn(s, U)
BY DEF StreaksIn

LEMMA PrepareDone ==
    ASSUME utc \in Nat, NEW s, NEW d, NEW B, NEW C, NEW T, NEW U, Ready(s, d, B, C, T, U)
    PROVE  Ready(Prepare(s, d), d, B, C, T, U) /\ Done(Prepare(s, d), s, C, T)
<1> DEFINE p == Prepare(s, d)
<1>1. AllIn(p, B) /\ \A f \in Fields \ {"ring", "frozen"} : p[f] = s[f]
  BY PrepareKeeps DEF Ready
<1> HIDE DEF p
<1>2. /\ p.issued = s.issued /\ p.label = s.label /\ p.trained = s.trained
      /\ p.losing = s.losing /\ p.streak = s.streak
  BY <1>1 DEF Fields
<1>3. StreaksIn(p, T)
  BY <1>2, StreaksSame DEF Ready
<1>4. AllIn(p, C)
  BY <1>1, AllInGrows DEF Ready
<1>5. Done(p, s, C, T)
  BY <1>2, <1>3, <1>4 DEF Done
<1>6. Ready(p, d, B, C, T, U)
  BY <1>1, <1>2, <1>3 DEF Ready, LabelsIn, HasEvidence, HasIssued, HasActuals, Evidence
<1> QED
  BY <1>5, <1>6 DEF p

\* The steps of a day that did not collapse.
LEMMA StepsDone ==
    ASSUME NEW p, NEW d, NEW B, NEW C, NEW T, NEW U, Ready(p, d, B, C, T, U), ~Collapsed(p, d)
    PROVE  LET a == TrainDayAhead(p, d)
               g == TrainShademap(a, d)
               q == TrainQuantiles(g, d)
           IN /\ Done(a, p, C, T)
              /\ Done(g, p, C, T)
              /\ Done(q, p, C, T)
              /\ Done(UpdateDrift(q, d), p, C, U)
<1> DEFINE a == TrainDayAhead(p, d)
           g == TrainShademap(a, d)
           q == TrainQuantiles(g, d)
           e == UpdateDrift(q, d)
<1>1. AllIn(p, C) /\ {p.bias, p.shade, p.quantile} \subseteq B /\ B \subseteq C
  BY AllInGrows DEF Ready, AllIn
<1>2. HasEvidence(p, d) => d \in U /\ d \in Evidence(p) /\ MayFold(d, B, C)
  BY DEF Ready, Collapsed, HasEvidence, HasIssued, HasActuals, Evidence
<1>3. Comparable(p, d) => HasEvidence(p, d)
  BY DEF Comparable
<1>4. AllIn(a, C) /\ \A f \in Fields \ {"bias"} : a[f] = p[f]
  <2>1. p.bias \in B /\ (Comparable(p, d) => MayFold(d, B, C))
    BY <1>1, <1>2, <1>3
  <2>2. B \subseteq C /\ AllIn(p, C)
    BY <1>1
  <2> QED
    BY <2>1, <2>2, DayAheadKeeps
<1> HIDE DEF a
<1>5. /\ a.issued = p.issued /\ a.label = p.label /\ a.trained = p.trained
      /\ a.losing = p.losing /\ a.streak = p.streak /\ a.shade = p.shade /\ a.quantile = p.quantile
  BY <1>4 DEF Fields
<1>6. HasEvidence(a, d) <=> HasEvidence(p, d)
  BY <1>5 DEF HasEvidence, HasIssued, HasActuals
<1>7. AllIn(g, C) /\ \A f \in Fields \ {"shade"} : g[f] = a[f]
  <2>1. a.shade \in B /\ (HasEvidence(a, d) => MayFold(d, B, C))
    BY <1>1, <1>2, <1>5, <1>6
  <2>2. B \subseteq C /\ AllIn(a, C)
    BY <1>1, <1>4
  <2> QED
    BY <2>1, <2>2, ShademapKeeps
<1> HIDE DEF g
<1>8. /\ g.issued = p.issued /\ g.label = p.label /\ g.trained = p.trained
      /\ g.losing = p.losing /\ g.streak = p.streak /\ g.quantile = p.quantile
  BY <1>5, <1>7 DEF Fields
<1>9. Comparable(g, d) => HasEvidence(p, d)
  BY <1>8 DEF Comparable, HasEvidence, HasIssued, HasActuals
<1>10. AllIn(q, C) /\ \A f \in Fields \ {"quantile"} : q[f] = g[f]
  <2>1. g.quantile \in B /\ (Comparable(g, d) => MayFold(d, B, C))
    BY <1>1, <1>2, <1>8, <1>9
  <2>2. B \subseteq C /\ AllIn(g, C)
    BY <1>1, <1>7
  <2> QED
    BY <2>1, <2>2, QuantilesKeep
<1> HIDE DEF q
<1>11. /\ q.issued = p.issued /\ q.label = p.label /\ q.trained = p.trained
       /\ q.losing = p.losing /\ q.streak = p.streak
  BY <1>8, <1>10 DEF Fields
<1>12. StreaksIn(p, T) /\ StreaksIn(a, T) /\ StreaksIn(g, T) /\ StreaksIn(q, T)
  BY <1>5, <1>8, <1>11, StreaksSame DEF Ready
<1>13. Comparable(q, d) => d \in U /\ d \in Evidence(q)
  BY <1>2, <1>11 DEF Comparable, HasEvidence, HasIssued, HasActuals, Evidence
<1>14. LabelsIn(q) /\ Fresh \in C /\ T \subseteq U /\ d \notin T
  BY <1>11 DEF Ready, LabelsIn
<1>15. /\ AllIn(e, C) /\ StreaksIn(e, U)
       /\ \A f \in {"issued", "label", "trained"} : e[f] = q[f]
  BY <1>10, <1>12, <1>13, <1>14, DriftKeeps
<1> HIDE DEF e
<1>16. Done(a, p, C, T) /\ Done(g, p, C, T) /\ Done(q, p, C, T)
  BY <1>4, <1>5, <1>7, <1>8, <1>10, <1>11, <1>12 DEF Done
<1>17. Done(e, p, C, U)
  BY <1>11, <1>15 DEF Done
<1> QED
  BY <1>16, <1>17 DEF a, g, q, e

\* After a pass the marker covers what was folded.
LEMMA PassKeeps ==
    ASSUME utc \in Nat, NEW k \in Nat, NEW s, StoreInv(s, k), NEW d
    PROVE  StoreInv(TrainAndGuard(s, d), k)
<1>1. CASE d \in s.trained
  BY <1>1 DEF TrainAndGuard
<1>2. CASE d \notin s.trained
  <2> DEFINE T == s.trained
             U == IF HasEvidence(s, d) THEN T \cup {d} ELSE T
             E == Evidence(s)
             B == Folds(T, E, k)
             C == Folds(U, E, k)
             p == Prepare(s, d)
             g == Geometric(p, d)
             e == Empirical(g, d)
             m == MarkTrained(e, d)
  <2>1. d \in E => HasEvidence(s, d)
    BY DEF Evidence, HasEvidence, HasIssued, HasActuals
  <2>2. d \in E => MayFold(d, B, C)
    <3>1. d \in E => d \in Day
      BY DEF StoreInv, LabelsIn, Evidence
    <3> QED
      BY <1>2, <2>1, <3>1, FoldOnce DEF MayFold
  <2>3. B \subseteq C /\ Fresh \in C /\ T \subseteq U
    <3>1. T \subseteq U
      OBVIOUS
    <3> QED
      BY <3>1, FoldsGrow, NothingFolded
  <2>4. Ready(s, d, B, C, T, U)
    BY <1>2, <2>1, <2>2, <2>3 DEF Ready, StoreInv
  <2>5. Ready(p, d, B, C, T, U) /\ Done(p, s, C, T)
    BY <2>4, PrepareDone
  <2> HIDE DEF p
  <2>6. Done(e, p, C, U)
    <3>1. CASE Collapsed(p, d)
      <4>1. g = p /\ e = p
        BY <3>1 DEF Geometric, Empirical
      <4> QED
        BY <2>3, <2>5, <4>1, StreaksGrow DEF Done
    <3>2. CASE ~Collapsed(p, d)
      <4> DEFINE a == TrainDayAhead(p, d)
                 q == TrainQuantiles(g, d)
      <4>1. g = TrainShademap(a, d)
        BY <3>2 DEF Geometric
      <4>2. Done(g, p, C, T) /\ Done(UpdateDrift(q, d), p, C, U)
        BY <2>5, <3>2, <4>1, StepsDone
      <4>3. ~Collapsed(g, d)
        BY <3>2, <4>2 DEF Done, Collapsed, HasEvidence, HasIssued, HasActuals
      <4>4. e = UpdateDrift(q, d)
        BY <4>3 DEF Empirical
      <4> QED
        BY <4>2, <4>4
    <3> QED
      BY <3>1, <3>2
  <2> HIDE DEF g, e
  <2>7. /\ AllIn(e, C) /\ StreaksIn(e, U)
        /\ e.issued = s.issued /\ e.label = s.label /\ e.trained = s.trained
    BY <2>5, <2>6 DEF Done
  <2>8. /\ AllIn(m, C) /\ m.trained = U
        /\ m.issued = s.issued /\ m.label = s.label
        /\ m.losing = e.losing /\ m.streak = e.streak
    <3>1. HasEvidence(e, d) <=> HasEvidence(s, d)
      BY <2>7 DEF HasEvidence, HasIssued, HasActuals
    <3> QED
      BY <2>7, <3>1 DEF MarkTrained, AllIn, Fields
  <2>9. TrainAndGuard(s, d) = m
    BY <1>2 DEF TrainAndGuard, g, e, p
  <2> HIDE DEF m, U
  <2>10. StreaksIn(m, U)
    BY <2>7, <2>8, StreaksSame
  <2>11. Evidence(m) = E /\ LabelsIn(m)
    BY <2>8 DEF Evidence, LabelsIn, StoreInv
  <2> QED
    BY <2>8, <2>9, <2>10, <2>11 DEF StoreInv
<1> QED
  BY <1>1, <1>2

\* A pass that was cut short has folded the day once more than its marker says.
LEMMA AbortedKeeps ==
    ASSUME utc \in Nat, NEW k \in Nat, NEW s, StoreInv(s, k), NEW d, d \notin s.trained,
           NEW t \in Aborted(s, d)
    PROVE  StoreInv(t, k + 1)
<1> DEFINE T == s.trained
           U == T \cup {d}
           E == Evidence(s)
           B == Folds(T, E, k)
           C == Folds(T, E, k + 1)
           p == Prepare(s, d)
           a == TrainDayAhead(p, d)
           g == TrainShademap(a, d)
<1>1. B \subseteq C /\ Fresh \in C
  BY FoldsGrow, NothingFolded
<1>2. Folds(T \cup {d}, E, k) \subseteq C
  <2> SUFFICES ASSUME NEW x \in Folds(T \cup {d}, E, k), NEW e \in Day
               PROVE  /\ x[e] <= (IF e \in T THEN 1 ELSE 0) + (k + 1)
                      /\ x[e] # 0 => e \in E
    BY DEF Folds
  <2>1. x[e] \in Nat
    BY RingAssumption DEF Folds, Bag, Day
  <2> QED
    BY <2>1 DEF Folds
<1>3. d \in E => MayFold(d, B, C)
  <2>1. d \in E => d \in Day
    BY DEF StoreInv, LabelsIn, Evidence
  <2> QED
    BY <1>2, <2>1, FoldOnce DEF MayFold
<1>4. Ready(s, d, B, C, T, U)
  BY <1>1, <1>3 DEF Ready, StoreInv
<1>5. Ready(p, d, B, C, T, U) /\ Done(p, s, C, T)
  BY <1>4, PrepareDone
<1>6. Collapsed(p, d) <=> Collapsed(s, d)
  BY <1>5 DEF Done, Collapsed, HasEvidence, HasIssued, HasActuals
<1>7. Done(t, p, C, T)
  <2>1. CASE Collapsed(s, d)
    BY <1>5, <2>1 DEF Aborted, Done
  <2>2. CASE ~Collapsed(s, d)
    <3>1. Geometric(p, d) = g
      BY <1>6, <2>2 DEF Geometric
    <3>2. t \in {p, a, g, TrainQuantiles(g, d)}
      BY <2>2, <3>1 DEF Aborted
    <3>3. Done(a, p, C, T) /\ Done(g, p, C, T) /\ Done(TrainQuantiles(g, d), p, C, T)
      BY <1>5, <1>6, <2>2, StepsDone
    <3>4. Done(p, p, C, T)
      BY <1>5 DEF Done
    <3> QED
      BY <3>2, <3>3, <3>4
  <2> QED
    BY <2>1, <2>2
<1> HIDE DEF p
<1>8. /\ AllIn(t, C) /\ StreaksIn(t, T)
      /\ t.issued = s.issued /\ t.label = s.label /\ t.trained = s.trained
  BY <1>5, <1>7 DEF Done
<1>9. Evidence(t) = E /\ LabelsIn(t)
  BY <1>8 DEF Evidence, LabelsIn, StoreInv
<1> QED
  BY <1>8, <1>9 DEF StoreInv

-----------------------------------------------------------------------------
(* What else changes a store.                                               *)

\* A new forecast or label adds evidence and takes none away.
LEMMA EvidenceKeeps ==
    ASSUME NEW k \in Nat, NEW s, StoreInv(s, k), NEW t, DOMAIN t = Fields, LabelsIn(t),
           \A f \in Fields \ {"issued", "label"} : t[f] = s[f],
           Evidence(s) \subseteq Evidence(t),
           \A d \in Evidence(s) : t.label[d] = s.label[d]
    PROVE  StoreInv(t, k)
<1>1. /\ t.ring = s.ring /\ t.bias = s.bias /\ t.shade = s.shade /\ t.quantile = s.quantile
      /\ t.trained = s.trained /\ t.losing = s.losing /\ t.streak = s.streak
  BY DEF Fields
<1>2. AllIn(t, Folds(s.trained, Evidence(s), k))
  BY <1>1 DEF AllIn, StoreInv
<1>3. AllIn(t, Folds(t.trained, Evidence(t), k))
  BY <1>1, <1>2, FoldsGrow, AllInGrows
<1>4. StreaksIn(t, t.trained)
  BY <1>1 DEF StreaksIn, StoreInv
<1> QED
  BY <1>3, <1>4 DEF StoreInv

LEMMA ReadKeeps ==
    ASSUME NEW k \in Nat, NEW s, StoreInv(s, k), NEW d \in Day, NEW t \in Read(s, d)
    PROVE  StoreInv(t, k)
<1>1. CASE t = s
  BY <1>1
<1>2. CASE t # s
  <2>1. PICK l \in Labels : t = [s EXCEPT !.label = With(s.label, d, l)] /\ ~HasActuals(s, d)
    BY <1>2 DEF Read
  <2>2. DOMAIN s = Fields
    BY DEF StoreInv, AllIn
  <2>3. DOMAIN t = Fields /\ \A f \in Fields \ {"issued", "label"} : t[f] = s[f]
    BY <2>1, <2>2 DEF Fields
  <2>4. t.label = With(s.label, d, l) /\ t.issued = s.issued
    BY <2>1, <2>2 DEF Fields
  <2>5. LabelsIn(t)
    BY <2>4, LabelAssumption DEF LabelsIn, StoreInv, With
  <2>6. \A e \in DOMAIN s.label : e \in DOMAIN t.label /\ t.label[e] = s.label[e]
    BY <2>1, <2>4 DEF With, HasActuals
  <2>7. Evidence(s) \subseteq Evidence(t) /\ \A e \in Evidence(s) : t.label[e] = s.label[e]
    BY <2>4, <2>6 DEF Evidence
  <2> QED
    BY <2>3, <2>5, <2>7, EvidenceKeeps
<1> QED
  BY <1>1, <1>2

LEMMA IssueKeeps ==
    ASSUME NEW k \in Nat, NEW s, StoreInv(s, k), NEW layers
    PROVE  StoreInv([s EXCEPT !.issued = With(@, today, layers)], k)
<1> DEFINE t == [s EXCEPT !.issued = With(s.issued, today, layers)]
<1>1. DOMAIN s = Fields
  BY DEF StoreInv, AllIn
<1>2. DOMAIN t = Fields /\ \A f \in Fields \ {"issued", "label"} : t[f] = s[f]
  BY <1>1 DEF Fields
<1>3. t.issued = With(s.issued, today, layers) /\ t.label = s.label
  BY <1>1 DEF Fields
<1> HIDE DEF t
<1>4. LabelsIn(t)
  BY <1>3 DEF LabelsIn, StoreInv
<1>5. DOMAIN s.issued \subseteq DOMAIN t.issued
  BY <1>3 DEF With
<1>6. Evidence(s) \subseteq Evidence(t) /\ \A e \in Evidence(s) : t.label[e] = s.label[e]
  BY <1>3, <1>5 DEF Evidence
<1>7. StoreInv(t, k)
  BY <1>2, <1>4, <1>6, EvidenceKeeps
<1> QED
  BY <1>7 DEF t

\* States that the markers and the evidence allow may replace the learners.
LEMMA ReplaceKeeps ==
    ASSUME NEW k \in Nat, NEW s, StoreInv(s, k), NEW t,
           AllIn(t, Folds(s.trained, Evidence(s), k)),
           \A f \in {"issued", "label", "trained", "losing", "streak"} : t[f] = s[f]
    PROVE  StoreInv(t, k)
<1>1. /\ t.issued = s.issued /\ t.label = s.label /\ t.trained = s.trained
      /\ t.losing = s.losing /\ t.streak = s.streak
  OBVIOUS
<1>2. Evidence(t) = Evidence(s) /\ LabelsIn(t)
  BY <1>1 DEF Evidence, LabelsIn, StoreInv
<1>3. StreaksIn(t, t.trained)
  BY <1>1, StreaksSame DEF StoreInv
<1> QED
  BY <1>1, <1>2, <1>3 DEF StoreInv

LEMMA RebuildKeeps ==
    ASSUME NEW k \in Nat, NEW s, StoreInv(s, k), NEW switch
    PROVE  StoreInv(Rebuild(s, switch), k)
<1> DEFINE F == Folds(s.trained, Evidence(s), k)
           reenabled == Reenabled(s, switch)
           changed == {l \in Layer : s.seen[l] # switch[l]}
           cleared == {l \in reenabled : s.disabled[l]}
                      \cup (IF "slow" \in changed THEN Layer ELSE changed)
           t == Rebuild(s, switch)
<1>1. t = [s EXCEPT !.disabled = [l \in Layer |-> s.disabled[l] /\ l \notin reenabled],
                    !.streak = Cleared(@, cleared, 0),
                    !.losing = Cleared(@, cleared, {}),
                    !.seen = switch,
                    !.quantile = IF changed # {} THEN Fresh ELSE @]
  BY DEF Rebuild
<1>2. AllIn(s, F) /\ StreaksIn(s, s.trained) /\ Fresh \in F
  BY NothingFolded DEF StoreInv
<1> HIDE DEF t, reenabled, changed, cleared, F
<1>3. AllIn(t, F) /\ \A f \in {"issued", "label", "trained"} : t[f] = s[f]
  BY <1>1, <1>2 DEF AllIn, Fields
<1>4. t.streak = Cleared(s.streak, cleared, 0) /\ t.losing = Cleared(s.losing, cleared, {})
  BY <1>1, <1>2 DEF AllIn, Fields
<1>5. \A l \in Layer :
          \/ t.streak[l] = s.streak[l] /\ t.losing[l] = s.losing[l]
          \/ t.streak[l] = 0 /\ t.losing[l] = {}
  BY <1>4 DEF Cleared
<1>6. t.issued = s.issued /\ t.label = s.label /\ t.trained = s.trained
  BY <1>3
<1>7. Evidence(t) = Evidence(s) /\ LabelsIn(t)
  BY <1>6 DEF Evidence, LabelsIn, StoreInv
<1>8. StreaksIn(t, t.trained)
  <2> SUFFICES ASSUME NEW l \in Layer
               PROVE  /\ IsFiniteSet(t.losing[l])
                      /\ t.streak[l] = Cardinality(t.losing[l])
                      /\ \A e \in t.losing[l] :
                            /\ e \in t.trained /\ e \in Evidence(t)
                            /\ t.label[e].dayAhead = "losing" \/ t.label[e].slow = "losing"
    BY DEF StreaksIn
  <2>1. CASE t.streak[l] = s.streak[l] /\ t.losing[l] = s.losing[l]
    BY <1>2, <1>6, <1>7, <2>1 DEF StreaksIn
  <2>2. CASE t.streak[l] = 0 /\ t.losing[l] = {}
    BY <2>2, FS_EmptySet
  <2> QED
    BY <1>5, <2>1, <2>2
<1>9. StoreInv(t, k)
  BY <1>3, <1>6, <1>7, <1>8 DEF StoreInv, F
<1> QED
  BY <1>9 DEF t

-----------------------------------------------------------------------------
(* The invariant.                                                           *)

\* The store starts with nothing folded, nothing issued and nothing counted.
LEMMA InitNight == Init => NightInv
<1> SUFFICES ASSUME Init PROVE NightInv
  OBVIOUS
<1>1. /\ store.issued = <<>> /\ store.label = <<>> /\ store.trained = {}
      /\ store.ring = <<>> /\ store.bias = Fresh /\ store.shade = Fresh
      /\ store.quantile = Fresh
      /\ store.streak = [l \in Layer |-> 0] /\ store.losing = [l \in Layer |-> {}]
      /\ DOMAIN store = Fields
  BY DEF Init, Fields
<1>2. raised = 0 /\ utc = 1 /\ disk = store /\ pending = {}
  BY DEF Init
<1>3. AllIn(store, Folds(store.trained, Evidence(store), 0))
  <2>1. Fresh \in Folds(store.trained, Evidence(store), 0)
    BY NothingFolded
  <2>2. <<>> \in Seq(Snap(Folds(store.trained, Evidence(store), 0)))
    OBVIOUS
  <2> QED
    BY <1>1, <2>1, <2>2 DEF AllIn
<1>4. StreaksIn(store, store.trained)
  BY <1>1, FS_EmptySet DEF StreaksIn
<1>5. LabelsIn(store)
  BY <1>1 DEF LabelsIn
<1> QED
  BY <1>2, <1>3, <1>4, <1>5 DEF NightInv, StoreInv

\* More passes may raise; what was allowed stays allowed.
LEMMA MoreRaised ==
    ASSUME NEW k \in Nat, NEW s, StoreInv(s, k)
    PROVE  StoreInv(s, k + 1)
<1>1. Folds(s.trained, Evidence(s), k) \subseteq Folds(s.trained, Evidence(s), k + 1)
  BY FoldsGrow
<1> QED
  BY <1>1, AllInGrows DEF StoreInv

\* Every action keeps it.
LEMMA NextNight == NightInv /\ [Next]_vars => NightInv'
<1> SUFFICES ASSUME NightInv, [Next]_vars PROVE NightInv'
  OBVIOUS
<1> USE DEF NightInv
\* The primed invariant of a primed store is that of the store itself.
<1>0. ASSUME NEW s, NEW k \in Nat, StoreInv(s, k), s = store', k = raised'
      PROVE  StoreInv(store, raised)'
  BY <1>0 DEF StoreInv, AllIn, LabelsIn, StreaksIn, Evidence, Folds, Snap
<1>00. ASSUME NEW s, NEW k \in Nat, StoreInv(s, k), s = disk', k = raised'
      PROVE  StoreInv(disk, raised)'
  BY <1>00 DEF StoreInv, AllIn, LabelsIn, StreaksIn, Evidence, Folds, Snap
<1>000. pending' \subseteq Day
  <2>1. CatchupDays \subseteq Day
    BY DEF CatchupDays
  <2>2. pending' \in {{}, pending, CatchupDays} \/ pending' = pending \ {Min(pending)}
    BY DEF Next, vars, StartSweep, SweepDay, AbortedDay, Import, Rollback, ResetDayAheadBias, Intervene,
           Reconfigure, Save, Restart, Crash, LocalMidnight, UtcMidnight
  <2> QED
    BY <2>1, <2>2
<1>1. CASE StartSweep
  <2>1. StoreInv(store', raised)
    <3>1. CASE store' = store
      BY <3>1
    <3>2. CASE store' # store
      <4>1. store' = [store EXCEPT !.issued = With(@, today, Shaping(store))]
        BY <1>1, <3>2 DEF StartSweep
      <4> QED
        BY <4>1, IssueKeeps
    <3> QED
      BY <3>1, <3>2
  <2> QED
    BY <1>0, <1>00, <1>000, <1>1, <2>1 DEF StartSweep
<1>2. CASE SweepDay
  <2> DEFINE d == Min(pending)
  <2>1. PICK s \in Read(store, d) : store' = TrainAndGuard(s, d)
    BY <1>2 DEF SweepDay
  <2>0. d \in Day
    BY <1>2, LeastDay DEF SweepDay
  <2> HIDE DEF d
  <2>2. StoreInv(s, raised)
    BY <2>0, <2>1, ReadKeeps
  <2>3. StoreInv(store', raised)
    BY <2>1, <2>2, PassKeeps
  <2> QED
    BY <1>0, <1>00, <1>000, <1>2, <2>3 DEF SweepDay
<1>3. CASE AbortedDay
  <2> DEFINE d == Min(pending)
  <2>1. PICK s \in Read(store, d) : d \notin s.trained /\ store' \in Aborted(s, d)
    BY <1>3 DEF AbortedDay
  <2>0. d \in Day
    BY <1>3, LeastDay DEF AbortedDay
  <2> HIDE DEF d
  <2>2. StoreInv(s, raised)
    BY <2>0, <2>1, ReadKeeps
  <2>3. StoreInv(store', raised + 1)
    BY <2>1, <2>2, AbortedKeeps
  <2>4. StoreInv(disk, raised + 1)
    BY MoreRaised
  <2>5. raised' = raised + 1 /\ disk' = disk /\ utc' = utc /\ raised + 1 \in Nat
    BY <1>3 DEF AbortedDay
  <2> QED
    BY <1>0, <1>00, <1>000, <2>3, <2>4, <2>5
<1>4. CASE Import
  <2> DEFINE F == Folds(store.trained, Evidence(store), raised)
             p == PushSnapshot(store)
  <2>1. AllIn(p, F) /\ \A f \in Fields \ {"ring"} : p[f] = store[f]
    BY SnapshotKeeps DEF StoreInv
  <2>2. Imported \in F
    BY NothingFolded
  <2>3. PICK withBands \in BOOLEAN :
            store' = [p EXCEPT !.bias = Imported, !.shade = Imported,
                               !.quantile = IF withBands THEN Imported ELSE @]
    BY <1>4 DEF Import
  <2> HIDE DEF p, F
  <2>4. /\ AllIn(store', F)
        /\ \A f \in {"issued", "label", "trained", "losing", "streak"} : store'[f] = store[f]
    BY <2>1, <2>2, <2>3 DEF AllIn, Fields
  <2>5. StoreInv(store', raised)
    BY <2>4, ReplaceKeeps DEF F
  <2> QED
    BY <1>0, <1>00, <1>000, <1>4, <2>5 DEF Import
<1>5. CASE Rollback
  <2> DEFINE F == Folds(store.trained, Evidence(store), raised)
  <2>1. AllIn(store, F)
    BY DEF StoreInv
  <2>2. PICK i \in DOMAIN store.ring :
            store' = [store EXCEPT !.bias = store.ring[i].bias,
                                   !.shade = store.ring[i].shade,
                                   !.quantile = store.ring[i].quantile]
    BY <1>5 DEF Rollback
  <2> HIDE DEF F
  <2>3. store.ring[i] \in Snap(F)
    BY <2>1 DEF AllIn
  <2>4. store.ring[i].bias \in F /\ store.ring[i].shade \in F /\ store.ring[i].quantile \in F
    BY <2>3 DEF Snap
  <2>5. /\ AllIn(store', F)
        /\ \A f \in {"issued", "label", "trained", "losing", "streak"} : store'[f] = store[f]
    BY <2>1, <2>2, <2>4 DEF AllIn, Fields
  <2>6. StoreInv(store', raised)
    BY <2>5, ReplaceKeeps DEF F
  <2> QED
    BY <1>0, <1>00, <1>000, <1>5, <2>6 DEF Rollback
<1>6. CASE ResetDayAheadBias
  <2> DEFINE F == Folds(store.trained, Evidence(store), raised)
  <2>1. AllIn(store, F) /\ Fresh \in F
    BY NothingFolded DEF StoreInv
  <2>2. store' = [store EXCEPT !.bias = Fresh]
    BY <1>6 DEF ResetDayAheadBias
  <2> HIDE DEF F
  <2>3. /\ AllIn(store', F)
        /\ \A f \in {"issued", "label", "trained", "losing", "streak"} : store'[f] = store[f]
    BY <2>1, <2>2 DEF AllIn, Fields
  <2>4. StoreInv(store', raised)
    BY <2>3, ReplaceKeeps DEF F
  <2> QED
    BY <1>0, <1>00, <1>000, <1>6, <2>4 DEF ResetDayAheadBias
<1>7. ASSUME NEW l \in Layer, Reconfigure(l) PROVE NightInv'
  <2>1. store' = Rebuild(store, option') /\ disk' = store /\ raised' = raised /\ utc' = utc
    BY <1>7 DEF Reconfigure
  <2>2. StoreInv(store', raised)
    BY <2>1, RebuildKeeps
  <2> QED
    BY <1>0, <1>00, <1>000, <2>1, <2>2
<1>8. CASE Save
  BY <1>0, <1>00, <1>000, <1>8 DEF Save
<1>9. CASE Restart
  <2>1. store' = Rebuild(store, option) /\ disk' = store /\ raised' = raised /\ utc' = utc
    BY <1>9 DEF Restart
  <2>2. StoreInv(store', raised)
    BY <2>1, RebuildKeeps
  <2> QED
    BY <1>0, <1>00, <1>000, <2>1, <2>2
<1>10. CASE Crash
  <2>1. store' = Rebuild(disk, option) /\ disk' = disk /\ raised' = raised /\ utc' = utc
    BY <1>10 DEF Crash
  <2>2. StoreInv(store', raised)
    BY <2>1, RebuildKeeps
  <2> QED
    BY <1>0, <1>00, <1>000, <2>1, <2>2
<1>11. CASE LocalMidnight
  BY <1>0, <1>00, <1>000, <1>11 DEF LocalMidnight
<1>12. CASE UtcMidnight
  <2>1. utc' = utc + 1 /\ store' = store /\ disk' = disk /\ raised' = raised
    BY <1>12 DEF UtcMidnight
  <2> QED
    BY <1>0, <1>00, <1>000, <2>1
<1>13. CASE UNCHANGED vars
  BY <1>0, <1>00, <1>000, <1>13 DEF vars
<1> QED
  BY <1>1, <1>2, <1>3, <1>4, <1>5, <1>6, <1>7, <1>8, <1>9, <1>10, <1>11, <1>12, <1>13 DEF Next

\* The markers, the evidence and the streaks of async_nightly_job's store are
\* inductive together, in memory and in the file, whatever services, reloads and
\* crashes come between two nights.
THEOREM NightInvariant == Spec => []NightInv
BY InitNight, NextNight, PTL DEF Spec

\* Every state a store holds is one that its markers and its evidence allow.
LEMMA StatesAllowed ==
    ASSUME NEW k, NEW s, StoreInv(s, k), NEW x \in States(s)
    PROVE  x \in Folds(s.trained, Evidence(s), k)
<1> DEFINE F == Folds(s.trained, Evidence(s), k)
<1>1. AllIn(s, F)
  BY DEF StoreInv
<1> HIDE DEF F
<1>2. ASSUME NEW i \in DOMAIN s.ring
      PROVE  s.ring[i].bias \in F /\ s.ring[i].shade \in F /\ s.ring[i].quantile \in F
  <2>1. s.ring[i] \in Snap(F)
    BY <1>1 DEF AllIn
  <2> QED
    BY <2>1 DEF Snap
<1>3. x \in F
  BY <1>1, <1>2 DEF States, AllIn
<1> QED
  BY <1>3 DEF F

\* No night is counted twice, however sweeps repeat, labels arrive late, the
\* process dies or states are rolled back, except by a pass that raised
\* (is_day_trained, mark_day_trained).
THEOREM FoldedOnceHolds == Spec => []FoldedOnce
<1>1. NightInv => FoldedOnce
  BY StatesAllowed DEF NightInv, FoldedOnce, Folds
<1> QED
  BY <1>1, NightInvariant, PTL

\* A loss streak is a number of distinct days, each trained and each losing: no
\* re-run of a night condemns a layer (update_drift).
THEOREM StreakCountsDaysHolds == Spec => []StreakCountsDays
<1>1. NightInv => StreakCountsDays
  BY DEF NightInv, StoreInv, StreaksIn, StreakCountsDays
<1> QED
  BY <1>1, NightInvariant, PTL

\* A collapse day reaches no learner state, no snapshot and no streak, whenever its
\* label comes (plan_training).
THEOREM CollapseLeavesNoTraceHolds == Spec => []CollapseLeavesNoTrace
<1>1. ASSUME NightInv, NEW s \in {store, disk}, NEW d \in Day, Collapsed(s, d)
      PROVE  /\ \A x \in States(s) : x[d] = 0
             /\ \A l \in Layer : d \notin s.losing[l]
  <2>1. StoreInv(s, raised) /\ d \notin Evidence(s)
    BY <1>1 DEF NightInv, Collapsed, Evidence
  <2>2. \A x \in States(s) : x[d] = 0
    BY <2>1, StatesAllowed DEF Folds
  <2>3. \A l \in Layer : d \notin s.losing[l]
    BY <2>1 DEF StoreInv, StreaksIn
  <2> QED
    BY <2>2, <2>3
<1>2. NightInv => CollapseLeavesNoTrace
  BY <1>1 DEF CollapseLeavesNoTrace
<1> QED
  BY <1>2, NightInvariant, PTL

-----------------------------------------------------------------------------
(* Control: what is kept of the days and of the layers, apart from what the *)
(* learners hold.                                                           *)

\* A store at local day t, after k raised passes: a forecast is issued on its day,
\* a label read later, and as long as no pass raised, a day with both is marked.
ControlIn(s, t, k) ==
    /\ DOMAIN s = Fields
    /\ DOMAIN s.issued \subseteq 1..t
    /\ \A d \in DOMAIN s.issued : s.issued[d] \subseteq Layer
    /\ DOMAIN s.label \subseteq 1..(t - 1)
    /\ \A d \in DOMAIN s.label : s.label[d] \in Labels
    /\ s.trained \subseteq Day
    /\ Len(s.ring) <= RingSize
    /\ \A i \in DOMAIN s.ring : s.ring[i].taken \in Day
    /\ s.streak \in [Layer -> 0..(Streak - 1)]
    /\ s.losing \in [Layer -> SUBSET Day]
    /\ s.disabled \in [Layer -> BOOLEAN]
    /\ s.seen \in [Layer -> {"on", "off"}]
    /\ s.frozen \in 0..(MaxDay + 1)
    /\ k = 0 => \A d \in Day : HasEvidence(s, d) => d \in s.trained

\* With NightInv it is inductive: a sweep visits closed days only, and the
\* options a store has seen are the ones in force.
ControlInv ==
    /\ today \in Day
    /\ utc \in {today - 1, today} \cap Day
    /\ option \in [Layer -> {"on", "off"}]
    /\ ControlIn(store, today, raised)
    /\ ControlIn(disk, today, raised)
    /\ store.seen = option
    /\ pending \subseteq 1..(today - 1)
    /\ manual \in Nat /\ raised \in Nat
    /\ manual + raised <= MaxIncidents

\* Any bag of days, folded once more or not, is one.
LEMMA BagsFold ==
    /\ Fresh \in Bag /\ Imported \in Bag
    /\ \A d \in Day : MayFold(d, Bag, Bag)
<1>1. Fresh \in Bag /\ Imported \in Bag
  BY RingAssumption DEF Fresh, Imported, Bag
<1>2. ASSUME NEW d \in Day, NEW x \in Bag
      PROVE  [x EXCEPT ![d] = @ + 1] \in Bag
  <2>1. d \in 0..MaxDay /\ x[d] + 1 \in Nat
    BY RingAssumption DEF Day, Bag
  <2> QED
    BY <2>1 DEF Bag
<1> QED
  BY <1>1, <1>2 DEF MayFold

\* A step that changes learners only changes nothing of this.
LEMMA LearnersOnly ==
    ASSUME NEW s, NEW t, NEW n, NEW k, ControlIn(s, n, k), DOMAIN t = Fields,
           \A f \in Fields \ {"bias", "shade", "quantile"} : t[f] = s[f]
    PROVE  ControlIn(t, n, k)
<1>1. /\ t.issued = s.issued /\ t.label = s.label /\ t.trained = s.trained /\ t.ring = s.ring
      /\ t.streak = s.streak /\ t.losing = s.losing /\ t.disabled = s.disabled
      /\ t.seen = s.seen /\ t.frozen = s.frozen
  BY DEF Fields
<1> QED
  BY <1>1 DEF ControlIn, HasEvidence, HasIssued, HasActuals

\* A snapshot enters the ring, which keeps its size and its dates.
LEMMA SnapshotControl ==
    ASSUME utc \in Day, NEW s, NEW n, NEW k, ControlIn(s, n, k), AllIn(s, Bag)
    PROVE  ControlIn(PushSnapshot(s), n, k) /\ ControlIn(MaybePushSnapshot(s), n, k)
<1> DEFINE new == [taken |-> utc, bias |-> s.bias, shade |-> s.shade, quantile |-> s.quantile]
           ring == Append(s.ring, new)
           cut == IF Len(ring) > RingSize THEN Tail(ring) ELSE ring
           t == PushSnapshot(s)
<1>1. utc \in Nat
  BY RingAssumption DEF Day
<1>2. /\ AllIn(t, Bag)
      /\ \A f \in Fields \ {"ring"} : t[f] = s[f]
  BY <1>1, SnapshotKeeps
<1>3. s.ring \in Seq(Snap(Bag)) /\ new \in Snap(Bag)
  BY <1>1 DEF AllIn, Snap
<1>4. t.ring = cut
  BY DEF PushSnapshot, AllIn, Fields
<1>5. /\ ring \in Seq(Snap(Bag)) /\ Len(ring) = Len(s.ring) + 1
      /\ \A i \in 1..Len(ring) : ring[i].taken \in Day
  <2>1. new.taken \in Day
    OBVIOUS
  <2>2. \A i \in 1..Len(s.ring) : s.ring[i].taken \in Day
    BY <1>3 DEF ControlIn
  <2> HIDE DEF new
  <2>3. ring \in Seq(Snap(Bag)) /\ Len(ring) = Len(s.ring) + 1
    BY <1>3
  <2>4. ASSUME NEW i \in 1..Len(ring) PROVE ring[i].taken \in Day
    <3>1. CASE i = Len(s.ring) + 1
      BY <1>3, <2>1, <3>1
    <3>2. CASE i # Len(s.ring) + 1
      <4>1. i \in 1..Len(s.ring)
        BY <1>3, <2>3, <3>2
      <4>2. ring[i] = s.ring[i]
        BY <1>3, <4>1
      <4> QED
        BY <2>2, <4>1, <4>2
    <3> QED
      BY <3>1, <3>2
  <2> QED
    BY <2>3, <2>4
<1> HIDE DEF ring, new
<1>6. Len(cut) <= RingSize /\ \A i \in DOMAIN cut : cut[i].taken \in Day
  <2>1. Len(s.ring) <= RingSize /\ RingSize \in Nat /\ Len(s.ring) \in Nat
    BY <1>3, RingAssumption DEF ControlIn
  <2>2. CASE Len(ring) > RingSize
    <3>1. ring # << >>
      BY <1>5, <2>1
    <3>2. /\ Tail(ring) \in Seq(Snap(Bag)) /\ Len(Tail(ring)) = Len(ring) - 1
          /\ \A i \in 1..Len(Tail(ring)) : Tail(ring)[i] = ring[i + 1] /\ i + 1 \in 1..Len(ring)
      BY <1>5, <3>1
    <3> QED
      BY <1>5, <2>1, <2>2, <3>2
  <2>3. CASE ~(Len(ring) > RingSize)
    BY <1>5, <2>1, <2>3
  <2> QED
    BY <2>2, <2>3
<1> HIDE DEF cut, t
<1>7. ControlIn(t, n, k)
  <2>1. /\ t.issued = s.issued /\ t.label = s.label /\ t.trained = s.trained
        /\ t.streak = s.streak /\ t.losing = s.losing /\ t.disabled = s.disabled
        /\ t.seen = s.seen /\ t.frozen = s.frozen /\ DOMAIN t = Fields
    BY <1>2 DEF Fields, AllIn
  <2> QED
    BY <1>4, <1>6, <2>1 DEF ControlIn, HasEvidence, HasIssued, HasActuals
<1> QED
  BY <1>7 DEF MaybePushSnapshot, t

\* The snapshot and the freeze of a night.
LEMMA PrepareControl ==
    ASSUME utc \in Day, NEW s, NEW n, NEW k, ControlIn(s, n, k), AllIn(s, Bag), NEW d \in Day
    PROVE  ControlIn(Prepare(s, d), n, k) /\ AllIn(Prepare(s, d), Bag)
<1> DEFINE p == MaybePushSnapshot(s)
<1>1. utc \in Nat
  BY RingAssumption DEF Day
<1>2. ControlIn(p, n, k) /\ AllIn(p, Bag) /\ AllIn(Prepare(s, d), Bag)
  BY <1>1, SnapshotControl, SnapshotKeeps, PrepareKeeps
<1>3. Prepare(s, d) = [p EXCEPT !.frozen = PlanFreeze(p, d)]
  BY DEF Prepare, SetFreeze
<1> HIDE DEF p
<1>4. PlanFreeze(p, d) \in 0..(MaxDay + 1)
  BY <1>2, RingAssumption DEF PlanFreeze, ControlIn, Day
<1> QED
  BY <1>2, <1>3, <1>4 DEF ControlIn, Fields, HasEvidence, HasIssued, HasActuals

\* A verdict leaves a streak below its limit, and turns layers off only.
LEMMA DriftControl ==
    ASSUME NEW s, NEW n, NEW k, ControlIn(s, n, k), AllIn(s, Bag), NEW d \in Day
    PROVE  /\ ControlIn(UpdateDrift(s, d), n, k)
           /\ \A l \in Layer : s.disabled[l] => UpdateDrift(s, d).disabled[l]
           /\ UpdateDrift(s, d).seen = s.seen
<1> DEFINE losing == [l \in Layer |->
                         CASE LegOf(s, d, l) = "losing"  -> s.losing[l] \cup {d}
                           [] LegOf(s, d, l) = "holding" -> {}
                           [] LegOf(s, d, l) = "none"    -> s.losing[l]]
           streak == [l \in Layer |->
                         CASE LegOf(s, d, l) = "losing"  -> s.streak[l] + 1
                           [] LegOf(s, d, l) = "holding" -> 0
                           [] LegOf(s, d, l) = "none"    -> s.streak[l]]
           off == {l \in Layer : Comparable(s, d) /\ Active(s, l) /\ streak[l] >= Streak}
           r == RestoreLayers(s, off)
           new == UpdateDrift(s, d)
<1>1. new = [r EXCEPT !.streak = Cleared(streak, off, 0),
                      !.losing = Cleared(losing, off, {}),
                      !.disabled = [l \in Layer |-> l \in off \/ s.disabled[l]],
                      !.quantile = IF off # {} THEN Fresh ELSE @]
  BY DEF UpdateDrift
<1>2. AllIn(r, Bag) /\ \A f \in Fields \ {"bias", "shade"} : r[f] = s[f]
  BY RestoreKeeps
<1>3. ASSUME NEW l \in Layer
      PROVE  /\ losing[l] \in SUBSET Day
             /\ l \notin off => streak[l] \in 0..(Streak - 1)
  <2>1. LegOf(s, d, l) \in Verdict
    BY LabelAssumption DEF LegOf, Comparable, HasEvidence, HasActuals, ControlIn, Label, Verdict
  <2>2. s.losing[l] \in SUBSET Day /\ s.streak[l] \in 0..(Streak - 1)
    BY DEF ControlIn
  <2>3. CASE LegOf(s, d, l) = "losing"
    <3>1. losing[l] = s.losing[l] \cup {d} /\ streak[l] = s.streak[l] + 1
      BY <2>3
    <3>2. Comparable(s, d) /\ Active(s, l)
      BY <2>3 DEF LegOf
    <3>3. l \notin off => ~(streak[l] >= Streak)
      BY <3>2
    <3> HIDE DEF off, losing, streak
    <3>4. streak[l] \in Nat /\ streak[l] <= Streak
      BY <2>2, <3>1, RingAssumption
    <3> QED
      BY <2>2, <3>1, <3>3, <3>4, RingAssumption
  <2>4. CASE LegOf(s, d, l) = "holding"
    <3>1. losing[l] = {} /\ streak[l] = 0
      BY <2>4
    <3> HIDE DEF off, losing, streak
    <3>2. 0 \in 0..(Streak - 1)
      BY RingAssumption
    <3> QED
      BY <3>1, <3>2
  <2>5. CASE LegOf(s, d, l) = "none"
    <3>1. losing[l] = s.losing[l] /\ streak[l] = s.streak[l]
      BY <2>5
    <3> QED
      BY <2>2, <3>1
  <2> QED
    BY <2>1, <2>3, <2>4, <2>5 DEF Verdict
<1> HIDE DEF r, new, off, losing, streak
<1>4. Cleared(streak, off, 0) \in [Layer -> 0..(Streak - 1)]
  BY <1>3, RingAssumption DEF Cleared
<1>5. Cleared(losing, off, {}) \in [Layer -> SUBSET Day]
  BY <1>3 DEF Cleared
<1>6. [l \in Layer |-> l \in off \/ s.disabled[l]] \in [Layer -> BOOLEAN]
  OBVIOUS
<1>7. /\ new.issued = s.issued /\ new.label = s.label /\ new.trained = s.trained
      /\ new.ring = s.ring /\ new.seen = s.seen /\ new.frozen = s.frozen
      /\ new.streak = Cleared(streak, off, 0) /\ new.losing = Cleared(losing, off, {})
      /\ new.disabled = [l \in Layer |-> l \in off \/ s.disabled[l]]
      /\ DOMAIN new = Fields
  BY <1>1, <1>2 DEF AllIn, Fields
<1>8. ControlIn(new, n, k)
  BY <1>4, <1>5, <1>6, <1>7 DEF ControlIn, HasEvidence, HasIssued, HasActuals
<1> QED
  BY <1>7, <1>8 DEF new

\* The steps before the verdict change learners only.
LEMMA StepsControl ==
    ASSUME NEW p, NEW n, NEW k, ControlIn(p, n, k), AllIn(p, Bag), NEW d \in Day
    PROVE  LET a == TrainDayAhead(p, d)
               g == TrainShademap(a, d)
           IN \A t \in {a, g, TrainQuantiles(p, d), TrainQuantiles(g, d)} :
                 /\ ControlIn(t, n, k) /\ AllIn(t, Bag)
                 /\ \A f \in Fields \ {"bias", "shade", "quantile"} : t[f] = p[f]
<1> DEFINE a == TrainDayAhead(p, d)
           g == TrainShademap(a, d)
           q == TrainQuantiles(p, d)
           h == TrainQuantiles(g, d)
<1>1. MayFold(d, Bag, Bag) /\ Bag \subseteq Bag
  BY BagsFold
<1>2. AllIn(a, Bag) /\ \A f \in Fields \ {"bias"} : a[f] = p[f]
  <2>1. p.bias \in Bag
    BY DEF AllIn
  <2> QED
    BY <1>1, <2>1, DayAheadKeeps
<1> HIDE DEF a
<1>3. AllIn(g, Bag) /\ \A f \in Fields \ {"shade"} : g[f] = a[f]
  <2>1. a.shade \in Bag
    BY <1>2 DEF AllIn
  <2> QED
    BY <1>1, <1>2, <2>1, ShademapKeeps
<1> HIDE DEF g
<1>4. AllIn(q, Bag) /\ \A f \in Fields \ {"quantile"} : q[f] = p[f]
  <2>1. p.quantile \in Bag
    BY DEF AllIn
  <2> QED
    BY <1>1, <2>1, QuantilesKeep
<1>5. AllIn(h, Bag) /\ \A f \in Fields \ {"quantile"} : h[f] = g[f]
  <2>1. g.quantile \in Bag
    BY <1>3 DEF AllIn
  <2> QED
    BY <1>1, <1>3, <2>1, QuantilesKeep
<1> HIDE DEF q, h
<1>6. \A t \in {a, g, q, h} : /\ AllIn(t, Bag) /\ DOMAIN t = Fields
                              /\ \A f \in Fields \ {"bias", "shade", "quantile"} : t[f] = p[f]
  BY <1>2, <1>3, <1>4, <1>5 DEF AllIn
<1>7. \A t \in {a, g, q, h} : ControlIn(t, n, k)
  BY <1>6, LearnersOnly
<1> QED
  BY <1>6, <1>7 DEF a, g, q, h

\* Every day other than d with evidence is marked.
MarkedBut(s, d) == \A e \in Day \ {d} : HasEvidence(s, e) => e \in s.trained

\* A pass from s to t keeps the store in order and turns layers off only.
PassFrom(s, t, n, k) ==
    /\ ControlIn(t, n, k)
    /\ \A l \in Layer : s.disabled[l] => t.disabled[l]
    /\ t.seen = s.seen

\* What a whole pass over a read day does, whatever was known of the other days.
LEMMA PassControl ==
    ASSUME utc \in Day, NEW s, NEW n, NEW k, ControlIn(s, n, 1), AllIn(s, Bag), NEW d \in Day,
           k = 0 => MarkedBut(s, d)
    PROVE  PassFrom(s, TrainAndGuard(s, d), n, k)
<1>1. CASE d \in s.trained
  <2>1. ControlIn(s, n, k)
    BY <1>1 DEF ControlIn, MarkedBut
  <2> QED
    BY <1>1, <2>1 DEF TrainAndGuard, PassFrom
<1>2. CASE d \notin s.trained
  <2> DEFINE p == Prepare(s, d)
             g == Geometric(p, d)
             q == TrainQuantiles(g, d)
             e == Empirical(g, d)
             m == MarkTrained(e, d)
  <2>1. ControlIn(p, n, 1) /\ AllIn(p, Bag)
    BY PrepareControl
  <2>2. /\ p.issued = s.issued /\ p.label = s.label /\ p.trained = s.trained
        /\ p.disabled = s.disabled /\ p.seen = s.seen
    <3>1. utc \in Nat
      BY RingAssumption DEF Day
    <3>2. \A f \in Fields \ {"ring", "frozen"} : p[f] = s[f]
      BY <3>1, PrepareKeeps
    <3> QED
      BY <3>2 DEF Fields
  <2> HIDE DEF p
  <2>3. /\ ControlIn(g, n, 1) /\ AllIn(g, Bag) /\ ControlIn(q, n, 1) /\ AllIn(q, Bag)
        /\ \A f \in Fields \ {"bias", "shade", "quantile"} : g[f] = p[f] /\ q[f] = p[f]
    <3>1. CASE Collapsed(p, d)
      <4>1. g = p
        BY <3>1 DEF Geometric
      <4> QED
        BY <2>1, <4>1, StepsControl
    <3>2. CASE ~Collapsed(p, d)
      <4>1. g = TrainShademap(TrainDayAhead(p, d), d)
        BY <3>2 DEF Geometric
      <4> HIDE DEF g
      <4>2. ASSUME NEW t \in {g, TrainQuantiles(g, d)}
            PROVE  /\ ControlIn(t, n, 1) /\ AllIn(t, Bag)
                   /\ \A f \in Fields \ {"bias", "shade", "quantile"} : t[f] = p[f]
        <5>1. t \in {TrainDayAhead(p, d), TrainShademap(TrainDayAhead(p, d), d),
                     TrainQuantiles(p, d),
                     TrainQuantiles(TrainShademap(TrainDayAhead(p, d), d), d)}
          BY <4>1
        <5> QED
          BY <2>1, <5>1, StepsControl, ZenonT(60)
      <4>3. /\ ControlIn(g, n, 1) /\ AllIn(g, Bag)
            /\ \A f \in Fields \ {"bias", "shade", "quantile"} : g[f] = p[f]
        BY <4>2
      <4>4. /\ ControlIn(q, n, 1) /\ AllIn(q, Bag)
            /\ \A f \in Fields \ {"bias", "shade", "quantile"} : q[f] = p[f]
        BY <4>2
      <4> HIDE DEF q
      <4> QED
        BY <4>3, <4>4
    <3> QED
      BY <3>1, <3>2
  <2>4. /\ g.issued = p.issued /\ g.label = p.label /\ g.trained = p.trained
        /\ g.disabled = p.disabled /\ g.seen = p.seen
        /\ q.issued = p.issued /\ q.label = p.label /\ q.trained = p.trained
        /\ q.disabled = p.disabled /\ q.seen = p.seen
    BY <2>3 DEF Fields
  <2> HIDE DEF g, q
  <2>5. /\ ControlIn(e, n, 1)
        /\ \A l \in Layer : s.disabled[l] => e.disabled[l]
        /\ e.seen = s.seen /\ e.issued = s.issued /\ e.label = s.label /\ e.trained = s.trained
    <3>1. CASE e = g
      BY <2>2, <2>3, <2>4, <3>1
    <3>2. CASE e = UpdateDrift(q, d)
      <4>1. /\ ControlIn(e, n, 1)
            /\ \A l \in Layer : q.disabled[l] => e.disabled[l]
            /\ e.seen = q.seen
        BY <2>3, <3>2, DriftControl
      <4>2. e.issued = q.issued /\ e.label = q.label /\ e.trained = q.trained
        BY <2>3, <3>2, RestoreKeeps DEF UpdateDrift, AllIn, Fields
      <4> QED
        BY <2>2, <2>4, <4>1, <4>2
    <3> QED
      BY <3>1, <3>2 DEF Empirical, q
  <2> HIDE DEF e
  <2>6. /\ DOMAIN m = Fields
        /\ \A f \in Fields \ {"trained"} : m[f] = e[f]
        /\ m.trained = IF HasEvidence(e, d) THEN e.trained \cup {d} ELSE e.trained
    BY <2>5 DEF MarkTrained, ControlIn, Fields
  <2>7. TrainAndGuard(s, d) = m
    BY <1>2 DEF TrainAndGuard, e, g, p
  <2> HIDE DEF m
  <2>8. /\ m.issued = s.issued /\ m.label = s.label /\ m.ring = e.ring
        /\ m.streak = e.streak /\ m.losing = e.losing /\ m.disabled = e.disabled
        /\ m.seen = s.seen /\ m.frozen = e.frozen
    BY <2>5, <2>6 DEF Fields
  <2>9. \A x \in Day : /\ HasEvidence(m, x) <=> HasEvidence(s, x)
                       /\ HasEvidence(e, x) <=> HasEvidence(s, x)
    BY <2>5, <2>8 DEF HasEvidence, HasIssued, HasActuals
  <2>10. k = 0 => \A x \in Day : HasEvidence(m, x) => x \in m.trained
    BY <2>5, <2>6, <2>9 DEF MarkedBut
  <2>11. m.trained \in SUBSET Day
    BY <2>5, <2>6 DEF ControlIn
  <2>12. ControlIn(m, n, k)
    BY <2>5, <2>6, <2>8, <2>10, <2>11 DEF ControlIn
  <2> QED
    BY <2>5, <2>7, <2>8, <2>12 DEF PassFrom
<1> QED
  BY <1>1, <1>2
\* A night cut short changes neither switches nor evidence.
LEMMA AbortedControl ==
    ASSUME utc \in Day, NEW s, NEW n, ControlIn(s, n, 1), AllIn(s, Bag), NEW d \in Day,
           NEW t \in Aborted(s, d)
    PROVE  /\ ControlIn(t, n, 1)
           /\ t.disabled = s.disabled /\ t.seen = s.seen
<1> DEFINE p == Prepare(s, d)
<1>1. ControlIn(p, n, 1) /\ AllIn(p, Bag)
  BY PrepareControl
<1>2. p.disabled = s.disabled /\ p.seen = s.seen
  <2>1. utc \in Nat
    BY RingAssumption DEF Day
  <2>2. \A f \in Fields \ {"ring", "frozen"} : p[f] = s[f]
    BY <2>1, PrepareKeeps
  <2> QED
    BY <2>2 DEF Fields
<1>3. t \in {p, TrainDayAhead(p, d), Geometric(p, d), TrainQuantiles(Geometric(p, d), d)}
  BY DEF Aborted
<1> HIDE DEF p
<1>4. t = p \/ t \in {TrainDayAhead(p, d), TrainShademap(TrainDayAhead(p, d), d),
                      TrainQuantiles(p, d),
                      TrainQuantiles(TrainShademap(TrainDayAhead(p, d), d), d)}
  BY <1>3 DEF Geometric
<1>5. CASE t = p
  BY <1>1, <1>2, <1>5
<1>6. CASE t # p
  <2>1. /\ ControlIn(t, n, 1)
        /\ \A f \in Fields \ {"bias", "shade", "quantile"} : t[f] = p[f]
    <3>1. \A u \in {TrainDayAhead(p, d), TrainShademap(TrainDayAhead(p, d), d),
                    TrainQuantiles(p, d),
                    TrainQuantiles(TrainShademap(TrainDayAhead(p, d), d), d)} :
              /\ ControlIn(u, n, 1) /\ AllIn(u, Bag)
              /\ \A f \in Fields \ {"bias", "shade", "quantile"} : u[f] = p[f]
      BY <1>1, StepsControl, Zenon
    <3> QED
      BY <1>4, <1>6, <3>1
  <2>2. t.disabled = p.disabled /\ t.seen = p.seen
    BY <2>1 DEF Fields
  <2> QED
    BY <1>2, <2>1, <2>2
<1> QED
  BY <1>5, <1>6

\* A label of a closed day leaves at most that day without its marker.
LEMMA ReadControl ==
    ASSUME NEW s, NEW n \in Nat, NEW k, ControlIn(s, n, k), AllIn(s, Bag),
           NEW d \in 1..(n - 1), NEW t \in Read(s, d)
    PROVE  /\ ControlIn(t, n, 1) /\ AllIn(t, Bag)
           /\ k = 0 => MarkedBut(t, d)
           /\ t.disabled = s.disabled /\ t.seen = s.seen
<1>1. CASE t = s
  BY <1>1 DEF ControlIn, MarkedBut
<1>2. CASE t # s
  <2>1. PICK l \in Labels : t = [s EXCEPT !.label = With(s.label, d, l)] /\ ~HasActuals(s, d)
    BY <1>2 DEF Read
  <2>2. /\ t.label = With(s.label, d, l) /\ DOMAIN t = Fields
        /\ t.issued = s.issued /\ t.trained = s.trained /\ t.ring = s.ring
        /\ t.streak = s.streak /\ t.losing = s.losing /\ t.disabled = s.disabled
        /\ t.seen = s.seen /\ t.frozen = s.frozen
        /\ t.bias = s.bias /\ t.shade = s.shade /\ t.quantile = s.quantile
    BY <2>1 DEF AllIn, Fields
  <2>3. DOMAIN t.label = DOMAIN s.label \cup {d} /\ \A e \in DOMAIN t.label : t.label[e] \in Labels
    BY <2>2 DEF With, ControlIn
  <2>4. \A e \in Day \ {d} : HasEvidence(t, e) <=> HasEvidence(s, e)
    BY <2>2, <2>3 DEF HasEvidence, HasIssued, HasActuals
  <2>5. ControlIn(t, n, 1)
    BY <2>2, <2>3 DEF ControlIn
  <2>6. AllIn(t, Bag)
    BY <2>2 DEF AllIn
  <2> QED
    BY <2>2, <2>4, <2>5, <2>6 DEF ControlIn, MarkedBut
<1> QED
  BY <1>1, <1>2

\* A forecast archived on its own day is evidence of nothing yet.
LEMMA IssueControl ==
    ASSUME today \in Day, NEW s, NEW k, ControlIn(s, today, k)
    PROVE  ControlIn([s EXCEPT !.issued = With(@, today, Shaping(s))], today, k)
<1> DEFINE t == [s EXCEPT !.issued = With(s.issued, today, Shaping(s))]
<1>1. /\ t.issued = With(s.issued, today, Shaping(s)) /\ DOMAIN t = Fields
      /\ t.label = s.label /\ t.trained = s.trained /\ t.ring = s.ring
      /\ t.streak = s.streak /\ t.losing = s.losing /\ t.disabled = s.disabled
      /\ t.seen = s.seen /\ t.frozen = s.frozen
  BY DEF ControlIn, Fields
<1> HIDE DEF t
<1>2. Shaping(s) \subseteq Layer
  BY DEF Shaping
<1>3. /\ DOMAIN t.issued = DOMAIN s.issued \cup {today}
      /\ \A d \in DOMAIN t.issued : t.issued[d] \subseteq Layer
  BY <1>1, <1>2 DEF With, ControlIn
<1>4. today \in 1..today /\ today \notin 1..(today - 1)
  BY RingAssumption DEF Day
<1>5. \A e \in Day : HasEvidence(t, e) <=> HasEvidence(s, e)
  BY <1>1, <1>3, <1>4 DEF HasEvidence, HasIssued, HasActuals, ControlIn
<1>6. ControlIn(t, today, k)
  BY <1>1, <1>3, <1>4, <1>5 DEF ControlIn
<1> QED
  BY <1>6 DEF t

\* A setup takes over the options, and re-enables only what they turned on.
LEMMA RebuildControl ==
    ASSUME NEW s, NEW n, NEW k, ControlIn(s, n, k), NEW switch \in [Layer -> {"on", "off"}]
    PROVE  LET t == Rebuild(s, switch)
           IN /\ ControlIn(t, n, k) /\ t.seen = switch
              /\ \A l \in Layer : t.disabled[l] <=>
                     s.disabled[l] /\ ~(switch[l] = "on" /\ s.seen[l] = "off")
<1> DEFINE reenabled == Reenabled(s, switch)
           changed == {l \in Layer : s.seen[l] # switch[l]}
           cleared == {l \in reenabled : s.disabled[l]}
                      \cup (IF "slow" \in changed THEN Layer ELSE changed)
           t == Rebuild(s, switch)
<1>1. t = [s EXCEPT !.disabled = [l \in Layer |-> s.disabled[l] /\ l \notin reenabled],
                    !.streak = Cleared(@, cleared, 0),
                    !.losing = Cleared(@, cleared, {}),
                    !.seen = switch,
                    !.quantile = IF changed # {} THEN Fresh ELSE @]
  BY DEF Rebuild
<1> HIDE DEF t, changed, cleared
<1>2. /\ t.issued = s.issued /\ t.label = s.label /\ t.trained = s.trained /\ t.ring = s.ring
      /\ t.frozen = s.frozen /\ DOMAIN t = Fields
      /\ t.disabled = [l \in Layer |-> s.disabled[l] /\ l \notin reenabled]
      /\ t.streak = Cleared(s.streak, cleared, 0)
      /\ t.losing = Cleared(s.losing, cleared, {})
      /\ t.seen = switch
  BY <1>1 DEF ControlIn, Fields
<1> HIDE DEF reenabled
<1>3. t.disabled \in [Layer -> BOOLEAN]
  BY <1>2
<1>4. 0 \in 0..(Streak - 1)
  BY RingAssumption
<1>5. t.streak \in [Layer -> 0..(Streak - 1)] /\ t.losing \in [Layer -> SUBSET Day]
  <2>1. s.streak \in [Layer -> 0..(Streak - 1)] /\ s.losing \in [Layer -> SUBSET Day]
    BY DEF ControlIn
  <2> QED
    BY <1>2, <1>4, <2>1 DEF Cleared
<1>6. ControlIn(t, n, k)
  BY <1>2, <1>3, <1>5 DEF ControlIn, HasEvidence, HasIssued, HasActuals
<1>7. \A l \in Layer : t.disabled[l] <=>
          s.disabled[l] /\ ~(switch[l] = "on" /\ s.seen[l] = "off")
  BY <1>2 DEF reenabled, Reenabled
<1> QED
  BY <1>2, <1>6, <1>7 DEF t

\* The bags that NightInv allows are bags.
LEMMA NightBags == NightInv => AllIn(store, Bag) /\ AllIn(disk, Bag)
<1>1. \A T, E, k : Folds(T, E, k) \subseteq Bag
  BY DEF Folds
<1> QED
  BY <1>1, AllInGrows DEF NightInv, StoreInv

\* Every store is one of the first day and no pass has raised.
LEMMA InitControl == Init => ControlInv
<1> SUFFICES ASSUME Init PROVE ControlInv
  OBVIOUS
<1>1. /\ store.issued = <<>> /\ store.label = <<>> /\ store.trained = {}
      /\ store.ring = <<>> /\ store.frozen = 0
      /\ store.streak = [l \in Layer |-> 0] /\ store.losing = [l \in Layer |-> {}]
      /\ store.disabled = [l \in Layer |-> FALSE] /\ store.seen = [l \in Layer |-> "on"]
      /\ DOMAIN store = Fields
  BY DEF Init, Fields
<1>2. /\ raised = 0 /\ manual = 0 /\ utc = 1 /\ today = 1 /\ disk = store /\ pending = {}
      /\ option = [l \in Layer |-> "on"]
  BY DEF Init
<1>3. 1 \in Day /\ 0 \in 0..(Streak - 1) /\ 0 \in 0..(MaxDay + 1) /\ 0 <= RingSize
  BY RingAssumption DEF Day
<1>4. DOMAIN store.issued = {} /\ DOMAIN store.label = {} /\ DOMAIN store.ring = {}
  BY <1>1
<1>5. Len(store.ring) = 0
  BY <1>1
<1>6. ControlIn(store, today, raised)
  BY <1>1, <1>2, <1>3, <1>4, <1>5 DEF ControlIn, HasEvidence, HasIssued
<1>7. manual + raised <= MaxIncidents /\ manual \in Nat /\ raised \in Nat
  BY <1>2, RingAssumption
<1>8. today \in {today - 1, today} \cap Day
  BY <1>2, <1>3
<1> QED
  BY <1>1, <1>2, <1>3, <1>6, <1>7, <1>8 DEF ControlInv

\* A day later, or with more raised passes, a store is in order as before.
LEMMA LaterControl ==
    ASSUME NEW s, NEW n \in Nat, NEW k \in Nat, ControlIn(s, n, k)
    PROVE  ControlIn(s, n + 1, k) /\ ControlIn(s, n, k + 1)
<1>1. 1..n \subseteq 1..(n + 1) /\ 1..(n - 1) \subseteq 1..((n + 1) - 1)
  OBVIOUS
<1>2. k + 1 # 0
  OBVIOUS
<1>3. ControlIn(s, n + 1, k)
  BY <1>1 DEF ControlIn
<1>4. ControlIn(s, n, k + 1)
  BY <1>2 DEF ControlIn
<1> QED
  BY <1>3, <1>4

\* What a day of a sweep, trained or cut short, does with store and switches.
LEMMA SweptControl ==
    ASSUME NightInv, ControlInv, pending # {}, NEW d, d = Min(pending)
    PROVE  /\ d \in Day /\ d \in 1..(today - 1)
           /\ \A s \in Read(store, d) :
                 /\ ControlIn(TrainAndGuard(s, d), today, raised)
                 /\ \A l \in Layer : store.disabled[l] => TrainAndGuard(s, d).disabled[l]
                 /\ TrainAndGuard(s, d).seen = store.seen
                 /\ \A t \in Aborted(s, d) :
                       /\ ControlIn(t, today, raised + 1)
                       /\ t.disabled = store.disabled /\ t.seen = store.seen
<1>1. d \in Day /\ d \in 1..(today - 1)
  BY LeastDay DEF NightInv, ControlInv
<1>2. utc \in Day /\ today \in Nat /\ raised \in Nat /\ AllIn(store, Bag)
  BY NightBags, RingAssumption DEF ControlInv, Day
<1>3. ASSUME NEW s \in Read(store, d)
      PROVE  /\ ControlIn(s, today, 1) /\ AllIn(s, Bag)
             /\ raised = 0 => MarkedBut(s, d)
             /\ s.disabled = store.disabled /\ s.seen = store.seen
  BY <1>1, <1>2, ReadControl DEF ControlInv
<1>4. ASSUME NEW s \in Read(store, d)
      PROVE  /\ ControlIn(TrainAndGuard(s, d), today, raised)
             /\ \A l \in Layer : store.disabled[l] => TrainAndGuard(s, d).disabled[l]
             /\ TrainAndGuard(s, d).seen = store.seen
  <2>1. /\ ControlIn(s, today, 1) /\ AllIn(s, Bag)
        /\ raised = 0 => MarkedBut(s, d)
    BY <1>3
  <2>2. PassFrom(s, TrainAndGuard(s, d), today, raised)
    BY <1>1, <1>2, <2>1, PassControl
  <2> QED
    BY <1>3, <2>2 DEF PassFrom
<1>5. ASSUME NEW s \in Read(store, d), NEW t \in Aborted(s, d)
      PROVE  /\ ControlIn(t, today, raised + 1)
             /\ t.disabled = store.disabled /\ t.seen = store.seen
  <2>1. /\ ControlIn(t, today, 1)
        /\ t.disabled = s.disabled /\ t.seen = s.seen
    BY <1>1, <1>2, <1>3, AbortedControl
  <2>2. raised + 1 # 0
    BY <1>2
  <2>3. ControlIn(t, today, raised + 1)
    BY <2>1, <2>2 DEF ControlIn
  <2> QED
    BY <1>3, <2>1, <2>3
<1> QED
  BY <1>1, <1>4, <1>5

\* Every action keeps it.
LEMMA NextControl == NightInv /\ ControlInv /\ [Next]_vars => ControlInv'
<1> SUFFICES ASSUME NightInv, ControlInv, [Next]_vars PROVE ControlInv'
  OBVIOUS
<1>0. /\ today \in Day /\ today \in Nat /\ utc \in Day /\ raised \in Nat /\ manual \in Nat
      /\ manual + raised <= MaxIncidents /\ utc \in {today - 1, today}
      /\ option \in [Layer -> {"on", "off"}]
      /\ ControlIn(store, today, raised) /\ ControlIn(disk, today, raised)
      /\ store.seen = option /\ pending \subseteq 1..(today - 1)
      /\ AllIn(store, Bag) /\ AllIn(disk, Bag)
  BY NightBags, RingAssumption DEF ControlInv, Day
\* The primed invariant, from facts about the primed store and file.
<1>00. ASSUME NEW s, NEW f, NEW n, NEW k, s = store', f = disk', n = today', k = raised',
              ControlIn(s, n, k), ControlIn(f, n, k)
       PROVE  ControlIn(store, today, raised)' /\ ControlIn(disk, today, raised)'
  BY <1>00 DEF ControlIn, HasEvidence, HasIssued, HasActuals
<1> DEFINE Clocks == UNCHANGED <<today, utc, option>>
           Count == /\ manual' \in Nat /\ raised' \in Nat
                    /\ manual' + raised' <= MaxIncidents
\* The operator's operations and reloads, on an idle calendar.
<1>a. ASSUME UNCHANGED <<today, utc>>, option' \in [Layer -> {"on", "off"}], Count,
             ControlIn(store', today, raised'), ControlIn(disk', today, raised'),
             store'.seen = option', pending' \subseteq 1..(today - 1)
      PROVE  ControlInv'
  <2>1. ControlIn(store, today, raised)' /\ ControlIn(disk, today, raised)'
    BY <1>a, <1>00
  <2> QED
    BY <1>0, <1>a, <2>1 DEF ControlInv
<1>1. CASE StartSweep
  <2>1. CatchupDays \subseteq 1..(today - 1)
    BY <1>0, RingAssumption DEF CatchupDays, Day
  <2>2. ControlIn(store', today, raised) /\ store'.seen = option
    <3>1. CASE store' = store
      BY <1>0, <3>1
    <3>2. CASE store' # store
      <4>1. store' = [store EXCEPT !.issued = With(@, today, Shaping(store))]
        BY <1>1, <3>2 DEF StartSweep
      <4>2. store'.seen = store.seen
        BY <1>0, <4>1 DEF ControlIn, Fields
      <4> QED
        BY <1>0, <4>1, <4>2, IssueControl
    <3> QED
      BY <3>1, <3>2
  <2>3. /\ Clocks /\ disk' = disk /\ raised' = raised /\ manual' = manual
        /\ pending' = CatchupDays
    BY <1>1 DEF StartSweep
  <2> QED
    BY <1>0, <1>a, <2>1, <2>2, <2>3
<1>2. CASE SweepDay
  <2> DEFINE d == Min(pending)
  <2>1. PICK s \in Read(store, d) : store' = TrainAndGuard(s, d)
    BY <1>2 DEF SweepDay
  <2>2. pending # {} /\ pending' = pending \ {d}
    BY <1>2 DEF SweepDay
  <2>3. Clocks /\ disk' = disk /\ raised' = raised /\ manual' = manual
    BY <1>2 DEF SweepDay
  <2> HIDE DEF d
  <2>4. ControlIn(store', today, raised) /\ store'.seen = option
    BY <1>0, <2>1, <2>2, SweptControl DEF d
  <2> QED
    BY <1>0, <1>a, <2>2, <2>3, <2>4
<1>3. CASE AbortedDay
  <2> DEFINE d == Min(pending)
  <2>1. PICK s \in Read(store, d) : store' \in Aborted(s, d)
    BY <1>3 DEF AbortedDay
  <2>2. pending # {} /\ pending' = pending \ {d}
    BY <1>3 DEF AbortedDay
  <2>3. Clocks /\ disk' = disk /\ raised' = raised + 1 /\ manual' = manual
    BY <1>3 DEF AbortedDay
  <2> HIDE DEF d
  <2>4. ControlIn(store', today, raised + 1) /\ store'.seen = option
    BY <1>0, <2>1, <2>2, SweptControl DEF d
  <2>5. ControlIn(disk, today, raised + 1)
    BY <1>0, LaterControl
  <2>6. Count
    <3>1. manual + raised < MaxIncidents
      BY <1>3 DEF AbortedDay
    <3> QED
      BY <1>0, <2>3, <3>1, RingAssumption
  <2> QED
    BY <1>0, <1>a, <2>2, <2>3, <2>4, <2>5, <2>6
\* The operator replaces learners.
<1>b. ASSUME Intervene, UNCHANGED <<today, utc, option, disk, raised>>,
             ControlIn(store', today, raised), store'.seen = store.seen
      PROVE  ControlInv'
  <2>1. manual' = manual + 1 /\ manual + raised < MaxIncidents /\ pending' = {}
    BY <1>b DEF Intervene
  <2>2. Count
    BY <1>0, <1>b, <2>1, RingAssumption
  <2> QED
    BY <1>0, <1>a, <1>b, <2>1, <2>2
<1>4. CASE Import
  <2> DEFINE p == PushSnapshot(store)
  <2>1. ControlIn(p, today, raised) /\ DOMAIN p = Fields /\ p.seen = store.seen
    <3>1. utc \in Nat
      BY <1>0, RingAssumption DEF Day
    <3>2. AllIn(p, Bag) /\ \A f \in Fields \ {"ring"} : p[f] = store[f]
      BY <1>0, <3>1, SnapshotKeeps
    <3>3. ControlIn(p, today, raised)
      BY <1>0, SnapshotControl
    <3> HIDE DEF p
    <3> QED
      BY <3>2, <3>3 DEF AllIn, Fields
  <2>2. \E withBands \in BOOLEAN :
            store' = [p EXCEPT !.bias = Imported, !.shade = Imported,
                               !.quantile = IF withBands THEN Imported ELSE p.quantile]
    BY <1>4, Zenon DEF Import
  <2> HIDE DEF p
  <2>3. /\ DOMAIN store' = Fields
        /\ \A f \in Fields \ {"bias", "shade", "quantile"} : store'[f] = p[f]
    BY <2>1, <2>2 DEF Fields
  <2>4. ControlIn(store', today, raised)
    BY <2>1, <2>3, LearnersOnly
  <2>5. store'.seen = p.seen
    BY <2>3 DEF Fields
  <2> QED
    BY <1>4, <1>b, <2>1, <2>4, <2>5 DEF Import
\* The other two replace learners only.
<1>c. ASSUME Rollback \/ ResetDayAheadBias PROVE ControlInv'
  <2>1. /\ DOMAIN store' = Fields
        /\ \A f \in Fields \ {"bias", "shade", "quantile"} : store'[f] = store[f]
    <3>0. DOMAIN store = Fields
      BY <1>0 DEF AllIn
    <3>1. CASE Rollback
      BY <3>0, <3>1 DEF Rollback, Fields
    <3>2. CASE ResetDayAheadBias
      BY <3>0, <3>2 DEF ResetDayAheadBias, Fields
    <3> QED
      BY <1>c, <3>1, <3>2
  <2>2. ControlIn(store', today, raised)
    BY <1>0, <2>1, LearnersOnly
  <2>3. store'.seen = store.seen
    BY <2>1 DEF Fields
  <2>4. Intervene /\ UNCHANGED <<today, utc, option, disk, raised>>
    <3>1. CASE Rollback
      BY <3>1, Zenon DEF Rollback
    <3>2. CASE ResetDayAheadBias
      BY <3>2 DEF ResetDayAheadBias
    <3> QED
      BY <1>c, <3>1, <3>2
  <2> QED
    BY <1>b, <2>2, <2>3, <2>4
<1>7. ASSUME NEW l \in Layer, Reconfigure(l) PROVE ControlInv'
  <2>1. /\ store' = Rebuild(store, option') /\ disk' = store /\ pending' = {}
        /\ manual' = manual + 1 /\ manual + raised < MaxIncidents
        /\ UNCHANGED <<today, utc, raised>>
        /\ option' = [option EXCEPT ![l] = IF @ = "on" THEN "off" ELSE "on"]
    BY <1>7 DEF Reconfigure
  <2>2. option' \in [Layer -> {"on", "off"}]
    BY <1>0, <2>1
  <2>3. ControlIn(store', today, raised) /\ store'.seen = option'
    <3> DEFINE switch == option'
    <3>1. store' = Rebuild(store, switch) /\ switch \in [Layer -> {"on", "off"}]
      BY <2>1, <2>2
    <3> HIDE DEF switch
    <3>2. ControlIn(store', today, raised) /\ store'.seen = switch
      BY <1>0, <3>1, RebuildControl
    <3> QED
      BY <3>2 DEF switch
  <2>4. Count
    BY <1>0, <2>1, RingAssumption
  <2> QED
    BY <1>0, <1>a, <2>1, <2>2, <2>3, <2>4
<1>8. CASE Save
  BY <1>0, <1>a, <1>8 DEF Save
\* A start rebuilds what it loads.
<1>9. CASE Restart \/ Crash
  <2>1. PICK s \in {store, disk} : store' = Rebuild(s, option)
    BY <1>9 DEF Restart, Crash
  <2>2. ControlIn(store', today, raised) /\ store'.seen = option
    BY <1>0, <2>1, RebuildControl
  <2>3. /\ UNCHANGED <<today, utc, option, manual, raised>> /\ pending' = {}
        /\ disk' \in {store, disk}
    BY <1>9 DEF Restart, Crash
  <2> QED
    BY <1>0, <1>a, <2>2, <2>3
<1>11. CASE LocalMidnight
  <2>1. /\ today < MaxDay /\ utc = today /\ today' = today + 1
        /\ UNCHANGED <<utc, option, store, disk, pending, manual, raised>>
    BY <1>11 DEF LocalMidnight
  <2>2. ControlIn(store, today + 1, raised) /\ ControlIn(disk, today + 1, raised)
    BY <1>0, LaterControl
  <2>3. ControlIn(store, today, raised)' /\ ControlIn(disk, today, raised)'
    BY <1>00, <2>1, <2>2
  <2>4. today' \in Day /\ utc' \in {today' - 1, today'} \cap Day
        /\ pending' \subseteq 1..(today' - 1)
    BY <1>0, <2>1, RingAssumption DEF Day
  <2> QED
    BY <1>0, <2>1, <2>3, <2>4 DEF ControlInv
<1>12. CASE UtcMidnight
  <2>1. /\ utc < today /\ utc' = utc + 1
        /\ UNCHANGED <<today, option, store, disk, pending, manual, raised>>
    BY <1>12 DEF UtcMidnight
  <2>2. ControlIn(store, today, raised)' /\ ControlIn(disk, today, raised)'
    BY <1>0, <1>00, <2>1
  <2>3. utc' \in {today' - 1, today'} \cap Day
    BY <1>0, <2>1
  <2> QED
    BY <1>0, <2>1, <2>2, <2>3 DEF ControlInv
<1>13. CASE UNCHANGED vars
  BY <1>0, <1>a, <1>13 DEF vars
<1> QED
  BY <1>1, <1>2, <1>3, <1>4, <1>c, <1>7, <1>8, <1>9, <1>11, <1>12, <1>13 DEF Next

\* What the store keeps of the days and of the switches is in order at every
\* local day, in memory and in the file: a forecast is archived on its day, a
\* measurement read after it, and as long as no pass was cut short a day with
\* both is marked as trained.
THEOREM ControlInvariant == Spec => []ControlInv
<1>1. Init => NightInv /\ ControlInv
  BY InitNight, InitControl
<1>2. (NightInv /\ ControlInv) /\ [Next]_vars => (NightInv /\ ControlInv)'
  BY NextNight, NextControl
<1> QED
  BY <1>1, <1>2, PTL DEF Spec

\* A bag the markers allow counts no day beyond one fold and the raised passes.
LEMMA BagsAreLearners ==
    ASSUME NEW T, NEW E, NEW k \in Nat, k <= MaxIncidents
    PROVE  Folds(T, E, k) \subseteq Learner
<1> SUFFICES ASSUME NEW x \in Folds(T, E, k), NEW d \in 0..MaxDay
             PROVE  x[d] \in 0..(1 + MaxIncidents)
  BY DEF Folds, Bag, Learner
<1>1. x[d] \in Nat
  BY DEF Folds, Bag
<1>2. CASE d = 0
  BY <1>1, <1>2, RingAssumption DEF Folds
<1>3. CASE d # 0
  <2>1. d \in Day
    BY <1>3, RingAssumption DEF Day
  <2>2. x[d] <= (IF d \in T THEN 1 ELSE 0) + k
    BY <2>1 DEF Folds
  <2> QED
    BY <1>1, <2>2, RingAssumption
<1> QED
  BY <1>2, <1>3

LEMMA StoresAreTyped ==
    ASSUME NEW s, NEW n \in Day, NEW k \in Nat, k <= MaxIncidents,
           StoreInv(s, k), ControlIn(s, n, k)
    PROVE  StoreOK(s)
<1> DEFINE F == Folds(s.trained, Evidence(s), k)
<1>1. F \subseteq Learner
  BY BagsAreLearners
<1>2. AllIn(s, F)
  BY DEF StoreInv
<1> HIDE DEF F
<1>3. {s.bias, s.shade, s.quantile} \subseteq Learner
  BY <1>1, <1>2 DEF AllIn
<1>4. ASSUME NEW i \in DOMAIN s.ring
      PROVE  s.ring[i] \in [taken : Day, bias : Learner, shade : Learner, quantile : Learner]
  <2>1. s.ring[i] \in Snap(F)
    BY <1>2, <1>4 DEF AllIn
  <2>2. s.ring[i].taken \in Day
    BY <1>4 DEF ControlIn
  <2> HIDE DEF Learner
  <2> QED
    BY <1>1, <2>1, <2>2 DEF Snap
<1>5. 1..n \subseteq Day /\ 1..(n - 1) \subseteq Day
  BY RingAssumption DEF Day
<1> QED
  BY <1>3, <1>4, <1>5 DEF StoreOK, ControlIn

\* The store, its file and the snapshots in both hold only what they are declared
\* to hold: in particular no streak rests at the limit (update_drift), and no
\* learner counts a day more often than passes could have.
THEOREM NightTypeCorrect == Spec => []TypeOK
<1>1. ASSUME NightInv, ControlInv PROVE TypeOK
  <2>1. /\ today \in Day /\ raised \in Nat /\ raised <= MaxIncidents
        /\ StoreInv(store, raised) /\ StoreInv(disk, raised)
        /\ ControlIn(store, today, raised) /\ ControlIn(disk, today, raised)
    BY <1>1, RingAssumption DEF NightInv, ControlInv
  <2>2. StoreOK(store) /\ StoreOK(disk)
    BY <2>1, StoresAreTyped
  <2> QED
    BY <1>1, <2>2 DEF NightInv, ControlInv, TypeOK
<1> QED
  BY <1>1, NightInvariant, ControlInvariant, PTL

\* A sweep that ends without a raised step has trained every day of the catch-up
\* window with a forecast and a measurement, also those behind the newest trained
\* day (trained_days is a set, not a watermark).
THEOREM NoHoleBehindHolds == Spec => NoHoleBehind
<1> DEFINE Swept == SweepDay /\ pending' = {} /\ raised = 0 =>
                        \A d \in Day :
                            d < today /\ d + Window >= today /\ HasEvidence(store', d)
                                => d \in store'.trained
<1>1. ControlInv' /\ [Next]_vars => [Swept]_vars
  <2> SUFFICES ASSUME ControlInv', SweepDay, raised = 0, NEW d \in Day, HasEvidence(store', d)
               PROVE  d \in store'.trained
    OBVIOUS
  <2>1. raised' = 0
    BY DEF SweepDay
  <2>2. ControlIn(store', today', raised')
    BY DEF ControlInv, ControlIn, HasEvidence, HasIssued, HasActuals
  <2> QED
    BY <2>1, <2>2 DEF ControlIn
<1> QED
  BY <1>1, ControlInvariant, PTL DEF Spec, NoHoleBehind

\* A layer that update_drift switched off stays off until the operator takes it
\* from off to on (or a crash forgets that it was switched off): no night, no
\* service and no restart re-enables it.
THEOREM DisabledUntilReenabledHolds == Spec => DisabledUntilReenabled
<1> DEFINE Kept == \A l \in Layer :
                      store.disabled[l] /\ ~store'.disabled[l] =>
                          \/ option'[l] = "on" /\ option[l] = "off"
                          \/ ~disk.disabled[l]
                          \/ disk.seen[l] = "off"
<1>1. NightInv /\ ControlInv /\ [Next]_vars => [Kept]_vars
  <2> SUFFICES ASSUME NightInv, ControlInv, [Next]_vars,
                      NEW l \in Layer, store.disabled[l], ~store'.disabled[l]
               PROVE  \/ option'[l] = "on" /\ option[l] = "off"
                      \/ ~disk.disabled[l]
                      \/ disk.seen[l] = "off"
    OBVIOUS
  <2>1. /\ store.seen = option /\ option \in [Layer -> {"on", "off"}]
        /\ ControlIn(store, today, raised) /\ ControlIn(disk, today, raised)
        /\ DOMAIN store = Fields
    BY DEF ControlInv, ControlIn
  <2>2. CASE SweepDay \/ AbortedDay
    <3>1. pending # {} /\ \E s \in Read(store, Min(pending)) :
             \/ store' = TrainAndGuard(s, Min(pending))
             \/ store' \in Aborted(s, Min(pending))
      BY <2>2 DEF SweepDay, AbortedDay
    <3> QED
      BY <3>1, SweptControl
  <2>3. CASE StartSweep \/ Import \/ Rollback \/ ResetDayAheadBias
    <3>1. store'.disabled = store.disabled
      <4>1. CASE StartSweep
        BY <2>1, <4>1 DEF StartSweep, Fields
      <4>2. CASE Import
        <5>1. PushSnapshot(store).disabled = store.disabled
              /\ DOMAIN PushSnapshot(store) = Fields
          BY <2>1 DEF PushSnapshot, Fields
        <5> QED
          BY <4>2, <5>1 DEF Import, Fields
      <4>3. CASE Rollback
        BY <2>1, <4>3 DEF Rollback, Fields
      <4>4. CASE ResetDayAheadBias
        BY <2>1, <4>4 DEF ResetDayAheadBias, Fields
      <4> QED
        BY <2>3, <4>1, <4>2, <4>3, <4>4
    <3> QED
      BY <3>1
  <2>4. CASE \E m \in Layer : Reconfigure(m)
    <3> DEFINE switch == option'
    <3>1. store' = Rebuild(store, switch) /\ switch \in [Layer -> {"on", "off"}]
      BY <2>1, <2>4 DEF Reconfigure
    <3> HIDE DEF switch
    <3>2. store'.disabled[l] <=>
             store.disabled[l] /\ ~(switch[l] = "on" /\ store.seen[l] = "off")
      BY <2>1, <3>1, RebuildControl
    <3> QED
      BY <2>1, <3>2 DEF switch
  <2>5. CASE Restart
    <3>1. store'.disabled[l] <=>
             store.disabled[l] /\ ~(option[l] = "on" /\ store.seen[l] = "off")
      BY <2>1, <2>5, RebuildControl DEF Restart
    <3> QED
      BY <2>1, <3>1
  <2>6. CASE Crash
    <3>1. store'.disabled[l] <=>
             disk.disabled[l] /\ ~(option[l] = "on" /\ disk.seen[l] = "off")
      BY <2>1, <2>6, RebuildControl DEF Crash
    <3> QED
      BY <2>1, <3>1
  <2>7. CASE Save \/ LocalMidnight \/ UtcMidnight \/ UNCHANGED vars
    BY <2>7 DEF Save, LocalMidnight, UtcMidnight, vars
  <2> QED
    BY <2>2, <2>3, <2>4, <2>5, <2>6, <2>7 DEF Next
<1> QED
  BY <1>1, NightInvariant, ControlInvariant, PTL DEF Spec, DisabledUntilReenabled
=============================================================================
