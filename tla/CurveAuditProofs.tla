-------------------------- MODULE CurveAuditProofs --------------------------
(***************************************************************************)
(* Proofs about CurveAudit.  The revision counters of today and yesterday  *)
(* are those of these two days: that the counter of a new day may start at *)
(* zero, and that of an absent yesterday is zero, needs that nothing was   *)
(* ever counted after the audit's day.  And only news are counted: between *)
(* them every headline of the baseline stays what it is, whatever scalar   *)
(* it was published with.                                                  *)
(***************************************************************************)
EXTENDS CurveAudit, SumProofs, SequenceTheorems, TLAPS

\* A section of the audit, in memory or in the file, that is not ahead of the
\* clock and has counted nothing after its day.
Orderly(a) ==
    /\ a \in Audit
    /\ a.day <= Today
    /\ \A d \in Date : d > a.day => a.log[d] = Zero
    /\ a.day = NoDate => a.today = Zero /\ a.yesterday = Zero
    /\ a.day # NoDate => a.today = a.log[a.day]
    /\ a.day \in Date \ {0} => a.yesterday = a.log[a.day - 1]

\* The inductive invariant.
AuditInv ==
    /\ now \in Slot
    /\ Orderly(audit)
    /\ Orderly(disk)

-----------------------------------------------------------------------------
(***************************************************************************)
(* Dates and counters.                                                     *)
(***************************************************************************)

\* The calendar reaches as far as the last headline of the last day.
LEMMA TodayInDate ==
    ASSUME now \in Slot
    PROVE  Today \in Date /\ Today \in Nat /\ DateOf(MaxSlot) \in Nat
PROOF
  <1>1. /\ MaxSlot \in Nat /\ now \in 0..MaxSlot /\ Ahead \in Nat
        /\ SlotsPerDay \in Nat \ {0}
    BY ScalarAssumption, AuditAssumption DEF Slot
  <1>2. now \div SlotsPerDay \in Nat /\ MaxSlot \div SlotsPerDay \in Nat
    BY <1>1
  <1>3. now \div SlotsPerDay <= MaxSlot \div SlotsPerDay
    BY <1>1
  <1> QED
    BY <1>1, <1>2, <1>3 DEF Today, DateOf, Date

\* Time does not run backwards.
LEMMA TodayAdvances ==
    ASSUME now \in Slot, Advance
    PROVE  now' \in Slot /\ Today \in Nat /\ Today' \in Nat /\ Today <= Today'
PROOF
  <1>1. /\ MaxSlot \in Nat /\ now \in 0..MaxSlot
        /\ SlotsPerDay \in Nat \ {0} /\ now' = now + 1 /\ now < MaxSlot
    BY ScalarAssumption DEF Slot, Advance
  <1>2. now' \in Slot
    BY <1>1 DEF Slot
  <1>3. /\ now \div SlotsPerDay \in Nat /\ (now + 1) \div SlotsPerDay \in Nat
        /\ now \div SlotsPerDay <= (now + 1) \div SlotsPerDay
    BY <1>1
  <1> QED
    BY <1>1, <1>2, <1>3 DEF Today, DateOf

\* A counter that counts stays within its bound.
LEMMA CountedType ==
    ASSUME NEW counts \in Counts, NEW offsets
    PROVE  Counted(counts, offsets) \in Counts
PROOF
  <1>1. SUFFICES ASSUME NEW o \in Offset
                 PROVE  (IF o \in offsets THEN Min({counts[o] + 1, MaxCount})
                         ELSE counts[o]) \in 0..MaxCount
    BY DEF Counted, Counts
  <1>2. MaxCount \in Nat /\ counts[o] \in 0..MaxCount
    BY AuditAssumption DEF Counts
  <1>3. Min({counts[o] + 1, MaxCount}) \in 0..MaxCount
    <2>1. \E x \in {counts[o] + 1, MaxCount} :
              \A y \in {counts[o] + 1, MaxCount} : x <= y
      BY <1>2
    <2>2. /\ Min({counts[o] + 1, MaxCount}) \in {counts[o] + 1, MaxCount}
          /\ \A y \in {counts[o] + 1, MaxCount} :
                Min({counts[o] + 1, MaxCount}) <= y
      BY <2>1 DEF Min
    <2> QED
      BY <1>2, <2>2
  <1> QED
    BY <1>2, <1>3

\* Nothing counted is a count.
LEMMA ZeroType == Zero \in Counts
  BY AuditAssumption DEF Zero, Counts

-----------------------------------------------------------------------------
(***************************************************************************)
(* The audit.                                                              *)
(***************************************************************************)

\* The roll-over leaves a section of today.
LEMMA RolledOverOrderly ==
    ASSUME now \in Slot, Orderly(audit)
    PROVE  Orderly(RolledOver) /\ RolledOver.day = Today
PROOF
  <1> USE DEF Orderly
  <1>1. Today \in Date /\ Today \in Nat /\ Date \subseteq Nat /\ NoDate = -1
    BY TodayInDate DEF Date, NoDate
  <1>2. CASE audit.day = Today
    BY <1>2 DEF RolledOver
  <1>3. CASE audit.day # Today
    <2> DEFINE yesterday == IF audit.day = Today - 1 THEN audit.today ELSE Zero
    <2>1. RolledOver = [audit EXCEPT !.day = Today, !.today = Zero,
                                     !.yesterday = yesterday]
      BY <1>3 DEF RolledOver
    <2>2. /\ audit \in Audit /\ yesterday \in Counts
      BY ZeroType DEF Audit
    <2>3. /\ RolledOver \in Audit
          /\ RolledOver.day = Today /\ RolledOver.today = Zero
          /\ RolledOver.yesterday = yesterday /\ RolledOver.log = audit.log
      BY <2>1, <2>2, <1>1, ZeroType DEF Audit
    <2>4. audit.day \in Int /\ audit.day < Today
      <3>1. audit.day \in Date \cup {NoDate} /\ audit.day <= Today
        BY DEF Audit
      <3>2. Date \cup {NoDate} \subseteq Int
        BY DEF Date, NoDate
      <3>3. audit.day \in Int
        BY <3>1, <3>2
      <3> HIDE DEF Orderly
      <3> QED
        BY <3>1, <3>3, <1>1, <1>3
    <2>5. \A d \in Date : d > Today => audit.log[d] = Zero
      BY <2>4, <1>1
    <2>6. audit.log[Today] = Zero
      BY <2>4, <1>1
    <2>7. Today # 0 => yesterday = audit.log[Today - 1]
      <3>1. SUFFICES ASSUME Today # 0
                     PROVE  yesterday = audit.log[Today - 1]
        OBVIOUS
      <3>2. Today - 1 \in Date
        BY <1>1, <3>1, TodayInDate, AuditAssumption DEF Date
      <3>3. CASE audit.day = Today - 1
        BY <3>3, <3>2, <1>1
      <3>4. CASE audit.day # Today - 1
        <4>1. Today - 1 > audit.day
          BY <3>4, <2>4, <1>1
        <4> QED
          BY <4>1, <3>2, <3>4
      <3> QED
        BY <3>3, <3>4
    <2> QED
      BY <2>3, <2>5, <2>6, <2>7, <1>1
  <1> QED
    BY <1>2, <1>3

\* A tick counts today's revisions in the counter and in the log alike.
LEMMA TrackedOrderly ==
    ASSUME now \in Slot, Orderly(audit), TrackHeadlineRevisions
    PROVE  Orderly(audit')
PROOF
  <1> DEFINE a       == RolledOver
             offsets == Revised(Published)
  <1>1. /\ Orderly(a) /\ a.day = Today
        /\ Today \in Date /\ Today \in Nat /\ Date \subseteq Nat /\ NoDate = -1
    BY RolledOverOrderly, TodayInDate DEF Date, NoDate
  <1>2. audit' = [a EXCEPT !.today = Counted(a.today, offsets),
                           !.log[Today] = Counted(a.log[Today], offsets)]
    BY DEF TrackHeadlineRevisions
  <1> HIDE DEF a, offsets
  <1>3. a \in Audit /\ a.today = a.log[Today] /\ a.today \in Counts
    BY <1>1 DEF Orderly, Audit
  <1> DEFINE counted == Counted(a.today, offsets)
  <1>4. counted \in Counts
    BY <1>3, CountedType
  <1> HIDE DEF counted
  <1>5. audit' = [a EXCEPT !.today = counted, !.log[Today] = counted]
    BY <1>2, <1>3 DEF counted
  <1>6. /\ audit' \in Audit
        /\ audit'.day = Today /\ audit'.today = counted
        /\ audit'.yesterday = a.yesterday
        /\ audit'.log = [a.log EXCEPT ![Today] = counted]
    BY <1>1, <1>3, <1>4, <1>5 DEF Audit
  <1>7. /\ audit'.log[Today] = counted
        /\ \A d \in Date \ {Today} : audit'.log[d] = a.log[d]
    BY <1>1, <1>3, <1>6 DEF Audit
  <1>8. \A d \in Date : d > Today => audit'.log[d] = Zero
    BY <1>1, <1>7 DEF Orderly
  <1>9. Today # 0 => audit'.yesterday = audit'.log[Today - 1]
    <2>1. SUFFICES ASSUME Today # 0
                   PROVE  audit'.yesterday = audit'.log[Today - 1]
      OBVIOUS
    <2>2. Today - 1 \in Date \ {Today}
      BY <1>1, <2>1, TodayInDate, AuditAssumption DEF Date
    <2> QED
      BY <1>1, <1>6, <1>7, <2>1, <2>2 DEF Orderly
  <1> QED
    BY <1>1, <1>6, <1>7, <1>8, <1>9 DEF Orderly

-----------------------------------------------------------------------------
(***************************************************************************)
(* The invariant.                                                          *)
(***************************************************************************)

\* An empty section is orderly.
LEMMA InitAuditInv == Init => AuditInv
PROOF
  <1> SUFFICES ASSUME Init PROVE AuditInv
    OBVIOUS
  <1>1. now = 0 /\ now \in Slot
    BY ScalarAssumption DEF Init, ScalarInit, Slot
  <1>2. Today \in Nat /\ Date \subseteq Nat
    BY <1>1, TodayInDate DEF Date
  <1>3. audit \in Audit /\ audit.day = NoDate /\ audit.today = Zero
        /\ audit.yesterday = Zero /\ \A d \in Date : audit.log[d] = Zero
    BY ZeroType DEF Init, Audit
  <1>4. Orderly(audit)
    BY <1>2, <1>3 DEF Orderly, NoDate
  <1> QED
    BY <1>1, <1>4 DEF AuditInv, Init

\* Every step keeps both sections orderly.
LEMMA NextAuditInv == AuditInv /\ [Next]_vars => AuditInv'
PROOF
  <1> SUFFICES ASSUME AuditInv, [Next]_vars PROVE AuditInv'
    OBVIOUS
  <1>1. now \in Slot /\ Orderly(audit) /\ Orderly(disk) /\ Today \in Nat
    BY TodayInDate DEF AuditInv
  <1>2. ASSUME now' = now, audit' \in {audit, disk} \/ TrackHeadlineRevisions,
               disk' \in {audit, disk}
        PROVE  AuditInv'
    <2>1. Today' = Today
      BY <1>2 DEF Today
    <2>2. Orderly(audit')
      BY <1>1, <1>2, TrackedOrderly
    <2>3. Orderly(disk')
      BY <1>1, <1>2
    <2> QED
      BY <1>1, <1>2, <2>1, <2>2, <2>3 DEF AuditInv, Orderly
  <1>3. CASE Tick
    BY <1>2, <1>3 DEF Tick, TickScalar
  <1>4. CASE TickFails
    BY <1>2, <1>4 DEF TickFails, TickScalar
  <1>5. CASE Relearn
    BY <1>2, <1>5 DEF Relearn, scalarVars
  <1>6. CASE Clock
    <2>1. /\ now' \in Slot /\ Today' \in Nat /\ Today <= Today'
          /\ audit' = audit /\ disk' = disk
      BY <1>1, <1>6, TodayAdvances DEF Clock
    <2>2. \A a : Orderly(a) => a.day <= Today'
      <3> SUFFICES ASSUME NEW a, Orderly(a) PROVE a.day <= Today'
        OBVIOUS
      <3>1. a.day \in Int /\ a.day <= Today
        BY DEF Orderly, Audit, Date, NoDate
      <3> QED
        BY <1>1, <2>1, <3>1
    <2> QED
      BY <1>1, <2>1, <2>2 DEF AuditInv, Orderly
  <1>7. CASE Save
    BY <1>2, <1>7 DEF Save, scalarVars
  <1>8. CASE Restart
    BY <1>2, <1>8 DEF Restart, Forget
  <1>9. CASE Crash
    BY <1>2, <1>9 DEF Crash, Forget
  <1>10. CASE UNCHANGED vars
    BY <1>2, <1>10 DEF vars, scalarVars
  <1> QED
    BY <1>3, <1>4, <1>5, <1>6, <1>7, <1>8, <1>9, <1>10 DEF Next

\* Counters and log, in memory and in the file, are orderly in every state
\* (_track_headline_revisions, _curve_audit_state).
THEOREM AuditInvariant == Spec => []AuditInv
  BY InitAuditInv, NextAuditInv, PTL DEF Spec

\* The counters of today and yesterday are those of these two days, across
\* gaps of days, restarts and crashes (SPEC 14.4).
THEOREM CountedOnTheirDayHolds == Spec => []CountedOnTheirDay
PROOF
  <1>1. AuditInv => CountedOnTheirDay
    BY DEF AuditInv, Orderly, CountedOnTheirDay
  <1> QED
    BY <1>1, AuditInvariant, PTL

-----------------------------------------------------------------------------
(***************************************************************************)
(* The fast learner's types.                                               *)
(***************************************************************************)

\* Of two numbers the smaller, and the larger.
LEMMA OfTwo ==
    ASSUME NEW x \in Int, NEW y \in Int
    PROVE  /\ Min({x, y}) = IF x <= y THEN x ELSE y
           /\ Max({x, y}) = IF x >= y THEN x ELSE y
PROOF
  <1>1. Min({x, y}) = IF x <= y THEN x ELSE y
    <2>1. \E m \in {x, y} : \A z \in {x, y} : m <= z
      OBVIOUS
    <2>2. /\ Min({x, y}) \in {x, y}
          /\ \A z \in {x, y} : Min({x, y}) <= z
      BY <2>1 DEF Min
    <2> QED
      BY <2>2
  <1>2. Max({x, y}) = IF x >= y THEN x ELSE y
    <2>1. \E m \in {x, y} : \A z \in {x, y} : m >= z
      OBVIOUS
    <2>2. /\ Max({x, y}) \in {x, y}
          /\ \A z \in {x, y} : Max({x, y}) >= z
      BY <2>1 DEF Max
    <2> QED
      BY <2>2
  <1> QED
    BY <1>1, <1>2

\* Of finitely many numbers, too.
LEMMA OfMany ==
    ASSUME NEW T, IsFiniteSet(T), T # {}, T \subseteq Int
    PROVE  Min(T) \in T /\ Max(T) \in T /\ \A x \in T : Min(T) <= x /\ x <= Max(T)
PROOF
  <1>1. \E m \in T : \A x \in T : m <= x
    BY LeastNumber
  <1> DEFINE w == [x \in T |-> x]
  <1>2. \A x \in T : w[x] \in Int /\ w[x] = x
    OBVIOUS
  <1> HIDE DEF w
  <1>3. \E m \in T : \A x \in T : w[m] >= w[x]
    BY <1>2, Heaviest
  <1>4. \E m \in T : \A x \in T : m >= x
    BY <1>2, <1>3
  <1>5. Min(T) \in T /\ \A x \in T : Min(T) <= x
    BY <1>1 DEF Min
  <1>6. Max(T) \in T /\ \A x \in T : Max(T) >= x
    BY <1>4 DEF Max
  <1> QED
    BY <1>5, <1>6

\* What is left of a ring is one.
LEMMA TrimType ==
    ASSUME NEW samples \in Seq(Sample), now \in Slot
    PROVE  Trim(samples) \in Seq(Sample)
PROOF
  <1> DEFINE inside == {i \in DOMAIN samples : samples[i].at + Window >= now}
  <1>1. CASE inside = {}
    BY <1>1 DEF Trim
  <1>2. CASE inside # {}
    <2>1. inside \in SUBSET (1..Len(samples)) /\ Len(samples) \in Nat
      OBVIOUS
    <2> HIDE DEF inside
    <2>2. IsFiniteSet(inside) /\ inside \subseteq Int
      <3>1. IsFiniteSet(1..Len(samples))
        BY <2>1, FS_Interval
      <3>2. IsFiniteSet(inside)
        BY <2>1, <3>1, FS_Subset
      <3> QED
        BY <2>1, <3>2
    <2>3. Min(inside) \in 1..Len(samples)
      BY <1>2, <2>1, <2>2, OfMany
    <2>4. SubSeq(samples, Min(inside), Len(samples)) \in Seq(Sample)
      BY <2>1, <2>3, SubSeqProperties
    <2> QED
      BY <1>2, <2>4 DEF Trim, inside
  <1> QED
    BY <1>1, <1>2

\* What the recorder has are samples.
LEMMA ReconstructedType ==
    ASSUME NEW samples \in Reconstructed
    PROVE  samples \in Seq(Sample)
PROOF
  <1> DEFINE Sorted(slots) == CHOOSE s \in [1..Cardinality(slots) -> slots] :
                                 \A i, j \in DOMAIN s : i < j => s[i] < s[j]
  <1>0. PICK slots \in SUBSET Past : \E row \in [slots -> Ratios \cup {Dim}] :
            samples = [i \in 1..Cardinality(slots) |->
                          [at |-> Sorted(slots)[i], ratio |-> row[Sorted(slots)[i]],
                           live |-> FALSE]]
    BY DEF Reconstructed
  <1>1. PICK row \in [slots -> Ratios \cup {Dim}] :
            samples = [i \in 1..Cardinality(slots) |->
                          [at |-> Sorted(slots)[i], ratio |-> row[Sorted(slots)[i]],
                           live |-> FALSE]]
    BY <1>0
  <1>2. slots \in SUBSET (0..MaxSlot) /\ MaxSlot \in Nat
    BY ScalarAssumption DEF Past, Slot
  <1>3. IsFiniteSet(slots) /\ slots \subseteq Int
    <2>1. IsFiniteSet(0..MaxSlot)
      BY <1>2, FS_Interval
    <2>2. IsFiniteSet(slots)
      BY <1>2, <2>1, FS_Subset
    <2> QED
      BY <1>2, <2>2
  <1> DEFINE s == Sorted(slots)  n == Cardinality(slots)
  <1>4. s \in [1..n -> slots] /\ n \in Nat
    BY <1>3, Enumerated, FS_CardinalityType
  <1> HIDE DEF s, n
  <1>5. samples = [i \in 1..n |-> [at |-> s[i], ratio |-> row[s[i]], live |-> FALSE]]
    BY <1>1 DEF s, n
  <1>6. ASSUME NEW i \in 1..n
        PROVE  [at |-> s[i], ratio |-> row[s[i]], live |-> FALSE] \in Sample
    <2>1. s[i] \in slots /\ s[i] \in Slot /\ row[s[i]] \in Ratios \cup {Dim}
      BY <1>2, <1>4 DEF Slot
    <2> QED
      BY <2>1 DEF Sample
  <1>7. samples \in [1..n -> Sample]
    BY <1>5, <1>6
  <1> QED
    BY <1>4, <1>7, SeqDef

\* A tick leaves a ring of samples.
LEMMA RingType ==
    ASSUME ring \in Seq(Sample), now \in Slot, TickScalar
    PROVE  ring' \in Seq(Sample)
PROOF
  <1>1. PICK due \in RearmDue : \E samples \in Rearmed(due) : ring' \in Sampled(samples)
    BY DEF TickScalar
  <1>2. PICK samples \in Rearmed(due) : ring' \in Sampled(samples)
    BY <1>1
  <1>3. samples \in Seq(Sample)
    BY <1>2, TrimType, ReconstructedType DEF Rearmed
  <1>4. ring' = samples \/ \E r \in Ratios \cup {Dim} :
            ring' = Trim(Append(samples, [at |-> now, ratio |-> r, live |-> TRUE]))
    BY <1>2 DEF Sampled
  <1>5. ASSUME NEW r \in Ratios \cup {Dim}
        PROVE  Trim(Append(samples, [at |-> now, ratio |-> r, live |-> TRUE])) \in Seq(Sample)
    <2>1. [at |-> now, ratio |-> r, live |-> TRUE] \in Sample
      BY DEF Sample
    <2>2. Append(samples, [at |-> now, ratio |-> r, live |-> TRUE]) \in Seq(Sample)
      BY <1>3, <2>1
    <2> QED
      BY <2>2, TrimType
  <1> QED
    BY <1>3, <1>4, <1>5

\* Whatever the weights, the scalar computed lies within its clamps.
LEMMA ComputedType ==
    ASSUME NEW samples \in Seq(Sample)
    PROVE  Computed(samples) \subseteq Scalar
PROOF
  <1> DEFINE usable == Usable(samples)
             capped == {Min({u.ratio, ScalarMax}) : u \in usable}
  <1>1. /\ ScalarMin \in Nat /\ ScalarMax \in Nat /\ ScalarMin <= ScalarMax
        /\ Neutral \in ScalarMin..ScalarMax
    BY ScalarAssumption
  <1>2. CASE usable = {}
    BY <1>1, <1>2 DEF Computed, Scalar
  <1>3. CASE usable # {}
    <2>1. \A u \in usable : u.ratio \in Nat
      <3>1. ASSUME NEW u \in usable PROVE u.ratio \in Nat
        <4>1. PICK i \in DOMAIN samples : u = samples[i] /\ samples[i].ratio # Dim
          BY DEF Usable
        <4>2. samples[i] \in Sample
          OBVIOUS
        <4> QED
          BY <4>1, <4>2, ScalarAssumption DEF Sample
      <3> QED
        BY <3>1
    <2>2. \A u \in usable : Min({u.ratio, ScalarMax}) \in 0..ScalarMax
      BY <1>1, <2>1, OfTwo
    <2> HIDE DEF usable
    <2>3. capped \in SUBSET (0..ScalarMax) /\ capped # {}
      BY <1>3, <2>2
    <2> HIDE DEF capped
    <2>4. IsFiniteSet(capped) /\ capped \subseteq Int
      <3>1. IsFiniteSet(0..ScalarMax)
        BY <1>1, <2>3, FS_Interval
      <3>2. IsFiniteSet(capped)
        BY <1>1, <2>3, <3>1, FS_Subset
      <3> QED
        BY <1>1, <2>3, <3>2
    <2>5. Min(capped) \in 0..ScalarMax /\ Max(capped) \in 0..ScalarMax
      BY <2>3, <2>4, OfMany
    <2> DEFINE a == Min(capped)  b == Max(capped)
    <2>6. a \in Int /\ b \in Int /\ a <= ScalarMax /\ b <= ScalarMax
      BY <1>1, <2>5
    <2> HIDE DEF a, b
    <2>7. Max({ScalarMin, a}) \in Scalar /\ Max({ScalarMin, b}) \in Scalar
      <3>1. /\ Max({ScalarMin, a}) = IF ScalarMin >= a THEN ScalarMin ELSE a
            /\ Max({ScalarMin, b}) = IF ScalarMin >= b THEN ScalarMin ELSE b
        <4>1. ScalarMin \in Int
          BY <1>1
        <4> QED
          BY <2>6, <4>1, OfTwo
      <3> QED
        BY <1>1, <2>6, <3>1 DEF Scalar
    <2>8. Max({ScalarMin, a})..Max({ScalarMin, b}) \subseteq Scalar
      <3> DEFINE x == Max({ScalarMin, a})  y == Max({ScalarMin, b})
      <3>1. x \in ScalarMin..ScalarMax /\ y \in ScalarMin..ScalarMax
        BY <2>7 DEF Scalar
      <3> HIDE DEF x, y
      <3>2. x..y \subseteq ScalarMin..ScalarMax
        BY <1>1, <3>1
      <3> QED
        BY <3>2 DEF Scalar, x, y
    <2>9. Computed(samples) \in {{Neutral}, Max({ScalarMin, a})..Max({ScalarMin, b})}
      BY <1>3 DEF Computed, usable, capped, a, b
    <2> QED
      BY <1>1, <2>8, <2>9 DEF Scalar
  <1> QED
    BY <1>2, <1>3

\* A step towards a scalar is a scalar.
LEMMA TowardsType ==
    ASSUME scalar \in Scalar, NEW target \in Scalar
    PROVE  Towards(target) \in Scalar
PROOF
  <1>1. /\ ScalarMin \in Nat /\ ScalarMax \in Nat /\ Step \in Nat
        /\ scalar \in ScalarMin..ScalarMax /\ target \in ScalarMin..ScalarMax
    BY ScalarAssumption DEF Scalar
  <1> DEFINE x == Min({Step, target - scalar})
  <1>2. x = (IF Step <= target - scalar THEN Step ELSE target - scalar) /\ x \in Int
    BY <1>1, OfTwo
  <1> HIDE DEF x
  <1> DEFINE y == -Step
  <1>3. y \in Int /\ y = -Step
    BY <1>1
  <1> HIDE DEF y
  <1>5. Max({y, x}) = IF y >= x THEN y ELSE x
    BY <1>2, <1>3, OfTwo
  <1>4. Towards(target) = scalar + Max({y, x})
    BY DEF Towards, x, y
  <1> QED
    BY <1>1, <1>2, <1>3, <1>5, <1>4 DEF Scalar

-----------------------------------------------------------------------------
(***************************************************************************)
(* A headline does not show the scalar it is published with.               *)
(***************************************************************************)

\* What the slow layer and the day-ahead factor leave of a group's power.
Plain(power, th) == [g \in Group |-> Min({power[g], Limit[g]}) * th]

\* A plain power is within what the group can serve.
Fits(power, th) == \A g \in Group : Plain(power, th)[g] <= Limit[g] * ThetaOne

LEMMA OneIsPositive == One \in Nat \ {0} /\ Horizon \in Nat \ {0} /\ Neutral \in Nat \ {0}
PROOF
  <1>1. Horizon \in Nat /\ Horizon > 0 /\ Neutral \in Nat /\ Neutral > 0
    BY ScalarAssumption, AuditAssumption
  <1>2. Neutral * Horizon \in Nat /\ Neutral * Horizon > 0
    BY <1>1
  <1> QED
    BY <1>1, <1>2 DEF One

\* The factor of a slot is positive, and one beyond the horizon.
LEMMA FactorIsPositive ==
    ASSUME NEW s \in Scalar, NEW ahead \in Int
    PROVE  /\ Factor(s, ahead) \in Nat \ {0}
           /\ ahead >= Horizon => Factor(s, ahead) = One
PROOF
  <1>1. /\ One \in Nat \ {0} /\ Horizon \in Nat \ {0} /\ Neutral \in Nat \ {0}
        /\ s \in Nat \ {0}
    BY OneIsPositive, ScalarAssumption, AuditAssumption DEF Scalar
  <1>2. CASE ahead \in 0..(Horizon - 1)
    <2> DEFINE k == Horizon - ahead
    <2>1. k \in Nat \ {0} /\ k <= Horizon
      BY <1>1, <1>2
    <2> HIDE DEF k
    <2>2. Neutral * Horizon + (s - Neutral) * k = Neutral * (Horizon - k) + s * k
      BY <1>1, <2>1
    <2>3. Neutral * (Horizon - k) \in Nat /\ s * k \in Nat /\ s * k > 0
      BY <1>1, <2>1
    <2>4. Factor(s, ahead) = Neutral * Horizon + (s - Neutral) * k
      BY <1>2 DEF Factor, One, k
    <2>5. ~(ahead >= Horizon)
      BY <1>1, <1>2
    <2>6. Neutral * (Horizon - k) + s * k \in Nat \ {0}
      BY <2>3
    <2> QED
      BY <2>2, <2>4, <2>5, <2>6
  <1>3. CASE ahead \notin 0..(Horizon - 1)
    BY <1>1, <1>3 DEF Factor
  <1> QED
    BY <1>2, <1>3

LEMMA PlainType ==
    ASSUME NEW power \in [Group -> Nat], NEW th \in Thetas
    PROVE  Plain(power, th) \in [Group -> Nat]
PROOF
  <1>1. SUFFICES ASSUME NEW g \in Group PROVE Min({power[g], Limit[g]}) * th \in Nat
    BY DEF Plain
  <1>2. power[g] \in Nat /\ Limit[g] \in Nat /\ th \in Nat
    BY AuditAssumption
  <1>3. Min({power[g], Limit[g]}) \in Nat
    BY <1>2, OfTwo
  <1> QED
    BY <1>2, <1>3

\* Where the day-ahead power fits, the clamps and the scalar leave no trace in the
\* scalar-free power of a slot.
LEMMA ScalarLeavesNoTrace ==
    ASSUME NEW power \in [Group -> Nat], NEW th \in Thetas, NEW f \in Nat \ {0},
           Fits(power, th)
    PROVE  ScalarFree(power, th, f) = Site(Plain(power, th))
PROOF
  <1> DEFINE a == Plain(power, th)
             F == Factored(power, th, f)
             V == Served(power, th, f)
             C == [g \in Group |-> Limit[g] * ThetaOne]
             most == ThetaOne * One
  <1>1. IsFiniteSet(Group) /\ ThetaOne \in Nat /\ One \in Nat
    BY AuditAssumption, OneIsPositive
  <1>2. a \in [Group -> Nat] /\ \A g \in Group : a[g] \in Int
    BY PlainType
  <1>3. \A g \in Group : C[g] \in Int /\ a[g] <= C[g]
    BY <1>1, AuditAssumption DEF Fits
  <1>4. \A g \in Group : F[g] = f * a[g] /\ F[g] \in Int
    <2>1. SUFFICES ASSUME NEW g \in Group PROVE F[g] = f * a[g] /\ F[g] \in Int
      OBVIOUS
    <2> DEFINE w == Min({power[g], Limit[g]})
    <2>2. F[g] = w * th * f /\ a[g] = w * th
      BY DEF Factored, Plain
    <2>3. w \in Int /\ th \in Int
      <3>1. power[g] \in Nat /\ Limit[g] \in Nat /\ th \in Nat
        BY AuditAssumption
      <3> QED
        BY <3>1, OfTwo
    <2> HIDE DEF w
    <2>4. w * th * f = f * (w * th)
      BY <2>3
    <2> QED
      BY <1>2, <2>2, <2>4
  <1>5. \A g \in Group : V[g] \in Int /\ V[g] <= F[g]
    <2>1. SUFFICES ASSUME NEW g \in Group PROVE V[g] \in Int /\ V[g] <= F[g]
      OBVIOUS
    <2> DEFINE m == Limit[g] * ThetaOne * One  x == F[g]
    <2>2. V[g] = Min({x, m})
      BY DEF Served
    <2>3. m \in Int /\ x \in Int
      <3>1. Limit[g] \in Nat
        BY AuditAssumption
      <3> QED
        BY <1>1, <1>4, <3>1
    <2> HIDE DEF m, x
    <2>4. V[g] \in Int /\ V[g] <= x
      BY <2>2, <2>3, OfTwo
    <2> QED
      BY <2>4 DEF x
  <1>6. DOMAIN F = Group /\ DOMAIN V = Group /\ DOMAIN a = Group /\ DOMAIN C = Group
    BY DEF Factored, Served, Plain
  <1>7. /\ Site(F) = SumFunctionOnSet(F, Group) /\ Site(V) = SumFunctionOnSet(V, Group)
        /\ Site(a) = SumFunctionOnSet(a, Group) /\ Site(C) = SumFunctionOnSet(C, Group)
    BY <1>6 DEF Site, SumFunction
  <1>8. Ceiling = Site(C)
    BY DEF Ceiling
  <1>9. ScalarFree(power, th, f) = IF Site(F) > Site(V) THEN Min({Site(F) \div f, Ceiling})
                                   ELSE Site(V) \div f
    BY DEF ScalarFree
  <1> HIDE DEF a, F, V, C
  <1> DEFINE x == Site(a)
  <1>10. x \in Int /\ Site(V) \in Int /\ Site(F) \in Int /\ Site(C) \in Int
    BY <1>1, <1>2, <1>3, <1>4, <1>5, <1>7, SumIsInt
  <1>11. Site(F) = f * x
    BY <1>1, <1>2, <1>4, <1>7, SumScale
  <1>12. Site(V) <= Site(F)
    BY <1>1, <1>4, <1>5, <1>7, SumMono
  <1>13. x <= Site(C)
    BY <1>1, <1>2, <1>3, <1>7, SumMono
  <1> HIDE DEF x
  <1>14. (f * x) \div f = x
    BY <1>10
  <1>15. CASE Site(F) > Site(V)
    <2>1. ScalarFree(power, th, f) = Min({x, Ceiling})
      BY <1>9, <1>11, <1>14, <1>15
    <2> QED
      BY <1>8, <1>10, <1>13, <2>1, OfTwo DEF x, a
  <1>16. CASE ~(Site(F) > Site(V))
    <2>1. Site(V) = f * x
      BY <1>10, <1>11, <1>12, <1>16
    <2> QED
      BY <1>9, <1>14, <1>16, <2>1 DEF x, a
  <1> QED
    BY <1>15, <1>16

\* The two headlines without their scalar.
PlainToday(c, th) == SumFunction([t \in Daylight |-> Site(Plain(c[t], th))])
PlainAhead(c, th) == SumFunction([t \in Daylight |-> Site(Served(c[t], th, One))]) \div One

LEMMA DayHasSlots ==
    /\ IsFiniteSet(Daylight) /\ Daylight \subseteq SlotOfDay /\ SlotOfDay \subseteq Nat
    /\ SlotsPerDay \in Nat \ {0}
PROOF
  <1>1. Daylight \in SUBSET (0..(SlotsPerDay - 1)) /\ SlotsPerDay \in Nat \ {0}
    BY ScalarAssumption
  <1>2. IsFiniteSet(0..(SlotsPerDay - 1))
    BY <1>1, FS_Interval
  <1>3. IsFiniteSet(Daylight)
    BY <1>1, <1>2, FS_Subset
  <1> QED
    BY <1>1, <1>3 DEF SlotOfDay

LEMMA TodayIsPlain ==
    ASSUME NEW c \in Curves, NEW th \in Thetas, NEW s \in Scalar, NEW clock \in SlotOfDay,
           \A t \in Daylight : Fits(c[t], th)
    PROVE  HeadlineOfToday[c][th][s][clock] = PlainToday(c, th) /\ PlainToday(c, th) \in Int
PROOF
  <1> DEFINE P == [t \in Daylight |-> Site(Plain(c[t], th))]
  <1>1. \A t \in Daylight : c[t] \in [Group -> Nat]
    BY AuditAssumption
  <1>2. ASSUME NEW t \in Daylight
        PROVE  ScalarFree(c[t], th, Factor(s, t - clock)) = P[t]
    <2>1. t - clock \in Int
      BY DayHasSlots
    <2>2. Factor(s, t - clock) \in Nat \ {0}
      BY <2>1, FactorIsPositive
    <2> QED
      BY <1>1, <2>2, ScalarLeavesNoTrace
  <1>3. ASSUME NEW t \in Daylight PROVE P[t] \in Int
    <2> DEFINE a == Plain(c[t], th)
    <2>1. a \in [Group -> Nat] /\ IsFiniteSet(Group)
      BY <1>1, PlainType, AuditAssumption
    <2> HIDE DEF a
    <2>2. DOMAIN a = Group /\ \A g \in Group : a[g] \in Int
      BY <2>1
    <2>3. Site(a) \in Int
      BY <2>1, <2>2, SumIsInt DEF Site, SumFunction
    <2> QED
      BY <2>3 DEF a
  <1>4. [t \in Daylight |-> ScalarFree(c[t], th, Factor(s, t - clock))] = P
    BY <1>2
  <1>5. HeadlineOfToday[c][th][s][clock]
          = SumFunction([t \in Daylight |-> ScalarFree(c[t], th, Factor(s, t - clock))])
    BY DEF HeadlineOfToday
  <1>6. DOMAIN P = Daylight
    OBVIOUS
  <1> HIDE DEF P
  <1>7. SumFunction(P) \in Int
    BY <1>3, <1>6, DayHasSlots, SumIsInt DEF SumFunction
  <1> QED
    BY <1>4, <1>5, <1>7 DEF P, PlainToday

LEMMA AheadIsPlain ==
    ASSUME NEW c \in Curves, NEW th \in Thetas, NEW s \in Scalar,
           NEW ahead \in 1..(Ahead * SlotsPerDay)
    PROVE  HeadlineAhead[c][th][s][ahead] = PlainAhead(c, th) /\ PlainAhead(c, th) \in Int
PROOF
  <1> DEFINE P == [t \in Daylight |-> Site(Served(c[t], th, One))]
             m == Ahead * SlotsPerDay
  <1>0. m \in Int /\ ahead \in 1..m
    BY DayHasSlots, AuditAssumption
  <1> HIDE DEF m
  <1>1. \A t \in Daylight : c[t] \in [Group -> Nat]
    BY AuditAssumption
  <1>2. ASSUME NEW t \in Daylight PROVE Factor(s, t + ahead) = One
    <2>1. t \in Int /\ Horizon \in Int /\ t + 1 >= Horizon
      BY DayHasSlots, NightAssumption, OneIsPositive
    <2>2. t + ahead \in Int /\ t + ahead >= Horizon
      BY <1>0, <2>1
    <2> QED
      BY <2>2, FactorIsPositive
  <1>3. ASSUME NEW t \in Daylight PROVE P[t] \in Int
    <2> DEFINE V == Served(c[t], th, One)
    <2>1. ASSUME NEW g \in Group PROVE V[g] \in Int
      <3> DEFINE w == Min({c[t][g], Limit[g]})  x == w * th * One
                 m2 == Limit[g] * ThetaOne * One
      <3>1. c[t][g] \in Nat /\ Limit[g] \in Nat /\ th \in Nat /\ One \in Nat /\ ThetaOne \in Nat
        BY <1>1, AuditAssumption, OneIsPositive
      <3>2. w \in Int
        <4>1. c[t][g] \in Int /\ Limit[g] \in Int
          BY <3>1
        <4> QED
          BY <4>1, OfTwo
      <3>3. V[g] = Min({x, m2})
        BY DEF Served, Factored
      <3> HIDE DEF w
      <3>4. x \in Int /\ m2 \in Int
        BY <3>1, <3>2
      <3> HIDE DEF x, m2
      <3> QED
        BY <3>3, <3>4, OfTwo
    <2>2. DOMAIN V = Group /\ IsFiniteSet(Group)
      BY AuditAssumption DEF Served
    <2> HIDE DEF V
    <2>3. Site(V) \in Int
      BY <2>1, <2>2, SumIsInt DEF Site, SumFunction
    <2> QED
      BY <2>3 DEF V
  <1>4. [t \in Daylight |-> Site(Served(c[t], th, Factor(s, t + ahead)))] = P
    BY <1>2
  <1>5. HeadlineAhead[c][th][s][ahead]
          = SumFunction([t \in Daylight |-> Site(Served(c[t], th, Factor(s, t + ahead)))]) \div One
    BY DEF HeadlineAhead
  <1>6. DOMAIN P = Daylight
    OBVIOUS
  <1> HIDE DEF P
  <1>7. SumFunction(P) \in Int
    BY <1>3, <1>6, DayHasSlots, SumIsInt DEF SumFunction
  <1> DEFINE sum == SumFunction(P)
  <1> HIDE DEF sum
  <1>8. sum \div One \in Int
    BY <1>7, OneIsPositive DEF sum
  <1> QED
    BY <1>4, <1>5, <1>8 DEF P, PlainAhead, sum

-----------------------------------------------------------------------------
(***************************************************************************)
(* Between news the baseline stays what a tick would publish.              *)
(***************************************************************************)

\* What the baseline has for today and so many days ahead is of the present image
\* and factor.
OfPresent(o) ==
    LET old == baseline[<<Today + o, o>>]
    IN IF o = 0
       THEN \E s \in Scalar, clock \in SlotOfDay :
               old = HeadlineOfToday[image[Today]][theta][s][clock]
       ELSE old = PlainAhead(image[Today + o], theta)

BaselineInv ==
    /\ now \in Slot
    /\ ring \in Seq(Sample)
    /\ scalar \in Scalar
    /\ theta \in Thetas
    /\ image \in [Date -> Curves]
    /\ changed \in BOOLEAN
    /\ \E day \in Nat : day <= Today /\ DOMAIN baseline \subseteq {<<day + o, o>> : o \in Offset}
    /\ ~changed => \A o \in Offset : <<Today + o, o>> \in DOMAIN baseline => OfPresent(o)

LEMMA InitBaselineInv == Init => BaselineInv
PROOF
  <1> SUFFICES ASSUME Init PROVE BaselineInv
    OBVIOUS
  <1>1. /\ now \in Slot /\ Neutral \in Scalar /\ scalar = Neutral
        /\ ring = <<>> /\ ring \in Seq(Sample)
    BY ScalarAssumption DEF Init, ScalarInit, Slot, Scalar
  <1>2. Today \in Nat /\ 0 \in Nat /\ 0 <= Today
    BY <1>1, TodayInDate
  <1>3. /\ theta \in Thetas /\ image \in [Date -> Curves] /\ changed = FALSE
        /\ DOMAIN baseline = {}
    BY AuditAssumption DEF Init
  <1>4. \E day \in Nat : day <= Today /\ DOMAIN baseline \subseteq {<<day + o, o>> : o \in Offset}
    BY <1>2, <1>3
  <1> QED
    BY <1>1, <1>3, <1>4 DEF BaselineInv

\* What a tick publishes is of the image and the factor it finds.
LEMMA PublishedIsPresent ==
    ASSUME now \in Slot, now' = now, scalar' \in Scalar, theta \in Thetas,
           image' \in [Date -> Curves], NEW o \in Offset
    PROVE  /\ Published[<<Today + o, o>>] = Headline(o)
           /\ o = 0 => /\ image'[Today] \in Curves
                       /\ now % SlotsPerDay \in SlotOfDay
                       /\ Headline(o) = HeadlineOfToday[image'[Today]][theta][scalar']
                                                       [now % SlotsPerDay]
           /\ o # 0 => /\ Headline(o) = PlainAhead(image'[Today + o], theta)
                       /\ Headline(o) \in Int
PROOF
  <1>1. /\ Today \in Nat /\ Today \in Date /\ DateOf(MaxSlot) \in Nat
        /\ now \in Nat /\ SlotsPerDay \in Nat \ {0} /\ Ahead \in Nat
    BY TodayInDate, DayHasSlots, AuditAssumption, ScalarAssumption DEF Slot
  <1> DEFINE clock == now % SlotsPerDay
  <1>2. clock \in SlotOfDay /\ clock \in Nat /\ clock < SlotsPerDay
    BY <1>1 DEF SlotOfDay
  <1> HIDE DEF clock
  <1>3. Published[<<Today + o, o>>] = Headline(o)
    <2>1. <<Today + o, o>> \in {<<Today + p, p>> : p \in Offset}
      OBVIOUS
    <2> DEFINE k == <<Today + o, o>>
    <2>2. k[2] = o /\ k \in {<<Today + p, p>> : p \in Offset}
      BY <2>1
    <2> HIDE DEF k
    <2>3. Published[k] = Headline(k[2])
      BY <2>2 DEF Published
    <2> QED
      BY <2>2, <2>3 DEF k
  <1>4. CASE o = 0
    <2>1. Headline(o) = HeadlineOfToday[image'[Today]][theta][scalar'][clock]
      BY <1>4 DEF Headline, clock
    <2> QED
      BY <1>1, <1>2, <1>3, <1>4, <2>1 DEF clock
  <1>5. CASE o # 0
    <2> DEFINE ahead == o * SlotsPerDay - clock  m == Ahead * SlotsPerDay
    <2>1. o \in 1..Ahead
      BY <1>1, <1>5 DEF Offset
    <2>2. ahead \in 1..m
      <3>1. o * SlotsPerDay >= SlotsPerDay /\ o * SlotsPerDay <= m /\ m \in Nat
            /\ o * SlotsPerDay \in Nat
        BY <1>1, <2>1
      <3> QED
        BY <1>1, <1>2, <3>1
    <2>3. Headline(o) = HeadlineAhead[image'[Today + o]][theta][scalar'][ahead]
      BY <1>5 DEF Headline, clock, ahead
    <2>4. Today + o \in Date
      <3>1. Today <= DateOf(MaxSlot)
        <4>1. now <= MaxSlot /\ MaxSlot \in Nat
          BY ScalarAssumption DEF Slot
        <4>2. now \div SlotsPerDay <= MaxSlot \div SlotsPerDay
          BY <1>1, <4>1
        <4> QED
          BY <4>2 DEF Today, DateOf
      <3> QED
        BY <1>1, <2>1, <3>1 DEF Date
    <2>5. image'[Today + o] \in Curves
      BY <2>4
    <2> DEFINE c == image'[Today + o]
    <2> HIDE DEF ahead, c, m
    <2>6. HeadlineAhead[c][theta][scalar'][ahead] = PlainAhead(c, theta)
          /\ PlainAhead(c, theta) \in Int
      BY <2>2, <2>5, AheadIsPlain DEF c, m
    <2> QED
      BY <1>3, <1>5, <2>3, <2>6 DEF c
  <1> QED
    BY <1>4, <1>5

\* Ring and scalar keep their types through a tick.
LEMMA TickTypes ==
    ASSUME BaselineInv, TickScalar
    PROVE  ring' \in Seq(Sample) /\ scalar' \in Scalar /\ now' = now /\ Today' = Today
PROOF
  <1>1. now \in Slot /\ ring \in Seq(Sample) /\ scalar \in Scalar
    BY DEF BaselineInv
  <1>2. ring' \in Seq(Sample)
    BY <1>1, RingType
  <1>3. scalar' \in Scalar
    <2>1. CASE fast
      <3>1. PICK target \in Computed(ring') : scalar' = Towards(target)
        BY <2>1 DEF TickScalar
      <3>2. target \in Scalar
        BY <1>2, <3>1, ComputedType
      <3> QED
        BY <1>1, <3>1, <3>2, TowardsType
    <2>2. CASE ~fast
      BY <2>2, ScalarAssumption DEF TickScalar, Scalar
    <2> QED
      BY <2>1, <2>2
  <1>4. now' = now
    BY DEF TickScalar
  <1> QED
    BY <1>2, <1>3, <1>4 DEF Today

\* The fetch leaves an image of known curves.
LEMMA FetchTypes ==
    ASSUME image \in [Date -> Curves], Fetch
    PROVE  image' \in [Date -> Curves]
PROOF
  <1>1. CASE image' = image
    BY <1>1
  <1>2. CASE \E o \in Offset, c \in Curves : image' = [image EXCEPT ![Today + o] = c]
    BY <1>2
  <1> QED
    BY <1>1, <1>2 DEF Fetch

\* Only the tick publishes; a new day leaves no headline to compare with.
LEMMA NextBaselineInv == BaselineInv /\ [Next]_vars => BaselineInv'
PROOF
  <1> SUFFICES ASSUME BaselineInv, [Next]_vars PROVE BaselineInv'
    OBVIOUS
  <1>1. /\ now \in Slot /\ ring \in Seq(Sample) /\ scalar \in Scalar /\ theta \in Thetas
        /\ image \in [Date -> Curves] /\ changed \in BOOLEAN
    BY DEF BaselineInv
  <1>2. PICK day \in Nat : day <= Today /\ DOMAIN baseline \subseteq {<<day + o, o>> : o \in Offset}
    BY DEF BaselineInv
  <1>3. Today \in Nat /\ Offset \subseteq Nat
    BY <1>1, TodayInDate DEF Offset
  <1>4. Neutral \in Scalar /\ <<>> \in Seq(Sample)
    BY ScalarAssumption DEF Scalar
  \* A step that leaves the baseline alone, and with it whatever it is of.
  <1>5. ASSUME now' = now, baseline' = baseline, ring' \in Seq(Sample), scalar' \in Scalar,
               theta' \in Thetas, image' \in [Date -> Curves], changed' \in BOOLEAN,
               ~changed' => ~changed /\ image' = image /\ theta' = theta
        PROVE  BaselineInv'
    <2>1. Today' = Today
      BY <1>5 DEF Today
    <2>2. \E d \in Nat : d <= Today' /\ DOMAIN baseline' \subseteq {<<d + o, o>> : o \in Offset}
      BY <1>2, <1>5, <2>1
    <2>3. ~changed' => \A o \in Offset : <<Today' + o, o>> \in DOMAIN baseline' => OfPresent(o)'
      BY <1>5, <2>1 DEF BaselineInv, OfPresent
    <2> QED
      BY <1>1, <1>5, <2>2, <2>3 DEF BaselineInv
  \* A step that forgets it.
  <1>6. ASSUME now' = now, baseline' = <<>>, ring' \in Seq(Sample), scalar' \in Scalar,
               UNCHANGED <<theta, image, changed>>
        PROVE  BaselineInv'
    <2>1. Today' = Today /\ DOMAIN baseline' = {}
      BY <1>6 DEF Today
    <2> QED
      BY <1>1, <1>2, <1>6, <2>1 DEF BaselineInv
  <1>7. CASE Tick
    <2>1. /\ ring' \in Seq(Sample) /\ scalar' \in Scalar /\ now' = now /\ Today' = Today
          /\ image' \in [Date -> Curves] /\ theta' = theta /\ changed' = FALSE
      BY <1>1, <1>7, TickTypes, FetchTypes DEF Tick
    <2>2. baseline' = Published
      BY <1>7 DEF Tick, TrackHeadlineRevisions
    <2>3. DOMAIN baseline' = {<<Today + o, o>> : o \in Offset}
      BY <2>2 DEF Published
    <2>4. ASSUME NEW o \in Offset PROVE OfPresent(o)'
      <3>1. CASE o = 0
        <4>1. /\ baseline'[<<Today + o, o>>]
                   = HeadlineOfToday[image'[Today]][theta][scalar'][now % SlotsPerDay]
              /\ now % SlotsPerDay \in SlotOfDay
          BY <1>1, <2>1, <2>2, <3>1, PublishedIsPresent
        <4> QED
          BY <2>1, <3>1, <4>1 DEF OfPresent
      <3>2. CASE o # 0
        <4>1. baseline'[<<Today + o, o>>] = PlainAhead(image'[Today + o], theta)
          BY <1>1, <2>1, <2>2, <3>2, PublishedIsPresent
        <4> QED
          BY <2>1, <3>2, <4>1 DEF OfPresent
      <3> QED
        BY <3>1, <3>2
    <2>5. \E d \in Nat : d <= Today' /\ DOMAIN baseline' \subseteq {<<d + o, o>> : o \in Offset}
      <3>1. Today' \in Nat /\ Today' <= Today'
        BY <1>3, <2>1
      <3>2. DOMAIN baseline' \subseteq {<<Today' + o, o>> : o \in Offset}
        BY <2>1, <2>3
      <3> QED
        BY <3>1, <3>2
    <2>6. now' \in Slot /\ theta' \in Thetas /\ changed' \in BOOLEAN
      BY <1>1, <2>1
    <2> QED
      BY <2>1, <2>4, <2>5, <2>6 DEF BaselineInv
  <1>8. CASE TickFails
    <2>1. /\ ring' \in Seq(Sample) /\ scalar' \in Scalar /\ now' = now
          /\ image' \in [Date -> Curves]
      BY <1>1, <1>8, TickTypes, FetchTypes DEF TickFails
    <2>2. /\ changed' = (changed \/ image' # image) /\ theta' = theta /\ baseline' = baseline
      BY <1>8 DEF TickFails
    <2> QED
      BY <1>1, <1>5, <2>1, <2>2
  <1>9. CASE Relearn
    BY <1>1, <1>5, <1>9 DEF Relearn, scalarVars
  <1>10. CASE Clock
    <2>1. /\ now' \in Slot /\ Today' \in Nat /\ Today <= Today'
          /\ ring' = ring /\ scalar' = scalar
          /\ UNCHANGED <<image, theta, baseline, changed>>
      BY <1>1, <1>10, TodayAdvances DEF Clock, Advance
    <2>2. \E d \in Nat : d <= Today' /\ DOMAIN baseline' \subseteq {<<d + o, o>> : o \in Offset}
      <3>1. day <= Today'
        BY <1>2, <1>3, <2>1
      <3> QED
        BY <1>2, <2>1, <3>1
    <2>3. CASE Today' = Today
      BY <1>1, <2>1, <2>2, <2>3 DEF BaselineInv, OfPresent
    <2>4. CASE Today' # Today
      <3>1. ASSUME NEW o \in Offset PROVE <<Today' + o, o>> \notin DOMAIN baseline'
        <4>1. SUFFICES ASSUME <<Today' + o, o>> \in DOMAIN baseline PROVE FALSE
          BY <2>1
        <4>2. PICK p \in Offset : <<Today' + o, o>> = <<day + p, p>>
          BY <1>2, <4>1
        <4>3. Today' + o = day + o
          BY <4>2
        <4>4. o \in Nat
          BY <1>3
        <4> DEFINE today == Today'
        <4>5. today \in Nat /\ today # Today /\ Today <= today /\ today + o = day + o
          BY <2>1, <2>4, <4>3
        <4> HIDE DEF today
        <4> QED
          BY <1>2, <1>3, <4>4, <4>5
      <3> QED
        BY <1>1, <2>1, <2>2, <3>1 DEF BaselineInv
    <2> QED
      BY <2>3, <2>4
  <1>11. CASE Save
    BY <1>1, <1>5, <1>11 DEF Save, scalarVars
  <1>12. CASE Restart
    BY <1>4, <1>6, <1>12 DEF Restart, Forget
  <1>13. CASE Crash
    BY <1>4, <1>6, <1>13 DEF Crash, Forget
  <1>14. CASE UNCHANGED vars
    BY <1>1, <1>5, <1>14 DEF vars, scalarVars
  <1> QED
    BY <1>7, <1>8, <1>9, <1>10, <1>11, <1>12, <1>13, <1>14 DEF Next

\* Between news every headline of the baseline is one the present image and factor
\* yield: that of today with some scalar, the others whatever the scalar
\* (_track_headline_revisions).
THEOREM BaselineInvariant == Spec => []BaselineInv
  BY InitBaselineInv, NextBaselineInv, PTL DEF Spec

\* A tick without news finds every headline where it was.
LEMMA NothingRevised ==
    ASSUME BaselineInv, Tick, WithinLimits', ~changed, image' = image
    PROVE  Revised(Published) = {}
PROOF
  <1>1. /\ now \in Slot /\ theta \in Thetas /\ image \in [Date -> Curves] /\ theta' = theta
        /\ now' = now /\ Today' = Today /\ scalar' \in Scalar /\ Threshold \in Nat
    BY TickTypes, AuditAssumption DEF BaselineInv, Tick
  <1>2. ASSUME NEW o \in Offset, <<Today + o, o>> \in DOMAIN baseline
        PROVE  ~Far(Published[<<Today + o, o>>], baseline[<<Today + o, o>>])
    <2>1. OfPresent(o)
      BY <1>2 DEF BaselineInv
    <2> DEFINE new == Published[<<Today + o, o>>]  old == baseline[<<Today + o, o>>]
    <2>2. new \in Int /\ new = old
      <3>1. CASE o = 0
        <4> DEFINE c == image[Today]
        <4>1. c \in Curves
          BY <1>1, TodayInDate
        <4>2. \A t \in Daylight : Fits(c[t], theta)
          BY <1>1 DEF WithinLimits, Fits, Plain
        <4>3. PICK s \in Scalar, clock \in SlotOfDay :
                  old = HeadlineOfToday[c][theta][s][clock]
          BY <2>1, <3>1 DEF OfPresent
        <4>4. /\ now % SlotsPerDay \in SlotOfDay
              /\ new = HeadlineOfToday[c][theta][scalar'][now % SlotsPerDay]
          BY <1>1, <3>1, PublishedIsPresent
        <4> HIDE DEF c, old, new
        <4>5. old = PlainToday(c, theta) /\ PlainToday(c, theta) \in Int
          BY <1>1, <4>1, <4>2, <4>3, TodayIsPlain
        <4>6. new = PlainToday(c, theta)
          BY <1>1, <4>1, <4>2, <4>4, TodayIsPlain
        <4> QED
          BY <4>5, <4>6
      <3>2. CASE o # 0
        BY <1>1, <2>1, <3>2, PublishedIsPresent DEF OfPresent
      <3> QED
        BY <3>1, <3>2
    <2> HIDE DEF new, old
    <2>3. ~Far(new, old)
      BY <1>1, <2>2 DEF Far
    <2> QED
      BY <2>3 DEF new, old
  <1> QED
    BY <1>2 DEF Revised

\* Without a revision nothing is counted.
LEMMA NothingCounted ==
    ASSUME BaselineInv, AuditInv, Tick, Revised(Published) = {}
    PROVE  audit'.log = audit.log
PROOF
  <1>1. /\ Orderly(RolledOver) /\ RolledOver.day = Today /\ now \in Slot
        /\ Today \in Date /\ audit \in Audit
    BY RolledOverOrderly, TodayInDate DEF AuditInv, Orderly
  <1> DEFINE a == RolledOver
  <1>2. a \in Audit /\ a.log \in [Date -> Counts] /\ a.today \in Counts
    BY <1>1 DEF Orderly, Audit
  <1>3. a.log = audit.log
    <2>1. CASE audit.day = Today
      BY <2>1 DEF RolledOver
    <2>2. CASE audit.day # Today
      <3> DEFINE y == IF audit.day = Today - 1 THEN audit.today ELSE Zero
      <3>1. a = [audit EXCEPT !.day = Today, !.today = Zero, !.yesterday = y]
        BY <2>2 DEF RolledOver
      <3> HIDE DEF y, a
      <3> QED
        BY <1>1, <3>1 DEF Audit
    <2> QED
      BY <2>1, <2>2
  <1>4. audit' = [a EXCEPT !.today = Counted(a.today, {}), !.log[Today] = Counted(a.log[Today], {})]
    BY DEF Tick, TrackHeadlineRevisions
  <1> HIDE DEF a
  <1>5. \A x \in Counts : Counted(x, {}) = x
    BY DEF Counts, Counted
  <1>6. audit'.log = [a.log EXCEPT ![Today] = a.log[Today]]
    BY <1>1, <1>2, <1>4, <1>5 DEF Audit
  <1> QED
    BY <1>2, <1>3, <1>6

\* Only news count as a revision: without a new image or factor neither the
\* intraday scalar, a clamped slot, midnight, a restart nor a failed tick makes
\* the audit count (SPEC 14.1, 14.4).
THEOREM OnlyNewsReviseHolds == Spec => OnlyNewsRevise
PROOF
  <1>1. AuditInv /\ BaselineInv /\ [Next]_vars =>
            [audit'.log # audit.log /\ WithinLimits' =>
                changed \/ image' # image \/ audit' = disk]_vars
    <2> SUFFICES ASSUME AuditInv, BaselineInv, [Next]_vars,
                        audit'.log # audit.log, WithinLimits',
                        ~changed, image' = image
                 PROVE  audit' = disk
      OBVIOUS
    <2>1. CASE Tick
      BY <2>1, NothingRevised, NothingCounted
    <2>2. CASE Crash
      BY <2>2 DEF Crash
    <2>3. CASE TickFails \/ Relearn \/ Clock \/ Save \/ Restart \/ UNCHANGED vars
      BY <2>3 DEF TickFails, Relearn, Clock, Save, Restart, vars
    <2> QED
      BY <2>1, <2>2, <2>3 DEF Next
  <1> QED
    BY <1>1, AuditInvariant, BaselineInvariant, PTL DEF Spec, OnlyNewsRevise

=============================================================================
