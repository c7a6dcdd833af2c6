-------------------------- MODULE NightlyLearning --------------------------
(***************************************************************************)
(* What the nightly job learns (_nightly.py, core/training_plan.py), what  *)
(* the store keeps of it, and the operations that replace learned state:   *)
(* bootstrap import, rollback, bias reset and a change of options.         *)
(*                                                                         *)
(* The gate of LearnerOperations serialises these operations, so between   *)
(* them only the sweep is interrupted: it awaits the recorder before each  *)
(* day, and an unload or a crash may end it there.  A learner state is the *)
(* bag of days folded into it; 0 stands for imported evidence.             *)
(***************************************************************************)
EXTENDS Naturals, Sequences, FiniteSets, FiniteSetsExt

CONSTANTS MaxDay,       \* bound on the calendar
          MaxIncidents, \* bound on interventions and raising steps together
          Window,       \* NIGHTLY_CATCHUP_MAX_DAYS
          Streak,       \* DRIFT_LOSS_STREAK_DAYS
          RingSize,     \* LEARNER_SNAPSHOT_RING
          Labels        \* what a day's measurement may turn out to say

Verdict == {"losing", "holding", "none"}

\* collapsed: production far below the forecast.  dayAhead, slow: which leg
\* loses against its reference, "none" without a site hour measured on every
\* channel.  clear: the day passes the shade map's clearness gate.
Label == [collapsed : BOOLEAN, dayAhead : Verdict, slow : Verdict,
          clear : BOOLEAN]

ASSUME RingAssumption ==
    /\ MaxDay \in Nat \ {0}
    /\ MaxIncidents \in Nat
    /\ Window \in Nat \ {0}
    /\ Streak \in Nat \ {0}
    /\ RingSize \in Nat \ {0}
    /\ RingSize > Streak
ASSUME LabelAssumption ==
    /\ Labels \subseteq Label
    /\ \A l \in Labels : l.dayAhead = "none" => l.slow = "none"

Day == 1..MaxDay
Layer == {"dayAhead", "slow"}
Fresh == [e \in 0..MaxDay |-> 0]
Imported == [Fresh EXCEPT ![0] = 1]

VARIABLES
    today,    \* the local calendar day
    utc,      \* the UTC date, which lags east of Greenwich
    option,   \* the layer switches of the config entry
    store,    \* ForecastStore._data, with the coordinator's working copies
    disk,     \* the store file
    pending,  \* days the running sweep has still to visit
    manual,   \* interventions of the operator so far
    raised    \* training passes a raising step has cut short so far

vars == <<today, utc, option, store, disk, pending, manual, raised>>

Init ==
    /\ today = 1
    /\ utc = 1
    /\ option = [l \in Layer |-> "on"]
    /\ store = [issued   |-> <<>>,  \* day -> layers that shaped the curve
                label    |-> <<>>,  \* day -> recorded measurement
                trained  |-> {},
                ring     |-> <<>>,
                bias     |-> Fresh,
                shade    |-> Fresh,
                quantile |-> Fresh,
                streak   |-> [l \in Layer |-> 0],
                losing   |-> [l \in Layer |-> {}], \* the days streak counts
                disabled |-> [l \in Layer |-> FALSE],
                seen     |-> [l \in Layer |-> "on"],
                frozen   |-> 0]
    /\ disk = store
    /\ pending = {}
    /\ manual = 0
    /\ raised = 0

-----------------------------------------------------------------------------
(***************************************************************************)
(* Store operations.                                                       *)
(***************************************************************************)
With(f, key, value) ==
    [k \in DOMAIN f \cup {key} |-> IF k = key THEN value ELSE f[k]]

PushSnapshot(s) ==
    LET ring == Append(s.ring, [taken |-> utc, bias |-> s.bias,
                                shade |-> s.shade, quantile |-> s.quantile])
    IN [s EXCEPT !.ring = IF Len(ring) > RingSize THEN Tail(ring) ELSE ring]

\* At most one snapshot per UTC date, whatever put it there.
MaybePushSnapshot(s) ==
    IF \E i \in DOMAIN s.ring : s.ring[i].taken = utc
    THEN s ELSE PushSnapshot(s)

-----------------------------------------------------------------------------
(***************************************************************************)
(* Training a closed day, in the order train_and_guard applies it.         *)
(***************************************************************************)
Active(s, l) == option[l] = "on" /\ ~s.disabled[l]

SlowFrozen(s) == s.frozen = today

HasIssued(s, d) == d \in DOMAIN s.issued
HasActuals(s, d) == d \in DOMAIN s.label
HasEvidence(s, d) == HasIssued(s, d) /\ HasActuals(s, d)

Collapsed(s, d) == HasEvidence(s, d) /\ s.label[d].collapsed

Comparable(s, d) == HasEvidence(s, d) /\ s.label[d].dayAhead # "none"

\* Variant: any day that did not collapse lifts the freeze.
PlanFreezeHastily(s, d) == IF Collapsed(s, d) THEN d + 1 ELSE 0

\* plan_training: what happens to the freeze.
PlanFreeze(s, d) ==
    IF Collapsed(s, d) THEN d + 1
    ELSE IF s.frozen <= d + 1 THEN 0 ELSE s.frozen

SetFreeze(s, d) == [s EXCEPT !.frozen = PlanFreeze(s, d)]

TrainDayAhead(s, d) ==
    IF Active(s, "dayAhead") /\ Comparable(s, d)
    THEN [s EXCEPT !.bias[d] = @ + 1] ELSE s

TrainShademap(s, d) ==
    IF /\ Active(s, "slow")
       /\ ~SlowFrozen(s)
       /\ HasEvidence(s, d)
       /\ s.label[d].clear
    THEN [s EXCEPT !.shade[d] = @ + 1] ELSE s

TrainQuantiles(s, d) ==
    IF Comparable(s, d) THEN [s EXCEPT !.quantile[d] = @ + 1] ELSE s

\* A layer is judged on its own leg; without a slow-only curve in the issued
\* snapshot there is no verdict on the slow layer.
LegOf(s, d, l) ==
    IF ~Comparable(s, d) \/ ~Active(s, l) THEN "none"
    ELSE IF l = "slow"
         THEN IF "slow" \in s.issued[d] THEN s.label[d].slow ELSE "none"
         ELSE s.label[d].dayAhead

\* restore_layer_snapshot, for the layers that were just switched off.
RestoreLayers(s, off) ==
    IF s.ring = <<>> THEN s
    ELSE LET snap == s.ring[Max({1, Len(s.ring) - Streak + 1})]
         IN [s EXCEPT !.bias = IF "dayAhead" \in off THEN snap.bias ELSE @,
                      !.shade = IF "slow" \in off THEN snap.shade ELSE @]

\* Variant: a layer that is switched off keeps its count.
ClearedNever(f, layers, zero) == f

Cleared(f, layers, zero) == [l \in Layer |-> IF l \in layers THEN zero ELSE f[l]]

UpdateDrift(s, d) ==
    LET losing == [l \in Layer |->
                      CASE LegOf(s, d, l) = "losing"  -> s.losing[l] \cup {d}
                        [] LegOf(s, d, l) = "holding" -> {}
                        [] LegOf(s, d, l) = "none"    -> s.losing[l]]
        streak == [l \in Layer |->
                      CASE LegOf(s, d, l) = "losing"  -> s.streak[l] + 1
                        [] LegOf(s, d, l) = "holding" -> 0
                        [] LegOf(s, d, l) = "none"    -> s.streak[l]]
        off == {l \in Layer : Comparable(s, d) /\ Active(s, l)
                                               /\ streak[l] >= Streak}
    IN [RestoreLayers(s, off) EXCEPT
           !.streak = Cleared(streak, off, 0),
           !.losing = Cleared(losing, off, {}),
           !.disabled = [l \in Layer |-> l \in off \/ s.disabled[l]],
           !.quantile = IF off # {} THEN Fresh ELSE @]

\* Variant: only the newest trained day is remembered.
MarkNewest(s, d) == IF HasEvidence(s, d) THEN [s EXCEPT !.trained = {d}] ELSE s

MarkTrained(s, d) ==
    IF HasEvidence(s, d) THEN [s EXCEPT !.trained = @ \cup {d}] ELSE s

Prepare(s, d) == SetFreeze(MaybePushSnapshot(s), d)

Geometric(s, d) ==
    IF Collapsed(s, d) THEN s ELSE TrainShademap(TrainDayAhead(s, d), d)

\* Variant: the empirical layers learn from a collapse day too.
EmpiricalAlways(s, d) == UpdateDrift(TrainQuantiles(s, d), d)

Empirical(s, d) ==
    IF Collapsed(s, d) THEN s ELSE UpdateDrift(TrainQuantiles(s, d), d)

\* What a pass leaves behind when one of its steps raises: the sweep catches
\* that around the whole pass, so later steps and the marker are missing.
Aborted(s, d) ==
    IF Collapsed(s, d) THEN {Prepare(s, d)}
    ELSE LET geometric == Geometric(Prepare(s, d), d)
         IN {Prepare(s, d), TrainDayAhead(Prepare(s, d), d), geometric,
             TrainQuantiles(geometric, d)}

\* Variant: the trained days are a watermark, not a set.
TrainBehindNewest(s, d) ==
    IF \E t \in s.trained : d <= t THEN s
    ELSE MarkTrained(Empirical(Geometric(Prepare(s, d), d), d), d)

TrainAndGuard(s, d) ==
    IF d \in s.trained THEN s
    ELSE MarkTrained(Empirical(Geometric(Prepare(s, d), d), d), d)

-----------------------------------------------------------------------------
(***************************************************************************)
(* The nightly job, run at 01:30 and once after every start.               *)
(***************************************************************************)

\* The layers that shape today's curve.
Shaping(s) ==
    {l \in Layer : /\ Active(s, l)
                   /\ ~SlowFrozen(s)
                   /\ (IF l = "slow" THEN s.shade ELSE s.bias) # Fresh}

CatchupDays == {d \in Day : d < today /\ d + Window >= today}

\* A sweep starts by archiving today's forecast, unless no valid one is at
\* hand or it is archived already.
StartSweep ==
    /\ pending = {}
    /\ \E valid \in BOOLEAN :
          store' = IF valid /\ ~HasIssued(store, today)
                   THEN [store EXCEPT !.issued = With(@, today, Shaping(store))]
                   ELSE store
    /\ pending' = CatchupDays
    /\ UNCHANGED <<today, utc, option, disk, manual, raised>>

\* What is known of a day once the recorder was asked: an empty or failed
\* read records nothing, and a recorded day is not read again.
Read(s, d) ==
    IF HasActuals(s, d) THEN {s}
    ELSE {s} \cup {[s EXCEPT !.label = With(@, d, l)] : l \in Labels}

\* The sweep's next day, oldest first: the recorder answers, then training
\* runs without another await.
SweepDay ==
    /\ pending # {}
    /\ LET d == Min(pending)
       IN /\ \E s \in Read(store, d) : store' = TrainAndGuard(s, d)
          /\ pending' = pending \ {d}
    /\ UNCHANGED <<today, utc, option, disk, manual, raised>>

\* The same, but a training step raises; the sweep goes on with the next day.
AbortedDay ==
    /\ manual + raised < MaxIncidents
    /\ raised' = raised + 1
    /\ pending # {}
    /\ LET d == Min(pending)
       IN /\ \E s \in Read(store, d) :
                d \notin s.trained /\ store' \in Aborted(s, d)
          /\ pending' = pending \ {d}
    /\ UNCHANGED <<today, utc, option, disk, manual>>

-----------------------------------------------------------------------------
(***************************************************************************)
(* Operations of the services and of the options flow.                     *)
(***************************************************************************)

Intervene ==
    /\ manual + raised < MaxIncidents
    /\ manual' = manual + 1
    /\ pending = {}  \* the gate: not while a sweep runs
    /\ pending' = {}

\* A bootstrap without a quantile section keeps the live ring.
Import ==
    /\ Intervene
    /\ \E withBands \in BOOLEAN :
          store' = [PushSnapshot(store) EXCEPT
                       !.bias = Imported,
                       !.shade = Imported,
                       !.quantile = IF withBands THEN Imported ELSE @]
    /\ UNCHANGED <<today, utc, option, disk, raised>>

\* Variant: the rollback forgets which days were trained.
RollbackForgetting ==
    /\ Intervene
    /\ \E i \in DOMAIN store.ring :
          store' = [store EXCEPT !.bias = store.ring[i].bias,
                                 !.shade = store.ring[i].shade,
                                 !.quantile = store.ring[i].quantile,
                                 !.trained = {}]
    /\ UNCHANGED <<today, utc, option, disk, raised>>

Rollback ==
    /\ Intervene
    /\ \E i \in DOMAIN store.ring :
          store' = [store EXCEPT !.bias = store.ring[i].bias,
                                 !.shade = store.ring[i].shade,
                                 !.quantile = store.ring[i].quantile]
    /\ UNCHANGED <<today, utc, option, disk, raised>>

ResetDayAheadBias ==
    /\ Intervene
    /\ store' = [store EXCEPT !.bias = Fresh]
    /\ UNCHANGED <<today, utc, option, disk, raised>>

\* Variant: every layer that is on in the options counts as re-enabled.
ReenabledIfOn(s, switch) == {l \in Layer : switch[l] = "on"}

\* The layers the operator has taken from off to on.
Reenabled(s, switch) ==
    {l \in Layer : switch[l] = "on" /\ s.seen[l] = "off"}

\* rebuild_learner_config, run by every setup on what it loaded.
Rebuild(s, switch) ==
    LET reenabled == Reenabled(s, switch)
        changed   == {l \in Layer : s.seen[l] # switch[l]}
        cleared   == {l \in reenabled : s.disabled[l]}
                     \cup (IF "slow" \in changed THEN Layer ELSE changed)
    IN [s EXCEPT
           !.disabled = [l \in Layer |-> s.disabled[l] /\ l \notin reenabled],
           !.streak = Cleared(@, cleared, 0),
           !.losing = Cleared(@, cleared, {}),
           !.seen = switch,
           !.quantile = IF changed # {} THEN Fresh ELSE @]

\* A changed option reloads the entry: the stop flushes the store, the next
\* setup loads it and compares the options it saw last.
Reconfigure(l) ==
    /\ option' = [option EXCEPT ![l] = IF @ = "on" THEN "off" ELSE "on"]
    /\ disk' = store
    /\ store' = Rebuild(store, option')
    /\ pending' = {}
    /\ manual + raised < MaxIncidents
    /\ manual' = manual + 1
    /\ UNCHANGED <<today, utc, raised>>

-----------------------------------------------------------------------------
(***************************************************************************)
(* The store file, and the clocks.                                         *)
(***************************************************************************)

\* The delayed write puts the whole store in the file.
Save ==
    /\ disk # store
    /\ disk' = store
    /\ UNCHANGED <<today, utc, option, store, pending, manual, raised>>

\* Home Assistant stops and starts again: the stop flushes.
Restart ==
    /\ disk' = store
    /\ store' = Rebuild(store, option)
    /\ pending' = {}
    /\ UNCHANGED <<today, utc, option, manual, raised>>

\* Home Assistant dies: what was not written is gone.
Crash ==
    /\ store' = Rebuild(disk, option)
    /\ pending' = {}
    /\ UNCHANGED <<today, utc, option, disk, manual, raised>>

LocalMidnight ==
    /\ today < MaxDay
    /\ utc = today
    /\ today' = today + 1
    /\ UNCHANGED <<utc, option, store, disk, pending, manual, raised>>

UtcMidnight ==
    /\ utc < today
    /\ utc' = utc + 1
    /\ UNCHANGED <<today, option, store, disk, pending, manual, raised>>

Next ==
    \/ StartSweep
    \/ SweepDay
    \/ AbortedDay
    \/ Import
    \/ Rollback
    \/ ResetDayAheadBias
    \/ \E l \in Layer : Reconfigure(l)
    \/ Save
    \/ Restart
    \/ Crash
    \/ LocalMidnight
    \/ UtcMidnight

Spec == Init /\ [][Next]_vars

-----------------------------------------------------------------------------
(***************************************************************************)
(* Properties.                                                             *)
(***************************************************************************)
Learner == [0..MaxDay -> 0..(1 + MaxIncidents)]

\* A store, in memory or in the file.
StoreOK(s) ==
    /\ DOMAIN s.issued \subseteq Day
    /\ \A d \in DOMAIN s.issued : s.issued[d] \subseteq Layer
    /\ DOMAIN s.label \subseteq Day
    /\ \A d \in DOMAIN s.label : s.label[d] \in Labels
    /\ s.trained \subseteq Day
    /\ Len(s.ring) <= RingSize
    /\ \A i \in DOMAIN s.ring :
          s.ring[i] \in [taken : Day, bias : Learner, shade : Learner,
                         quantile : Learner]
    /\ {s.bias, s.shade, s.quantile} \subseteq Learner
    /\ s.streak \in [Layer -> 0..(Streak - 1)]
    /\ s.losing \in [Layer -> SUBSET Day]
    /\ s.disabled \in [Layer -> BOOLEAN]
    /\ s.seen \in [Layer -> {"on", "off"}]
    /\ s.frozen \in 0..(MaxDay + 1)

\* Every variable has its type; a streak never rests at the limit that
\* switches a layer off (update_drift resets it in the same pass).
TypeOK ==
    /\ today \in Day
    /\ utc \in {today - 1, today} \cap Day
    /\ option \in [Layer -> {"on", "off"}]
    /\ StoreOK(store)
    /\ StoreOK(disk)
    /\ pending \subseteq Day
    /\ manual \in Nat
    /\ raised \in Nat
    /\ manual + raised <= MaxIncidents

\* The learner states a store holds, those it could be rolled back to included.
States(s) ==
    {s.bias, s.shade, s.quantile}
    \cup {s.ring[i].bias : i \in DOMAIN s.ring}
    \cup {s.ring[i].shade : i \in DOMAIN s.ring}
    \cup {s.ring[i].quantile : i \in DOMAIN s.ring}

\* A day is folded into a learner state once, and together with its marker:
\* however sweeps repeat, labels arrive late, the process dies or states are
\* rolled back, no night is counted twice (is_day_trained).  Only a pass cut
\* short by a raising step leaves folds without a marker, one each.
FoldedOnce ==
    \A s \in {store, disk} : \A x \in States(s) : \A d \in Day :
        x[d] <= (IF d \in s.trained THEN 1 ELSE 0) + raised

\* A loss streak is a number of distinct days, each trained and each losing:
\* no re-run of a night condemns a layer (update_drift, trained_days).
StreakCountsDays ==
    \A s \in {store, disk} : \A l \in Layer :
        /\ s.streak[l] = Cardinality(s.losing[l])
        /\ \A d \in s.losing[l] :
              /\ d \in s.trained
              /\ s.label[d].dayAhead = "losing" \/ s.label[d].slow = "losing"

\* A collapse day (snow, total dropout) reaches no learner state and no
\* streak, although its label may arrive days late (plan_training).
CollapseLeavesNoTrace ==
    \A s \in {store, disk} : \A d \in Day :
        Collapsed(s, d) =>
            /\ \A x \in States(s) : x[d] = 0
            /\ \A l \in Layer : d \notin s.losing[l]

\* The freeze of the current day is lifted only by the late label of an older
\* collapse (or forgotten with everything else in a crash): no repeated
\* sweep, late good label or change of options lifts it.
FreezeLiftedOnlyByCollapse ==
    [][store.frozen = today /\ today' = today /\ store'.frozen # today =>
          \/ \E d \in Day : Collapsed(store', d) /\ store'.frozen = d + 1
          \/ disk.frozen # today]_vars

\* A switched-off layer comes back only through the operator's off and on
\* (or when a crash forgets that it was switched off): no restart re-enables
\* it (rebuild_learner_config).
DisabledUntilReenabled ==
    [][\A l \in Layer :
          store.disabled[l] /\ ~store'.disabled[l] =>
              \/ option'[l] = "on" /\ option[l] = "off"
              \/ ~disk.disabled[l]
              \/ disk.seen[l] = "off"]_vars

\* A sweep that ends without a raised step leaves no hole: every day of the
\* window with a forecast and a measurement is consumed, also one older than
\* the newest trained day.
NoHoleBehind ==
    [][SweepDay /\ pending' = {} /\ raised = 0 =>
          \A d \in Day :
              d < today /\ d + Window >= today /\ HasEvidence(store', d)
                  => d \in store'.trained]_vars

\* Switching a layer off restores a state without any day of the streak that
\* condemned it (SPEC 9.8: the ring is deeper than the streak, so that the
\* rollback always reaches a state from before the streak).
RestoresPreStreak ==
    [][SweepDay =>
          /\ ~store.disabled["dayAhead"] /\ store'.disabled["dayAhead"] =>
                \A d \in store.losing["dayAhead"] : store'.bias[d] = 0
          /\ ~store.disabled["slow"] /\ store'.disabled["slow"] =>
                \A d \in store.losing["slow"] : store'.shade[d] = 0]_vars

\* After a day that collapsed, the learners stay frozen for the whole of the
\* next day, restarts included (SPEC 9.8, _slow_frozen).
FrozenAfterCollapse ==
    [][store.frozen = today /\ today' = today /\ store' # Rebuild(disk, option)
          => store'.frozen = today]_vars
=============================================================================
