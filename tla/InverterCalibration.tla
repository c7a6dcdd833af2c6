-------------------------- MODULE InverterCalibration --------------------------
(***************************************************************************)
(* The site's DC-AC efficiency learned from closed days, its completion    *)
(* markers, and the watchdog over days whose measured ratio no inverter    *)
(* can have (_nightly.train_inverter_cal, core/inverter_cal.py,            *)
(* _channel_health.record_eta_calibration_outcome, store.py).              *)
(*                                                                         *)
(* Ratios and efficiencies are percents.  A day's DC actuals are stored;   *)
(* the AC meter is read anew on each visit and may lack hours.             *)
(***************************************************************************)
EXTENDS MeasuredDay

CONSTANTS CalDays,      \* days of the calendar
          CalWindow,    \* NIGHTLY_CATCHUP_MAX_DAYS
          CalMarks,     \* TRAINED_DAYS_RING
          DayKinds,     \* how a day may be: [dc: plane |-> hour |-> W, ac: hour |-> W]
          GroupPlanes, GroupLimit, GroupEta, \* per inverter; GroupEta in percent
          MinLoad, HeadroomPct, MinEta, MaxEta, DefaultEta,
          WarmUp,       \* samples until the average turns into an EMA
          MinSamples, OutOfBandDays,
          MaxCalCrashes

ASSUME CalibrationAssumption ==
    /\ CalDays \in Nat /\ CalWindow \in Nat \ {0}
    /\ CalMarks \in Nat /\ CalMarks > CalWindow
    /\ MinEta \in Nat /\ MaxEta \in Nat /\ MinEta <= DefaultEta /\ DefaultEta <= MaxEta
    /\ OutOfBandDays \in Nat \ {0}
ASSUME DayKindsAssumption ==
    \A kind \in DayKinds : DOMAIN kind.ac \subseteq Int /\ IsFiniteSet(DOMAIN kind.ac)

VARIABLES
    calDay,     \* today
    calKind,    \* day |-> what was measured
    calStore,   \* [eta, n, marks, streak, lastOut, checked] in memory
    calDisk,    \* the same in the file
    calMeter,   \* an AC meter is configured
    etaCard,    \* the repair card stands
    calCrashes,
    folded,     \* <<day, hour>> behind calStore, in the order they were folded
    foldedDisk,
    counted,    \* days behind the streak
    countedDisk

calVars == <<calDay, calKind, calStore, calDisk, calMeter, etaCard, calCrashes,
             folded, foldedDisk, counted, countedDisk>>

NeutralCal == [eta |-> DefaultEta, n |-> 0, marks |-> {}, streak |-> 0,
            lastOut |-> Null, checked |-> Null]

-----------------------------------------------------------------------------
(* The ratios of a day.                                                     *)

ClampedEta(e) == Between(MinEta, e, MaxEta)

\* Per inverter, not per site: no group may be near its limit.
Unclipped(dc, h) ==
    \A g \in DOMAIN GroupPlanes :
        LET watts == Total([p \in GroupPlanes[g] |-> Get(dc[p], h, 0)])
        IN GroupEta[g] * watts < HeadroomPct * GroupLimit[g]

\* eligible_ratio for the hours both sides have; an hour is its mean power.
Ratios(dc, ac) ==
    LET site == SiteMeasured(dc, PlaneSet, LocalDay(0))
        hours == {h \in DOMAIN site \cap DOMAIN ac :
                     Unclipped(dc, h) /\ site[h] > 0 /\ site[h] >= MinLoad}
    IN [h \in hours |-> (100 * ac[h]) \div site[h]]

\* The sum of the two middle ratios: twice the median.
TwiceMedian(r) ==
    LET n == Cardinality(DOMAIN r)
        Kth(k) == CHOOSE v \in {r[h] : h \in DOMAIN r} :
                     /\ Cardinality({h \in DOMAIN r : r[h] < v}) < k
                     /\ Cardinality({h \in DOMAIN r : r[h] <= v}) >= k
    IN Kth((n + 1) \div 2) + Kth(n \div 2 + 1)

InBand(r) == {h \in DOMAIN r : MinEta <= r[h] /\ r[h] <= MaxEta}

\* update: each plausible ratio enters the average, later the EMA.
Updated(s, r) ==
    LET good == InBand(r)
        fold[k \in 0..Cardinality(good)] ==
            IF k = 0 THEN [eta |-> s.eta, n |-> s.n]
            ELSE LET before == fold[k - 1]
                     h == CHOOSE x \in good : Cardinality({y \in good : y <= x}) = k
                     w == IF before.n + 1 < WarmUp THEN before.n + 1 ELSE WarmUp
                 IN [eta |-> ClampedEta(((w - 1) * before.eta + r[h]) \div w),
                     n |-> before.n + 1]
    IN fold[Cardinality(good)]

\* effective_eta, and the default that stands without it.
EffectiveEta(s) == IF s.n >= MinSamples THEN ClampedEta(s.eta) ELSE DefaultEta

-----------------------------------------------------------------------------
(* The watchdog.                                                            *)

\* A day older than the last one checked says nothing new.
News(s, d) == s.checked = Null \/ d >= s.checked

\* Variant: the same day counts again on the next sweep.
CountsAgainOut(s, d) == TRUE
CountsOut(s, d) == s.lastOut = Null \/ d > s.lastOut

\* _record_eta_calibration_outcome, apart from the card.
Watched(s, d, twice, ours) ==
    LET out == twice < 2 * MinEta \/ twice > 2 * MaxEta
    IN IF ~News(s, d) THEN s
       ELSE IF ~out THEN [s EXCEPT !.checked = d, !.streak = 0, !.lastOut = Null]
       ELSE IF ours /\ CountsOut(s, d)
            THEN [s EXCEPT !.checked = d, !.streak = @ + 1, !.lastOut = d]
            ELSE s

-----------------------------------------------------------------------------
CalIdle ==
    /\ calDay = 1
    /\ calStore = NeutralCal /\ calDisk = NeutralCal
    /\ calMeter = TRUE
    /\ etaCard = FALSE
    /\ calCrashes = 0
    /\ folded = <<>> /\ foldedDisk = <<>>
    /\ counted = {} /\ countedDisk = {}

CalInit == CalIdle /\ calKind \in [0..(CalDays - 1) -> DayKinds]

\* Variant: the marker goes only to days folded completely.
MarkedComplete(d, r) ==
    IF InBand(r) = DOMAIN r THEN Newest(calStore.marks \cup {d}, CalMarks)
    ELSE calStore.marks

\* mark_inverter_day_trained, after the state was persisted.
Marked(d, r) == Newest(calStore.marks \cup {d}, CalMarks)

\* train_inverter_cal for a day whose AC meter answers with these hours.
TrainInverterCal(d, hours) ==
    LET ac == Where(calKind[d].ac, LAMBDA h : h \in hours)
        r == Ratios(calKind[d].dc, ac)
        watched == Watched(calStore, d, TwiceMedian(r), TRUE)
        new == Updated(calStore, r)
        good == InBand(r)
    IN /\ calMeter
       /\ d \notin calStore.marks
       /\ \A p \in PlaneSet : DOMAIN calKind[d].dc[p] # {}
       /\ SiteMeasured(calKind[d].dc, PlaneSet, LocalDay(0)) # Null
       /\ DOMAIN r # {}
       /\ calStore' = IF good = {} THEN watched
                      ELSE [watched EXCEPT !.eta = new.eta, !.n = new.n,
                                           !.marks = Marked(d, r)]
       /\ folded' = folded \o [k \in 1..Cardinality(good) |->
                        <<d, CHOOSE h \in good : Cardinality({y \in good : y <= h}) = k>>]
       /\ etaCard' = IF ~News(calStore, d) THEN etaCard
                     ELSE /\ watched.lastOut # Null
                          /\ etaCard \/ watched.streak >= OutOfBandDays
       /\ counted' = IF watched.streak = 0 THEN {}
                     ELSE IF watched.streak > calStore.streak THEN counted \cup {d}
                     ELSE counted
       /\ UNCHANGED <<calDay, calKind, calDisk, calMeter, calCrashes, foldedDisk, countedDisk>>

CalVisit ==
    \E d \in {x \in DOMAIN calKind : calDay - CalWindow <= x /\ x < calDay} :
        \E hours \in {DOMAIN calKind[d].ac} \cup
                     {DOMAIN calKind[d].ac \ {h} : h \in DOMAIN calKind[d].ac} :
            TrainInverterCal(d, hours)

\* The delayed write.
CalSave ==
    /\ calDisk' = calStore
    /\ foldedDisk' = folded /\ countedDisk' = counted
    /\ UNCHANGED <<calDay, calKind, calStore, calMeter, etaCard, calCrashes, folded, counted>>

\* The process dies; the file is read again.  Repair cards are kept elsewhere.
CalCrash ==
    /\ calCrashes < MaxCalCrashes
    /\ calCrashes' = calCrashes + 1
    /\ calStore' = calDisk
    /\ folded' = foldedDisk
    /\ counted' = countedDisk
    /\ UNCHANGED <<calDay, calKind, calDisk, calMeter, etaCard, foldedDisk, countedDisk>>

\* The AC meter leaves or comes back with a reload, which flushes the file.
CalReconfigure ==
    /\ calCrashes < MaxCalCrashes
    /\ calCrashes' = calCrashes + 1
    /\ calMeter' = ~calMeter
    /\ calDisk' = calStore /\ foldedDisk' = folded /\ countedDisk' = counted
    /\ UNCHANGED <<calDay, calKind, calStore, etaCard, folded, counted>>

CalMidnight ==
    /\ calDay < CalDays
    /\ calDay' = calDay + 1
    /\ UNCHANGED <<calKind, calStore, calDisk, calMeter, etaCard, calCrashes,
                   folded, foldedDisk, counted, countedDisk>>

CalNext == CalVisit \/ CalSave \/ CalCrash \/ CalReconfigure \/ CalMidnight

CalSpec == CalInit /\ [][CalNext]_calVars

-----------------------------------------------------------------------------
(* Properties.                                                              *)

CalTypeOK ==
    /\ calDay \in 1..CalDays
    /\ calStore.eta \in MinEta..MaxEta
    /\ calStore.n = Len(folded)
    /\ calStore.marks \subseteq 0..(calDay - 1)
    /\ EffectiveEta(calStore) \in MinEta..MaxEta

\* No hour is folded twice, whatever is revisited, half read, or lost with a
\* crash: the state and its markers are written together (train_inverter_cal:
\* distinct eligible hours).
HourFoldedOnce ==
    \A i, j \in DOMAIN folded : folded[i] = folded[j] => i = j

\* The out-of-band streak is a number of different days, the newest of them the
\* last one counted, and while no state is lost its card stands as long as the
\* streak is long enough (_record_eta_calibration_outcome: consecutive days,
\* idempotent re-sweeps, cleared on the first day back in band).
OutOfBandInARow ==
    /\ calStore.streak = Cardinality(counted)
    /\ \A d \in counted : d <= calStore.lastOut /\ calStore.lastOut <= calStore.checked
    /\ calCrashes = 0 => (etaCard <=> calStore.streak >= OutOfBandDays)

\* Of a day's evidence, nothing is counted twice by either of its readers, the
\* calibration and the watchdog, in whatever order days are revisited.
CountedOnce == HourFoldedOnce /\ OutOfBandInARow
=============================================================================
