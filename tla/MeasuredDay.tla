----------------------------- MODULE MeasuredDay -----------------------------
(***************************************************************************)
(* How one closed day is measured and compared: the label gates on the     *)
(* recorder's hourly rows (_actuals.py, core/measurement_quality.py), the  *)
(* reduction of measured and modeled curves to the same planes and hours   *)
(* (_nightly.py, core/learning_inputs.py), and what is computed from a day *)
(* (_scoreboard_glue.py, core/scoreboard.py).                              *)
(*                                                                         *)
(* Hours are numbers of the UTC axis; a curve is a function from hours to  *)
(* energy.  A plane's actuals are such a curve as well.                    *)
(***************************************************************************)
EXTENDS Values, Functions

CONSTANTS Planes,        \* the site's planes, in order
          DayLength,     \* hours in a day
          UtcOffset,     \* local time is ahead of UTC
          Daylight,      \* hours of a local day, from its midnight, with the sun up
          FrozenRepeats, \* LABEL_FROZEN_MIN_REPEATS
          PeakOf,        \* plane |-> energy no hour can exceed
          CoveragePct,   \* DAY_ACTUALS_MIN_DAYLIGHT_COVERAGE
          CollapsePct, CollapseMin, ClearPct, \* of measured against modeled
          CutoffHour,    \* an issued entry must be older, local time
          Classes        \* cloud classes, in order

PlaneSet == {Planes[i] : i \in DOMAIN Planes}

ASSUME SiteAssumption ==
    /\ DayLength \in Nat \ {0} /\ UtcOffset \in Int
    /\ Planes \in Seq(PlaneSet)
    /\ Classes \in Seq({Classes[i] : i \in DOMAIN Classes})
    /\ \E i \in DOMAIN Classes : Classes[i] = "clear"

-----------------------------------------------------------------------------
(* Curves.                                                                  *)

LocalDay(h) == (h + UtcOffset) \div DayLength

\* _filter_hourly_to_local_day.
InDay(curve, day) == Where(curve, LAMBDA h : LocalDay(h) = day)

\* daylight_hour_keys: hours of the local day with the sun up.
DaylightHours(day) ==
    {h \in (day * DayLength - UtcOffset)..((day + 1) * DayLength - UtcOffset - 1) :
        (h + UtcOffset) % DayLength \in Daylight}

At(curve, h) == Get(curve, h, 0)
Total(curve) == SumFunction(curve)

\* Finitely many hours, or planes, with whole numbers.
IsCurve(c) == IsFiniteSet(DOMAIN c) /\ \A h \in DOMAIN c : c[h] \in Int

-----------------------------------------------------------------------------
(* The label gates.  rows is a function from hours to what the recorder     *)
(* has: a mean power, Null for a row without one, Bad for no power.         *)

Usable(rows) == Where(rows, LAMBDA h : rows[h] # Null)

\* Variant: the run must be longer than the number of repeats.
IsFrozenChannelLate(means) ==
    \E a, b \in DOMAIN means :
        LET run == {h \in DOMAIN means : a <= h /\ h <= b}
        IN /\ Cardinality(run) = FrozenRepeats + 1
           /\ means[a] # 0
           /\ \A h \in run : means[h] = means[a]

\* frozen_nonzero: the same power, not zero, in consecutive rows.
IsFrozenChannel(means) ==
    \E a, b \in DOMAIN means :
        LET run == {h \in DOMAIN means : a <= h /\ h <= b}
        IN /\ Cardinality(run) = FrozenRepeats
           /\ means[a] # 0
           /\ \A h \in run : means[h] = means[a]

\* The gates of _actuals_from_stats on one plane; dc_power refuses what is no
\* power.
ChannelGate(p, rows) ==
    LET means == Usable(rows)
    IN IF \E h \in DOMAIN means : means[h] = Bad \/ means[h] < 0 THEN "implausible"
       ELSE IF DOMAIN means = {} THEN "dead"
       ELSE IF IsFrozenChannel(means) THEN "frozen"
       ELSE IF \E h \in DOMAIN means : means[h] > PeakOf[p] THEN "implausible"
       ELSE "ok"

\* The completeness gate: every plane covers enough of the daylight.
Covered(stats, day) ==
    LET expected == DaylightHours(day)
    IN \A p \in DOMAIN stats :
          100 * Cardinality(DOMAIN Usable(stats[p]) \cap expected)
             >= CoveragePct * Cardinality(expected)

\* What _actuals_from_stats makes of a day: the reason of the first gate that
\* discards it, or "ok".
Gate(stats, day) ==
    LET broken == {i \in DOMAIN Planes : /\ Planes[i] \in DOMAIN stats
                                         /\ ChannelGate(Planes[i], stats[Planes[i]]) # "ok"}
        first == Planes[CHOOSE i \in broken : \A j \in broken : i <= j]
    IN IF broken # {} THEN ChannelGate(first, stats[first])
       ELSE IF ~Covered(stats, day) THEN "coverage"
       ELSE "ok"

\* Its actuals, per plane: those of the day and those of its hours.
Label(stats) ==
    [hourly |-> [p \in DOMAIN stats |-> Usable(stats[p])],
     daily |-> [p \in DOMAIN stats |-> Total(Usable(stats[p]))]]

-----------------------------------------------------------------------------
(* The same planes and the same hours on both sides.                        *)

\* Variant: an hour counts that any plane has.
SiteMeasuredAnyHour(hourly, metered, day) ==
    LET hours == UNION {DOMAIN InDay(Get(hourly, p, <<>>), day) : p \in metered}
    IN IF metered = {} \/ hours = {} THEN Null
       ELSE [h \in hours |->
                Total([p \in metered |-> At(InDay(Get(hourly, p, <<>>), day), h)])]

\* site_measured_hourly: the hours that every metered plane has, or Null.
SiteMeasured(hourly, metered, day) ==
    LET of(p) == InDay(Get(hourly, p, <<>>), day)
        common == {h \in UNION {DOMAIN of(p) : p \in metered} :
                      \A p \in metered : h \in DOMAIN of(p)}
    IN IF metered = {} \/ common = {} THEN Null
       ELSE [h \in common |-> Total([p \in metered |-> of(p)[h]])]

\* metered_modeled_hourly: the curve of the metered planes in the same layer, or
\* Null.  perPlane is empty in an entry of the first version.
MeteredModeled(curve, perPlane, metered) ==
    IF metered = {} THEN Null
    ELSE IF metered = PlaneSet THEN curve
    ELSE IF \E p \in metered : p \notin DOMAIN perPlane \/ DOMAIN perPlane[p] = {} THEN Null
    ELSE [h \in DOMAIN curve |-> Total([p \in metered |-> At(perPlane[p], h)])]

\* The curve that was served: an old entry has only the raw one.
ServedCurve(issued) == IF DOMAIN issued.corrected = {} THEN issued.raw ELSE issued.corrected

\* An issued entry's curve without its broken values (IssuedSnapshot.from_dict).
Sanitised(curve) == Where(curve, LAMBDA h : curve[h] # Bad)

\* A layer of an issued entry, of the site and of its planes, and the label of a day.
IsLayer(curve, perPlane) ==
    IsCurve(Sanitised(curve)) /\ \A p \in DOMAIN perPlane : IsCurve(perPlane[p])
IsLabel(label) ==
    IsCurve(label.daily) /\ \A p \in DOMAIN label.hourly : IsCurve(label.hourly[p])

-----------------------------------------------------------------------------
(* What is computed from a day.                                             *)

\* production_collapsed of is_collapse_day.
IsCollapseDay(issued, label, metered, day) ==
    LET modeled == MeteredModeled(InDay(Sanitised(issued.raw), day), issued.rawOf, metered)
        measured == Total(label.daily)
    IN /\ modeled # Null
       /\ Total(modeled) >= CollapseMin
       /\ 100 * measured < CollapsePct * Total(modeled)

\* day_is_measured_clear.
IsMeasuredClear(issued, label, metered, day) ==
    LET modeled == MeteredModeled(InDay(Sanitised(issued.raw), day), issued.rawOf, metered)
        measured == Total([p \in DOMAIN label.hourly |-> Total(InDay(label.hourly[p], day))])
    IN /\ modeled # Null
       /\ Total(modeled) > 0
       /\ 100 * measured >= ClearPct * Total(modeled)

\* train_day_ahead up to day_ahead_samples: per cell the modeled and the measured
\* energy of the hours that were measured.  A day apportions its total only if it
\* has no hourly actuals at all.
DayAheadSamples(issued, label, metered, day) ==
    LET modeled == MeteredModeled(InDay(Sanitised(issued.slow), day), issued.slowOf, metered)
        measured == SiteMeasured(label.hourly, metered, day)
        hours == IF measured = Null THEN DOMAIN modeled
                 ELSE DOMAIN modeled \cap DOMAIN measured
        CellOf(h) == <<Get(issued.class, h, "clear"), issued.part[h]>>
        In(c) == {h \in hours : CellOf(h) = c}
        modeledIn(c) == Total([h \in In(c) |-> modeled[h]])
    IN IF modeled = Null \/ Total(label.daily) <= 0 THEN {}
       ELSE IF measured = Null /\ DOMAIN label.hourly # {} THEN {}
       ELSE IF Total(modeled) <= 0 THEN {}
       ELSE {[cell |-> c, modeled |-> modeledIn(c),
              measured |-> IF measured = Null
                           THEN (Total(label.daily) * modeledIn(c)) \div Total(modeled)
                           ELSE Total([h \in In(c) |-> measured[h]])] :
             c \in {d \in {CellOf(h) : h \in hours} : modeledIn(d) > 0}}

\* issued_after_cutoff: an entry without a time is accepted.
IssuedAfterCutoff(issued, day) ==
    issued.at # Null /\ issued.at > day * DayLength - UtcOffset + CutoffHour

\* hourly_mae over the hours with energy on either side, as sum and count.
HourlyMae(curve, measured) ==
    LET hours == {h \in DOMAIN curve \cup DOMAIN measured :
                     At(curve, h) > 0 \/ At(measured, h) > 0}
        Off(h) == IF At(curve, h) > At(measured, h) THEN At(curve, h) - At(measured, h)
                  ELSE At(measured, h) - At(curve, h)
    IN IF hours = {} THEN Null
       ELSE [sum |-> Total([h \in hours |-> Off(h)]), n |-> Cardinality(hours)]

\* dominant_weather_class: by energy, by hours if there is none, first class first.
DominantClass(issued, day) ==
    LET classes == InDay(issued.class, day)
        curve == Sanitised(ServedCurve(issued))
        Energy(c) == Total([h \in {x \in DOMAIN classes : classes[x] = c} |-> At(curve, h)])
        Count(c) == Cardinality({h \in DOMAIN classes : classes[h] = c})
        Weight(c) == IF \E i \in DOMAIN Classes : Energy(Classes[i]) > 0 THEN Energy(c) ELSE Count(c)
        best == {i \in DOMAIN Classes : \A j \in DOMAIN Classes :
                    Weight(Classes[i]) >= Weight(Classes[j])}
    IN IF DOMAIN classes = {} THEN "clear"
       ELSE Classes[CHOOSE i \in best : \A j \in best : i <= j]

\* Variant: a day is scored although hours of it were not measured.
WholeDayMeasuredPartly(measured, curve, day) == measured # Null

\* Daily energy is only compared if every daylight hour of the curve was measured.
WholeDayMeasured(measured, curve, day) ==
    /\ measured # Null
    /\ DaylightHours(day) \cap DOMAIN curve \subseteq DOMAIN measured

\* score_scoreboard_day up to score_day: Null if the day stays without a score.
DayScore(issued, label, metered, day) ==
    LET curve == MeteredModeled(InDay(Sanitised(ServedCurve(issued)), day),
                                issued.correctedOf, metered)
        measured == SiteMeasured(label.hourly, metered, day)
        scored == /\ \A h \in DOMAIN ServedCurve(issued) : ServedCurve(issued)[h] # Bad
                  /\ ~IsCollapseDay(issued, label, metered, day)
                  /\ ~IssuedAfterCutoff(issued, day)
                  /\ curve # Null
                  /\ DOMAIN curve # {}
                  /\ WholeDayMeasured(measured, curve, day)
    IN IF ~scored THEN Null
       ELSE [planes |-> metered, measured |-> Total(label.daily), engine |-> Total(curve),
             hourly |-> HourlyMae(curve, measured),
             class |-> DominantClass(issued, day)]
=============================================================================
