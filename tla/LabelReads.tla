------------------------------ MODULE LabelReads ------------------------------
(***************************************************************************)
(* One closed day in the nightly sweeps: its rows arrive in the recorder,  *)
(* are read until the gates accept them, and become the samples of the     *)
(* day-ahead bias and the day's score (_nightly.async_nightly_job,         *)
(* _actuals.async_read_actuals, _scoreboard_glue.score_scoreboard_day).    *)
(* What the panels really produced and what was forecast are given; the    *)
(* recorder loses rows and channels fail in the ways the gates look for.   *)
(***************************************************************************)
EXTENDS MeasuredDay

CONSTANTS TheDay,      \* the closed day
          Produced,    \* plane |-> hour |-> energy
          Issues,      \* issued entries the day may have
          Meterings,   \* sets of planes that may have a meter
          Losses,      \* sets of <<plane, hour>> the recorder has lost
          MaxReconfigurations

VARIABLES
    faults,      \* plane |-> how its channel fails: "none", "dead", "negative",
                 \* "scaled", "frozen"
    missing,        \* rows that never come
    compiled,    \* the recorder has the rows of the hours before this one
    issuedDay,   \* the issued entry
    metered,     \* planes with an actual_entity
    reconfigurations,
    label,       \* the actuals recorded for the day, or Null
    discard,     \* the reason of the last gate that discarded it, or Null
    trained,     \* [planes, samples, clear], or Null as long as the day is not trained
    score        \* the day's entry in the scoreboard, or Null

labelVars == <<faults, missing, compiled, issuedDay, metered, reconfigurations,
               label, discard, trained, score>>

dayHours == {h \in UNION {DOMAIN Produced[p] : p \in PlaneSet} : LocalDay(h) = TheDay}

\* What a channel reports of an hour.
Reported(p, h) ==
    CASE faults[p] = "dead" -> Null
      [] faults[p] = "negative" /\ Produced[p][h] = 0 -> Bad
      [] faults[p] = "scaled" -> 1000 * Produced[p][h]
      [] faults[p] = "frozen" /\ h > FrozenRepeats -> Produced[p][FrozenRepeats]
      [] OTHER -> Produced[p][h]

\* statistics_during_period for the metered planes.
Stats ==
    [p \in metered |->
        [h \in {x \in dayHours : x < compiled /\ <<p, x>> \notin missing} |-> Reported(p, h)]]

-----------------------------------------------------------------------------
LabelIdle ==
    /\ compiled = TheDay * DayLength - UtcOffset
    /\ reconfigurations = 0
    /\ label = Null
    /\ discard = Null
    /\ trained = Null
    /\ score = Null

LabelInit ==
    /\ LabelIdle
    /\ faults \in {f \in [PlaneSet -> {"none", "dead", "negative", "scaled", "frozen"}] :
                      Cardinality({p \in PlaneSet : f[p] # "none"}) <= 1}
    /\ missing \in Losses
    /\ issuedDay \in Issues
    /\ metered \in Meterings

\* The recorder compiles the statistics of the next hour.
Compile ==
    /\ compiled \in dayHours
    /\ compiled' = compiled + 1
    /\ UNCHANGED <<faults, missing, issuedDay, metered, reconfigurations,
                   label, discard, trained, score>>

\* Options flow and reload: planes gain or lose their meter.
Remeter ==
    /\ reconfigurations < MaxReconfigurations
    /\ \E m \in Meterings \ {metered} : metered' = m
    /\ reconfigurations' = reconfigurations + 1
    /\ UNCHANGED <<faults, missing, compiled, issuedDay, label, discard, trained, score>>

\* async_read_actuals: a discarded day leaves no label but its reason.
ReadActuals ==
    IF metered = {} THEN [label |-> Null, discard |-> Null]
    ELSE IF Gate(Stats, TheDay) = "ok" THEN [label |-> Label(Stats), discard |-> Null]
    ELSE [label |-> Null, discard |-> Gate(Stats, TheDay)]

\* The sweep on this day: read unless there is a label, train once, score.  A read
\* may fail, the training may raise; neither keeps the others from their turn.
SweepOfDay ==
    \E readable, raises \in BOOLEAN :
        LET read == IF label = Null /\ readable THEN ReadActuals
                    ELSE [label |-> label, discard |-> discard]
            actuals == read.label
        IN /\ label' = actuals
           /\ discard' = read.discard
           /\ trained' = IF trained # Null \/ raises \/ actuals = Null THEN trained
                         ELSE IF IsCollapseDay(issuedDay, actuals, metered, TheDay)
                         THEN [planes |-> metered, samples |-> {}, clear |-> FALSE]
                         ELSE [planes |-> metered,
                               samples |-> DayAheadSamples(issuedDay, actuals, metered, TheDay),
                               clear |-> IsMeasuredClear(issuedDay, actuals, metered, TheDay)]
           /\ LET new == IF actuals = Null THEN Null
                         ELSE DayScore(issuedDay, actuals, metered, TheDay)
              IN score' = IF new = Null THEN score ELSE new
           /\ UNCHANGED <<faults, missing, compiled, issuedDay, metered, reconfigurations>>

LabelNext == Compile \/ Remeter \/ SweepOfDay

LabelSpec == LabelInit /\ [][LabelNext]_labelVars

-----------------------------------------------------------------------------
(* Properties.                                                              *)

LabelTypeOK ==
    /\ metered \in Meterings
    /\ reconfigurations \in 0..MaxReconfigurations
    /\ label # Null => DOMAIN label.daily = DOMAIN label.hourly
    /\ discard \in {Null, "dead", "frozen", "implausible", "coverage"}

\* A channel that failed in a way the gates know never becomes a label: what is
\* stored of an hour is what the plane produced (_actuals_from_stats: a
\* partial-site measurement never becomes the ground truth).
LabelIsTrue ==
    label # Null =>
        \A p \in DOMAIN label.hourly : \A h \in DOMAIN label.hourly[p] :
            label.hourly[p][h] = Produced[p][h]

\* A forecast that was right is found right, whatever rows are missing and whichever
\* planes are metered, as long as those that are had their meter when the label was
\* read: every sample's measured and modeled energy agree, and the day's score is
\* free of error (a recorder gap is absence of evidence, never zero production).
\* What it is found right against is what the planes produced.
RightForecastIsRight ==
    /\ LabelIsTrue
    /\ trained # Null /\ trained.planes \subseteq DOMAIN label.hourly =>
          \A s \in trained.samples : s.measured = s.modeled
    /\ score # Null /\ score.planes = DOMAIN label.hourly =>
          score.measured = score.engine /\ score.hourly.sum = 0
=============================================================================
