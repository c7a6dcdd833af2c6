------------------------------- MODULE Bootstrap -------------------------------
(***************************************************************************)
(* The learners rebuilt from history (_bootstrap.py, core/bootstrap_build   *)
(* .py, core/openmeteo_backfill.py): weather fetched window by window, the  *)
(* recorder's hours, then one local day after the other folded into an      *)
(* empty accumulator, each against the curve that the days before it would  *)
(* have issued.                                                             *)
(*                                                                         *)
(* Of what is learned the accumulator keeps from which days it comes:       *)
(* shade and bias are those days, a ring entry and a bias step name the     *)
(* days behind the curve that they were formed against.                     *)
(***************************************************************************)
EXTENDS MeasuredDay

CONSTANTS BootRanges,     \* the calls: [first, last, dry], of local days
          BootMetered,    \* planes with an actual_entity
          IssuedArchive,  \* stamp |-> [yield, clear, snow]: Previous-Runs; a
          AnalysisArchive,\* stamp is the end of its hour.  Historical Forecast
          DayStats,       \* what the recorder may have of a day: plane |-> hour of
                          \* the day |-> row
          ChunkDays,    \* BOOTSTRAP_WEATHER_CHUNK_DAYS
          RlsMin,         \* days until a cell is served
          RingWindow,     \* QUANTILE_RING_DAYS
          QuantileFloor   \* energy an hour needs for a residual

ASSUME BootAssumption ==
    /\ ChunkDays \in Nat \ {0}
    /\ BootMetered \subseteq PlaneSet
    /\ \A r \in BootRanges : r.first \in Int /\ r.last \in Int

VARIABLES
    bootPhase,  \* "idle", "weather", "days", "done", "failed"
    call,       \* the call that runs, or Null
    windows,    \* windows still to fetch
    records,    \* hour |-> weather, as fetched
    asIssued,   \* every window had as-issued weather
    stats,      \* plane |-> hour |-> row: what the recorder has
    daysLeft,   \* days still to fold, taken in order
    acc,        \* the accumulator
    imported    \* what was handed to the importer, or Null

bootVars == <<bootPhase, call, windows, records, asIssued, stats, daysLeft, acc, imported>>

-----------------------------------------------------------------------------
(* Weather.                                                                 *)

FirstHour(day) == day * DayLength - UtcOffset
HoursOf(w) == FirstHour(w[1])..(FirstHour(w[2] + 1) - 1)

\* Variant: the next window starts where the one before ended.
DateWindowsApart(first, last) ==
    LET n == (last - first) \div ChunkDays + 1
    IN [i \in 1..n |-> <<first + (i - 1) * ChunkDays,
                         IF i = n THEN last ELSE first + i * ChunkDays - 2>>]

\* _date_windows.
DateWindows(first, last) ==
    LET n == (last - first) \div ChunkDays + 1
    IN [i \in 1..n |-> <<first + (i - 1) * ChunkDays,
                         IF i = n THEN last ELSE first + i * ChunkDays - 1>>]

\* parse_hourly_payload and the cut of fetch_weather_range: an hour is stamped at
\* its end, and those without every input are dropped.
Parsed(archive, w) ==
    [h \in {x \in HoursOf(w) : Get(archive, x + 1, Null) # Null} |-> archive[h + 1]]

\* What fetch_weather_range may return for a window: [got, issued], or no answer.
FetchOutcomes(w) ==
    LET issued == Parsed(IssuedArchive, w)
        degraded == {[got |-> Parsed(AnalysisArchive, w), issued |-> FALSE], Null}
    IN IF issued # <<>> THEN degraded \cup {[got |-> issued, issued |-> TRUE]} ELSE degraded

-----------------------------------------------------------------------------
(* One day.                                                                 *)

DayRecords(day) == Where(records, LAMBDA h : LocalDay(h) = day)

\* _filter_actuals_for_day of _reduce_stats, for the metered planes.
DayActuals(day) == [p \in BootMetered |-> InDay(Usable(stats[p]), day)]

\* require_complete_day of accumulate_days.
CompleteDay(day) ==
    LET expected == DaylightHours(day)
    IN /\ expected \subseteq DOMAIN DayRecords(day)
       /\ \A p \in BootMetered :
             100 * Cardinality(expected \cap DOMAIN DayActuals(day)[p])
                 >= CoveragePct * Cardinality(expected)

\* Variant: a stuck channel only keeps the shading from being learned.
FaultFrozenLater(a) ==
    \E p \in BootMetered : \/ a[p] = <<>>
                           \/ \E h \in DOMAIN a[p] : a[p][h] = Bad \/ a[p][h] < 0 \/ a[p][h] > PeakOf[p]

\* The faults that discard a day for every learner: _implausible_actuals_module,
\* a channel without values, a frozen one.
Fault(a) ==
    \E p \in BootMetered : \/ a[p] = <<>>
                           \/ \E h \in DOMAIN a[p] : a[p][h] = Bad \/ a[p][h] < 0 \/ a[p][h] > PeakOf[p]
                           \/ IsFrozenChannel(a[p])

\* Modeled and measured energy of the metered planes.
ModeledDay(day) ==
    Cardinality(BootMetered) * Total([h \in DOMAIN DayRecords(day) |-> records[h].yield])
MeasuredIn(a) == Total([p \in BootMetered |-> Total(a[p])])

\* Hours whose samples are quasi-clear: no snow, some beam, measured.
ShadeHours(day, a) ==
    {h \in DOMAIN DayRecords(day) : /\ records[h].clear /\ ~records[h].snow /\ records[h].yield > 0
                                    /\ \E p \in BootMetered : h \in DOMAIN a[p]}

\* Hours that every metered plane has (_site_measured_hourly).
CommonHours(day, a) ==
    {h \in DOMAIN DayRecords(day) : \A p \in BootMetered : h \in DOMAIN a[p]}

\* The days behind a served day-ahead factor; a young cell is neutral.
Served(days) == IF Cardinality(days) >= RlsMin THEN days ELSE {}

\* Variant: the residual is formed with the cells that the day just trained.
ResidualBasisAfter(before, after) == [slow |-> before.shade, theta |-> Served(after.bias)]

\* What a day's residuals were formed against.
ResidualBasis(before, after) == [slow |-> before.shade, theta |-> Served(before.bias)]

\* _process_day_impl of a sound day: the shade map if the day was measured clear,
\* one step of the day-ahead cells, the residuals of its hours.
FoldedDay(day, a) ==
    LET clear == 100 * MeasuredIn(a) >= ClearPct * ModeledDay(day) /\ ShadeHours(day, a) # {}
        shade == IF clear THEN acc.shade \cup {day} ELSE acc.shade
        hours == {h \in CommonHours(day, a) : records[h].yield > 0}
        trained == [acc EXCEPT !.shade = shade,
                               !.bias = IF hours # {} THEN @ \cup {day} ELSE @,
                               !.steps = IF hours # {} THEN [d \in DOMAIN @ \cup {day} |->
                                             IF d = day THEN acc.shade ELSE @[d]] ELSE @,
                               !.last = day]
        residuals == {h \in hours : Cardinality(BootMetered) * records[h].yield > QuantileFloor}
        contributed == clear \/ hours # {}
    IN [trained EXCEPT
            !.ring = IF residuals # {} THEN [d \in DOMAIN @ \cup {day} |->
                         IF d = day THEN ResidualBasis(acc, trained) ELSE @[d]] ELSE @,
            !.used = IF contributed THEN @ + 1 ELSE @,
            !.skipped = IF contributed THEN @ ELSE @ + 1]

Skipped == [acc EXCEPT !.skipped = @ + 1]

-----------------------------------------------------------------------------
EmptyAcc == [shade |-> {}, bias |-> {}, steps |-> << >>, ring |-> << >>, last |-> 0,
             used |-> 0, skipped |-> 0]

AllDays == UNION {r.first..r.last : r \in BootRanges}

\* What the recorder may have: every day one of the kinds.
RecorderStats ==
    {[p \in BootMetered |->
        [h \in UNION {{FirstHour(d) + k : k \in DOMAIN of[d][p]} : d \in AllDays} |->
            of[LocalDay(h)][p][h - FirstHour(LocalDay(h))]]] : of \in [AllDays -> DayStats]}

BootIdle ==
    /\ bootPhase = "idle" /\ call = Null /\ windows = <<>> /\ records = <<>>
    /\ asIssued = TRUE /\ daysLeft = {} /\ acc = EmptyAcc /\ imported = Null

BootInit == BootIdle /\ stats \in RecorderStats

\* async_run_bootstrap with the range that _resolve_range makes of its arguments.
RunBootstrap ==
    /\ bootPhase = "idle"
    /\ \E r \in BootRanges :
          /\ call' = r
          /\ IF BootMetered = {} THEN bootPhase' = "failed" /\ windows' = <<>>
             ELSE bootPhase' = "weather" /\ windows' = DateWindows(r.first, r.last)
    /\ UNCHANGED <<records, asIssued, stats, daysLeft, acc, imported>>

\* One window of _fetch_weather: as issued, analysis, or no weather at all.
FetchWindow ==
    /\ bootPhase = "weather" /\ windows # <<>>
    /\ \E o \in FetchOutcomes(Head(windows)) :
          IF o = Null
          THEN bootPhase' = "failed" /\ UNCHANGED <<records, asIssued>>
          ELSE /\ records' = [h \in DOMAIN records \cup DOMAIN o.got |->
                                 IF h \in DOMAIN o.got THEN o.got[h] ELSE records[h]]
               /\ asIssued' = (asIssued /\ o.issued)
               /\ UNCHANGED bootPhase
    /\ windows' = Tail(windows)
    /\ UNCHANGED <<call, stats, daysLeft, acc, imported>>

\* _read_hourly_actuals, and accumulate_days begins with the days that have
\* weather, in order.
BootReadActuals ==
    /\ bootPhase = "weather" /\ windows = <<>>
    /\ IF records = <<>> \/ \A p \in BootMetered : Usable(stats[p]) = <<>>
       THEN bootPhase' = "failed" /\ UNCHANGED daysLeft
       ELSE /\ bootPhase' = "days"
            /\ daysLeft' = {d \in call.first..call.last : DayRecords(d) # <<>>}
    /\ UNCHANGED <<call, windows, records, asIssued, stats, acc, imported>>

Collapsed(day, a) ==
    /\ ModeledDay(day) >= CollapseMin
    /\ 100 * MeasuredIn(a) < CollapsePct * ModeledDay(day)

\* One day of accumulate_days, the earliest that is left.
FoldDay ==
    /\ bootPhase = "days"
    /\ \E day \in daysLeft :
          /\ \A d \in daysLeft : day <= d
          /\ LET a == DayActuals(day)
             IN acc' = IF ~CompleteDay(day) \/ Fault(a) \/ Collapsed(day, a) THEN Skipped
                       ELSE FoldedDay(day, a)
          /\ daysLeft' = daysLeft \ {day}
    /\ UNCHANGED <<bootPhase, call, windows, records, asIssued, stats, imported>>

\* The ring as build_bootstrap_json cuts it: to the window before the last day, the
\* window's first day included.
SeededRing == Where(acc.ring, LAMBDA d : d >= acc.last - RingWindow)

\* build_bootstrap_json and, unless the call is a dry run, the import.
FinishBootstrap ==
    /\ bootPhase = "days" /\ daysLeft = {}
    /\ IF acc.used = 0 THEN bootPhase' = "failed" /\ UNCHANGED imported
       ELSE /\ bootPhase' = "done"
            /\ imported' = IF call.dry THEN Null
                           ELSE [shade |-> acc.shade, bias |-> acc.bias,
                                 ring |-> SeededRing]
    /\ UNCHANGED <<call, windows, records, asIssued, stats, daysLeft, acc>>

BootNext == RunBootstrap \/ FetchWindow \/ BootReadActuals \/ FoldDay \/ FinishBootstrap

BootSpec == BootInit /\ [][BootNext]_bootVars

-----------------------------------------------------------------------------
(* Properties.                                                              *)

BootTypeOK ==
    /\ bootPhase \in {"idle", "weather", "days", "done", "failed"}
    /\ acc.used + acc.skipped <= Cardinality(AllDays)
    /\ acc.shade \cup acc.bias \cup DOMAIN acc.ring \subseteq AllDays

\* Both archives have the hour.
Archived(h) == Get(IssuedArchive, h + 1, Null) # Null /\ Get(AnalysisArchive, h + 1, Null) # Null

\* A day that the label gates of the nightly job would take, whole in both archives,
\* with a sunny hour that every plane has, and not collapsed.
SoundDay(day) ==
    LET a == DayActuals(day)
    IN /\ Gate([p \in BootMetered |-> InDay(stats[p], day)], day) = "ok"
       /\ \A h \in DaylightHours(day) : Archived(h)
       /\ \E h \in DaylightHours(day) :
             /\ IssuedArchive[h + 1].yield > 0 /\ AnalysisArchive[h + 1].yield > 0
             /\ \A p \in BootMetered : h \in DOMAIN a[p]
       /\ ~Collapsed(day, a)

\* A sound day with an hour bright enough for a residual.
TellingDay(day) ==
    /\ SoundDay(day)
    /\ \E h \in DaylightHours(day) :
          /\ \A archive \in {IssuedArchive, AnalysisArchive} :
                /\ archive[h + 1].yield > 0
                /\ Cardinality(BootMetered) * archive[h + 1].yield > QuantileFloor
          /\ \A p \in BootMetered : h \in DOMAIN DayActuals(day)[p]

\* The walk is forward: nothing that a day is compared with was learned from that
\* day or a later one ("today's labels may update tomorrow's model, but they must
\* never change the curve against which today is scored", _process_day_impl).  A day
\* that the nightly label gates discard leaves no trace in any learner; and only a
\* finished walk that is no dry run is imported.  When the walk is over, every sound
\* day of the range was learned from, whatever window its weather came with
\* (_date_windows, accumulate_days), and the imported ring has every day with a
\* residual to tell that the window before the last day reaches
\* (build_bootstrap_json).
WalksForward ==
    /\ \A d \in DOMAIN acc.ring : \A e \in acc.ring[d].slow \cup acc.ring[d].theta : e < d
    /\ \A d \in DOMAIN acc.steps : \A e \in acc.steps[d] : e < d
    /\ \A d \in acc.shade \cup acc.bias \cup DOMAIN acc.ring :
          Gate([p \in BootMetered |-> InDay(stats[p], d)], d) = "ok"
    /\ imported # Null => bootPhase = "done" /\ ~call.dry
    /\ bootPhase = "done" => {d \in call.first..call.last : SoundDay(d)} \subseteq acc.bias
    /\ imported # Null =>
          {d \in call.first..call.last : TellingDay(d) /\ d >= acc.last - RingWindow}
              \subseteq DOMAIN imported.ring
=============================================================================
