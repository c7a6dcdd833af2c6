----------------------------- MODULE QuantileBands -----------------------------
(***************************************************************************)
(* The spread of the forecast: relative errors of closed days kept in one  *)
(* ring per cloud class and day part (core/quantiles.py,                   *)
(* _nightly.train_quantiles_day), the bands read from them, and their      *)
(* fusion with the spread of an ensemble (core/ensembleband.py,            *)
(* coordinator._build_learner_hooks).                                      *)
(*                                                                         *)
(* Errors and factors are percents.  A sample is [day, err, from]: the     *)
(* date it carries, Null in an older file, its value, and, for the         *)
(* properties only, the day it was really measured on.                     *)
(***************************************************************************)
EXTENDS MeasuredDay

CONSTANTS QDays,       \* days of the calendar
          QKinds,      \* closed days: [issued, label]
          LegacyRings, \* states an older file may hold: bin |-> ring
          QSlots,      \* hour |-> [class, part, today]: the slots of a forecast
          Members,     \* what an ensemble may say: hour |-> sequence of irradiances
          DetGhi,      \* hour |-> irradiance of the deterministic forecast
          MinForecast, ErrMin, ErrMax,
          RingDays, RingCap, DayCap, QMinSamples, QMinDays,
          MinMembers, MinDetGhi, SpreadMin, SpreadMax

ASSUME QuantileAssumption ==
    /\ QDays \in Nat \ {0} /\ RingDays \in Nat /\ RingCap \in Nat
    /\ DayCap \in Nat \ {0} /\ QMinDays \in Nat \ {0} /\ MinForecast \in Nat
    /\ MinMembers \in Nat \ {0} /\ MinDetGhi \in Nat \ {0}
    /\ {ErrMin, ErrMax, SpreadMin, SpreadMax} \subseteq Int
    /\ ErrMin <= 100 /\ 100 <= ErrMax /\ SpreadMin <= 100 /\ 100 <= SpreadMax
    /\ \A day \in QKinds :
          /\ IsLayer(day.issued.raw, day.issued.correctedOf) /\ IsLabel(day.label)
          /\ IsLayer(day.issued.corrected, day.issued.correctedOf)
          /\ DOMAIN day.issued.raw \cup DOMAIN day.issued.corrected \subseteq Int
    /\ \A h \in DOMAIN DetGhi : DetGhi[h] \in Int
    /\ \A members \in Members : \A h \in DOMAIN members : members[h] \in Seq(Int \cup {Bad})

VARIABLES
    qToday,    \* the local day
    rings,     \* QuantileState.bins
    bandsOn,   \* the quantiles switch
    qTrained,  \* days sampled so far
    ensemble   \* hour |-> [lo, hi] of the last ensemble, or Null with it switched off

qVars == <<qToday, rings, bandsOn, qTrained, ensemble>>

-----------------------------------------------------------------------------
(* Rings.                                                                   *)

\* A sample is of its date; one without a date is older than what the module
\* follows, and of a day that left no dated ones.
IsSample(s) ==
    /\ s.err \in ErrMin..ErrMax
    /\ s.from \in Int
    /\ s.day = s.from \/ (s.day = Null /\ s.from < 0)

\* A ring as a training leaves it.
IsRing(ring) ==
    /\ IsList(ring)
    /\ \A i \in DOMAIN ring : IsSample(ring[i])
    /\ \A i, j \in DOMAIN ring :
          ring[i].from = ring[j].from => (ring[i].day = Null <=> ring[j].day = Null)
    /\ \A i \in DOMAIN ring :
          Cardinality({j \in DOMAIN ring : ring[j].from = ring[i].from}) <= DayCap

ASSUME RingsAssumption ==
    \A file \in LegacyRings : \A b \in DOMAIN file :
        IsRing(file[b]) /\ Len(file[b]) \in 1..RingCap

\* Which of two samples goes first when a ring is full: the undated ones, then the
\* oldest.
Older(ring, j, i) ==
    \/ ring[j].day = Null /\ ring[i].day # Null
    \/ ring[j].day # Null /\ ring[i].day # Null /\ ring[j].day < ring[i].day
    \/ ring[j].day = ring[i].day /\ j < i

\* The places of the RingCap samples that go last.
Kept(ring) ==
    {i \in DOMAIN ring : Cardinality({j \in DOMAIN ring : Older(ring, i, j)}) < RingCap}

\* _trim_ring: the window for dated samples, then the cap.
TrimmedRing(ring, asOf) ==
    LET recent == Picked(ring, {i \in DOMAIN ring :
                                   ring[i].day = Null \/ ring[i].day >= asOf - RingDays})
    IN Picked(recent, Kept(recent))

CeilDiv(a, b) == (a + b - 1) \div b

\* ring_evidence: dates, and the fewest days the undated samples can come from.
EvidenceDays(ring) ==
    Cardinality({ring[i].day : i \in DOMAIN ring} \ {Null})
        + CeilDiv(Cardinality({i \in DOMAIN ring : ring[i].day = Null}), DayCap)

\* empirical_percentile: between the two nearest ranks.
Percentile(values, pct) ==
    LET places == (Len(values) - 1) * pct
        lo == values[places \div 100 + 1]
        hi == values[CeilDiv(places, 100) + 1]
    IN lo + ((places % 100) * (hi - lo)) \div 100

\* The k-th smallest is at most k-th from below and has k no larger ones.
Ascending(s) ==
    LET Below(v) == {i \in DOMAIN s : s[i] < v}
        UpTo(v) == {i \in DOMAIN s : s[i] <= v}
    IN [k \in DOMAIN s |-> CHOOSE v \in {s[i] : i \in DOMAIN s} :
                              Cardinality(Below(v)) < k /\ k <= Cardinality(UpTo(v))]

NeutralBand == [p10 |-> 100, p50 |-> 100, p90 |-> 100, n |-> 0]

\* Variant: the ring is read as the last training left it.
ReadRingUntrimmed(ring, asOf) == ring

\* The ring as of the day it is read, whenever it was trained last.
ReadRing(ring, asOf) == TrimmedRing(ring, asOf)

\* bands_for_bin.
BandOf(bin) ==
    LET ring == ReadRing(Get(rings, bin, <<>>), qToday)
        values == Ascending([i \in DOMAIN ring |-> ring[i].err])
    IN IF \/ ring = <<>>
          \/ Len(ring) < QMinSamples
          \/ EvidenceDays(ring) < QMinDays THEN NeutralBand
       ELSE [p10 |-> Percentile(values, 10), p50 |-> Percentile(values, 50),
             p90 |-> Percentile(values, 90), n |-> Len(ring)]

-----------------------------------------------------------------------------
(* Training.                                                                *)

\* The samples of a day, in the order of its hours; none if either side is
\* missing.
DaySamples(day) ==
    LET entry == IF DOMAIN day.issued.corrected # {} THEN day.issued.corrected ELSE day.issued.raw
        curve == MeteredModeled(InDay(Sanitised(entry), LocalDay(0)), day.issued.correctedOf, PlaneSet)
        measured == SiteMeasured(day.label.hourly, PlaneSet, LocalDay(0))
        hours == {h \in DOMAIN curve \cap DOMAIN measured : curve[h] > MinForecast}
        order == Sorted(hours)
    IN IF curve = Null \/ measured = Null THEN <<>>
       ELSE [i \in DOMAIN order |->
                [bin |-> <<Get(day.issued.class, order[i], "clear"), day.issued.part[order[i]]>>,
                 err |-> Between(ErrMin, (100 * measured[order[i]]) \div curve[order[i]], ErrMax)]]

\* train_quantiles: at most DayCap samples of a day enter a bin, and every bin is
\* trimmed as of the trained day, the ones without a new sample too.
TrainedRings(old, date, news) ==
    LET bins == DOMAIN old \cup {news[i].bin : i \in DOMAIN news}
        Taken(b) == LET mine == Picked(news, {i \in DOMAIN news : news[i].bin = b})
                        ring == Get(old, b, <<>>)
                        had == Cardinality({i \in DOMAIN ring : ring[i].day = date})
                    IN SubSeq(mine, 1, Between(0, DayCap - had, Len(mine)))
        Added(b) == [i \in DOMAIN Taken(b) |->
                        [day |-> date, err |-> Taken(b)[i].err, from |-> date]]
        all == [b \in bins |-> TrimmedRing(Get(old, b, <<>>) \o Added(b), date)]
    IN Where(all, LAMBDA b : all[b] # <<>>)

-----------------------------------------------------------------------------
(* The ensemble.                                                            *)

\* ensemble_band_factors: hours without enough members or light have none.
EnsembleFactors(members) ==
    LET Good(h) == Picked(members[h], {i \in DOMAIN members[h] : members[h][i] # Bad})
        Spread(h) == Ascending([i \in DOMAIN Good(h) |->
                        Between(SpreadMin, (100 * Good(h)[i]) \div DetGhi[h], SpreadMax)])
    IN [h \in {x \in DOMAIN members : /\ x \in DOMAIN DetGhi
                                      /\ DetGhi[x] >= MinDetGhi
                                      /\ Len(Good(x)) >= MinMembers} |->
           [lo |-> Percentile(Spread(h), 10), hi |-> Percentile(Spread(h), 90)]]

Least(a, b) == IF a < b THEN a ELSE b
Most(a, b) == IF a > b THEN a ELSE b

IsNeutral(b) == b.p10 = 100 /\ b.p50 = 100 /\ b.p90 = 100

\* Variant: an ensemble replaces the learned band.
FusedReplacing(learned, ens) ==
    IF ens = Null THEN learned ELSE [learned EXCEPT !.p10 = ens.lo, !.p90 = ens.hi]

\* fuse_bands: the wider edge wins, the learned median stays.
Fused(learned, ens) ==
    CASE ens = Null -> learned
      [] ens # Null /\ IsNeutral(learned) ->
            [learned EXCEPT !.p10 = Least(ens.lo, 100), !.p90 = Most(ens.hi, 100)]
      [] OTHER -> [learned EXCEPT !.p10 = Least(Least(learned.p10, ens.lo), learned.p50),
                                  !.p90 = Most(Most(learned.p90, ens.hi), learned.p50)]

LearnedAt(h) == BandOf(<<QSlots[h].class, QSlots[h].part>>)
EnsembleAt(h) == IF ensemble = Null THEN Null ELSE Get(ensemble, h, Null)
ServedAt(h) == IF ~bandsOn THEN NeutralBand
               ELSE Fused(IF DOMAIN rings = {} THEN NeutralBand ELSE LearnedAt(h), EnsembleAt(h))

\* What a slot's band came from.
SlotSource(h) ==
    IF IsNeutral(ServedAt(h)) THEN "neutral"
    ELSE IF EnsembleAt(h) = Null THEN "bin"
    ELSE IF LearnedAt(h).p10 # LearnedAt(h).p90 THEN "envelope"
    ELSE "ensemble"

\* quantile_state_summary for the diagnostics.
Summary == [b \in DOMAIN rings |-> [n |-> Len(rings[b]), days |-> EvidenceDays(rings[b])]]

-----------------------------------------------------------------------------
QInit ==
    /\ qToday = 1
    /\ rings \in LegacyRings
    /\ bandsOn = TRUE
    /\ qTrained = {}
    /\ ensemble = Null

\* train_quantiles_day; a sweep that catches up takes an older day.
TrainQuantilesDay(date, day) ==
    /\ bandsOn
    /\ date < qToday /\ date \notin qTrained
    /\ qTrained' = qTrained \cup {date}
    /\ rings' = IF DaySamples(day) = <<>> THEN rings ELSE TrainedRings(rings, date, DaySamples(day))
    /\ UNCHANGED <<qToday, bandsOn, ensemble>>

QNight == \E date \in 0..(qToday - 1) : \E day \in QKinds : TrainQuantilesDay(date, day)

QMidnight ==
    /\ qToday < QDays
    /\ qToday' = qToday + 1
    /\ UNCHANGED <<rings, bandsOn, qTrained, ensemble>>

\* The stack changed: errors of another forecast are worth nothing.
EmptyRings ==
    /\ DOMAIN rings # {}
    /\ rings' = <<>>
    /\ UNCHANGED <<qToday, bandsOn, qTrained, ensemble>>

SwitchBands ==
    /\ bandsOn' = ~bandsOn
    /\ UNCHANGED <<qToday, rings, qTrained, ensemble>>

\* The ensemble arrives with a fetch, or is switched off.
EnsembleUpdate ==
    /\ \E members \in Members : ensemble' = EnsembleFactors(members)
    /\ UNCHANGED <<qToday, rings, bandsOn, qTrained>>

EnsembleOff ==
    /\ ensemble' = Null
    /\ UNCHANGED <<qToday, rings, bandsOn, qTrained>>

QNext == QNight \/ QMidnight \/ EmptyRings \/ SwitchBands \/ EnsembleUpdate \/ EnsembleOff

QSpec == QInit /\ [][QNext]_qVars

-----------------------------------------------------------------------------
(* Properties.                                                              *)

QTypeOK ==
    /\ qToday \in 1..QDays /\ qTrained \subseteq 0..(qToday - 1)
    /\ \A b \in DOMAIN rings :
          /\ rings[b] # <<>> /\ Len(rings[b]) <= RingCap
          /\ \A i \in DOMAIN rings[b] : rings[b][i].err \in ErrMin..ErrMax
          /\ Summary[b].n = Len(rings[b])

\* A spread is earned: the samples behind a learned band come from QMinDays
\* different days, those with a date from the window that ends today, and no day
\* has more than its share in a bin, though a file of an older version does not say
\* which day a sample is from and nights are missed (bands_for_bin: a handful of
\* hours from a few bursty days must not scale the served curve).
SpreadIsEarned ==
    \A h \in DOMAIN QSlots :
        LearnedAt(h).n > 0 =>
            LET ring == ReadRing(rings[<<QSlots[h].class, QSlots[h].part>>], qToday)
            IN /\ Cardinality({ring[i].from : i \in DOMAIN ring}) >= QMinDays
               /\ \A i \in DOMAIN ring :
                     /\ ring[i].day # Null => ring[i].day >= qToday - RingDays
                     /\ Cardinality({j \in DOMAIN ring : ring[j].from = ring[i].from}) <= DayCap

\* Whatever is fused, a served band contains the learned one and keeps its median,
\* it is in order, and a slot the ensemble says nothing about is left as it was
\* (fuse_bands: only ever widens, never double counts).
BandOnlyWidens ==
    \A h \in DOMAIN QSlots :
        LET served == ServedAt(h)
            learned == IF bandsOn THEN LearnedAt(h) ELSE NeutralBand
        IN /\ served.p10 <= learned.p10 /\ learned.p90 <= served.p90
           /\ served.p50 = learned.p50
           /\ served.p10 <= served.p50 /\ served.p50 <= served.p90
           /\ EnsembleAt(h) = Null => served = learned
           /\ SlotSource(h) \in {"ensemble", "envelope"} => EnsembleAt(h) # Null

\* Together: an uncertainty that is served has its evidence, and an external
\* ensemble never takes any of it away.
BandIsEarned == DOMAIN rings # {} \/ ensemble # Null => SpreadIsEarned /\ BandOnlyWidens
=============================================================================
