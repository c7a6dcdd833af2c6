------------------------------ MODULE BiasLearner ------------------------------
(***************************************************************************)
(* The day-ahead bias: one recursive least squares cell per cloud class    *)
(* and day part, trained from closed days (core/bias.py,                   *)
(* _nightly.train_day_ahead), blended over solar time when it is applied   *)
(* (_build_learner_hooks), and opened again when the configured site is    *)
(* another one (coordinator._reconcile_config_fingerprint).                *)
(*                                                                         *)
(* A factor is a permille.  A cell keeps the inverse of its covariance, so *)
(* the initial covariance, a thousand, is no information.                  *)
(***************************************************************************)
EXTENDS MeasuredDay

CONSTANTS BiasNights,  \* nights that are trained
          BiasKinds,   \* days: [issued, label]
          BiasSites,   \* configurations of the site
          PrintOf,     \* configuration |-> its fingerprint
          Parts,       \* the day parts, in order
          Forgetting,  \* per cent of the information kept per step
          ThetaMin, ThetaMax, MinModeled, BiasMinSamples, ReseedN,
          MidHalf, BlendHalf, \* quarter hours around solar noon, and around a boundary
          MaxBiasMoves \* crashes and reconfigurations

ASSUME BiasAssumption ==
    /\ BiasNights \in Nat /\ MaxBiasMoves \in Nat
    /\ ThetaMin \in Nat /\ ThetaMax \in Nat /\ ThetaMin <= 1000 /\ 1000 <= ThetaMax
    /\ BlendHalf \in Nat \ {0} /\ MidHalf \in Nat /\ MidHalf > BlendHalf
    /\ Forgetting \in 1..100 /\ MinModeled \in Nat /\ ReseedN \in Nat \ {0}
    /\ DOMAIN PrintOf = BiasSites
    /\ \A day \in BiasKinds : /\ {"slow", "slowOf"} \subseteq DOMAIN day.issued
                             /\ IsLayer(day.issued.raw, day.issued.rawOf)
                             /\ IsLayer(day.issued.slow, day.issued.slowOf)
                             /\ IsLabel(day.label)

VARIABLES
    bias,       \* [cells, print] in memory
    biasFile,   \* the same as it was last written
    biasSite,   \* the configuration in force
    biasOn,     \* neither switched off nor drift-disabled
    biasNight,
    biasMoves,
    since       \* history: [mem, file]: cell |-> ratios it saw since it was opened

biasVars == <<bias, biasFile, biasSite, biasOn, biasNight, biasMoves, since>>

ClampedTheta(t) == Between(ThetaMin, t, ThetaMax)

-----------------------------------------------------------------------------
(* Training.                                                                *)

\* The curve a day is trained against: slow-only, or raw where the entry has none.
SlowOrRaw(issued) ==
    IF DOMAIN issued.slow # {} THEN issued
    ELSE [issued EXCEPT !.slow = issued.raw, !.slowOf = issued.rawOf]

Bright(s) == s.modeled > MinModeled /\ s.measured >= 0

\* A day's energies per cell.
CellEnergies(day) ==
    DayAheadSamples(SlowOrRaw(day.issued), day.label, PlaneSet, LocalDay(0))

\* _rls_step.
RlsStep(cell, s) ==
    LET old == (Forgetting * cell.info) \div 100
        info == old + s.modeled * s.modeled
    IN [theta |-> ClampedTheta((cell.theta * old + 1000 * s.modeled * s.measured) \div info),
        info |-> info, n |-> cell.n + 1]

FreshCell == [theta |-> 1000, info |-> 0, n |-> 0]

\* A day's sample of a cell.
SampleOf(news, c) == CHOOSE s \in news : s.cell = c

\* train_day_ahead_bias: a section too dark creates no cell.
TrainedCells(cells, news) ==
    [c \in DOMAIN cells \cup {s.cell : s \in news} |->
        IF \E s \in news : s.cell = c
        THEN RlsStep(Get(cells, c, FreshCell), SampleOf(news, c)) ELSE cells[c]]

\* Variant: only the count is capped.
ReseededCountOnly(cells) ==
    [c \in DOMAIN cells |-> [cells[c] EXCEPT !.n = IF @ < ReseedN THEN @ ELSE ReseedN]]

\* reseed_day_ahead_bias: the factor stays, the next days outweigh it.
Reseeded(cells) ==
    [c \in DOMAIN cells |->
        [cells[c] EXCEPT !.info = 0, !.n = IF @ < ReseedN THEN @ ELSE ReseedN]]

-----------------------------------------------------------------------------
(* Serving.                                                                 *)

\* BiasState.get_bias.
GetBias(cells, class, part) ==
    LET cell == Get(cells, <<class, part>>, FreshCell)
    IN IF cell.n < BiasMinSamples THEN 1000 ELSE ClampedTheta(cell.theta)

\* day_part_for_solar.
SolarPart(h) == IF h <= -MidHalf THEN Parts[1] ELSE IF h >= MidHalf THEN Parts[3] ELSE Parts[2]

\* Variant: the blend starts at the boundary.
BlendWeightLate(h, boundary) == IF h < boundary THEN 0 ELSE h - boundary

\* How far a blend has gone, in halves of BlendHalf.
BlendWeight(h, boundary) == h - (boundary - BlendHalf)

\* day_ahead_factor_solar, h quarter hours from noon.
Factor(cells, class, h) ==
    LET near == {i \in {1, 2} : LET b == IF i = 1 THEN -MidHalf ELSE MidHalf
                                IN b - BlendHalf <= h /\ h < b + BlendHalf}
        i == CHOOSE i \in near : TRUE
        w == BlendWeight(h, IF i = 1 THEN -MidHalf ELSE MidHalf)
    IN IF near = {} THEN GetBias(cells, class, SolarPart(h))
       ELSE ((2 * BlendHalf - w) * GetBias(cells, class, Parts[i])
                + w * GetBias(cells, class, Parts[i + 1])) \div (2 * BlendHalf)

\* The day-ahead layer of the forecast.
ServedFactor(class, h) ==
    IF biasOn /\ DOMAIN bias.cells # {} THEN Factor(bias.cells, class, h) ELSE 1000

-----------------------------------------------------------------------------
NoCells == [c \in {} |-> FreshCell]

BiasInit ==
    /\ bias = [cells |-> NoCells, print |-> Null]
    /\ biasFile = bias
    /\ biasSite \in BiasSites
    /\ biasOn = TRUE
    /\ biasNight = 0
    /\ biasMoves = 0
    /\ since = [mem |-> NoCells, file |-> NoCells]

\* The ratio a cell is told.
Ratio(s) == ClampedTheta((1000 * s.measured) \div s.modeled)

SeenWith(seen, news) ==
    [c \in DOMAIN seen \cup {s.cell : s \in news} |->
        IF \E s \in news : s.cell = c
        THEN Get(seen, c, {}) \cup {Ratio(SampleOf(news, c))} ELSE seen[c]]

\* train_day_ahead for a closed day.
TrainDayAhead(day) ==
    LET news == {s \in CellEnergies(day) : Bright(s)}
    IN /\ biasOn
       /\ biasNight < BiasNights
       /\ biasNight' = biasNight + 1
       /\ bias' = [bias EXCEPT !.cells = TrainedCells(@, news)]
       /\ since' = [since EXCEPT !.mem = SeenWith(@, news)]
       /\ UNCHANGED <<biasFile, biasSite, biasOn, biasMoves>>

NightOfBias == \E day \in BiasKinds : TrainDayAhead(day)

BiasSave ==
    /\ biasFile' = bias
    /\ since' = [since EXCEPT !.file = since.mem]
    /\ UNCHANGED <<bias, biasSite, biasOn, biasNight, biasMoves>>

\* An older file has no fingerprint; that is no change.
SameSite(b, site) == b.print = Null \/ b.print = PrintOf[site]

\* _reconcile_config_fingerprint: cells opened, fingerprint recorded.
Reconciled(b, site) ==
    [cells |-> IF SameSite(b, site) THEN b.cells ELSE Reseeded(b.cells),
     print |-> PrintOf[site]]

ReconciledSince(b, seen, site) ==
    IF SameSite(b, site) THEN seen ELSE [c \in DOMAIN seen |-> {}]

\* A reload with another configuration flushes the file first; after a crash the
\* file is what the last write left.
StartWith(b, seen, site) ==
    /\ biasMoves < MaxBiasMoves
    /\ biasMoves' = biasMoves + 1
    /\ biasSite' = site
    /\ biasFile' = b
    /\ bias' = Reconciled(b, site)
    /\ since' = [mem |-> ReconciledSince(b, seen, site), file |-> seen]
    /\ UNCHANGED <<biasOn, biasNight>>

BiasReload == \E site \in BiasSites : StartWith(bias, since.mem, site)

BiasCrash == \E site \in BiasSites : StartWith(biasFile, since.file, site)

\* reset_day_ahead_bias.
ResetBias ==
    /\ bias.cells # NoCells
    /\ bias' = [bias EXCEPT !.cells = NoCells]
    /\ since' = [since EXCEPT !.mem = NoCells]
    /\ UNCHANGED <<biasFile, biasSite, biasOn, biasNight, biasMoves>>

SwitchBias ==
    /\ biasOn' = ~biasOn
    /\ UNCHANGED <<bias, biasFile, biasSite, biasNight, biasMoves, since>>

BiasNext == NightOfBias \/ BiasSave \/ BiasReload \/ BiasCrash \/ ResetBias \/ SwitchBias

BiasSpec == BiasInit /\ [][BiasNext]_biasVars

-----------------------------------------------------------------------------
(* Properties.                                                              *)

BiasTypeOK ==
    /\ biasNight \in 0..BiasNights
    /\ \A c \in DOMAIN bias.cells : /\ bias.cells[c].theta \in ThetaMin..ThetaMax
                                    /\ bias.cells[c].info \in Nat
                                    /\ bias.cells[c].n \in 1..BiasNights

\* A cell says what the days since it was last opened said: its factor lies
\* between the smallest and the largest of their ratios, however much was learned
\* on another configuration before, over crashes and reloads alike
\* (reseed_day_ahead_bias: re-open every cell for fast re-adaptation).
CellsFollowNewSite ==
    \A c \in DOMAIN bias.cells :
        /\ c \in DOMAIN since.mem
        /\ since.mem[c] # {} =>
              \E r, s \in since.mem[c] :
                  r <= bias.cells[c].theta /\ bias.cells[c].theta <= s

\* The served factor of learned cells ramps: from one quarter hour to the
\* next it moves by no more than a blend's share of the band, so no day part
\* ends in a step (day_ahead_factor_solar: continuous across boundaries).
ServedFactorRamps ==
    bias.cells # NoCells =>
    \A i \in DOMAIN Classes : \A h \in (-MidHalf - BlendHalf - 1)..(MidHalf + BlendHalf) :
        LET a == ServedFactor(Classes[i], h)  b == ServedFactor(Classes[i], h + 1)
            step == (ThetaMax - ThetaMin) \div (2 * BlendHalf) + 1
        IN a - b <= step /\ b - a <= step /\ a \in ThetaMin..ThetaMax
=============================================================================
