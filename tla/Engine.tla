-------------------------------- MODULE Engine --------------------------------
(***************************************************************************)
(* One forecast computed slot by slot (core/engine.py, core/electrical.py,  *)
(* core/plane_physics.py): the raw curve behind the static horizon, the     *)
(* curve behind the learned one, the fast factor, the inverters' limits     *)
(* before and after it, the AC curve and the bands.                         *)
(*                                                                         *)
(* Watts are whole numbers, so a share is rounded down; factors,            *)
(* transmittances and efficiencies are percentages.  Of the sun and the     *)
(* transposition a slot keeps what they leave on each plane.                *)
(***************************************************************************)
EXTENDS Integers, Sequences, FiniteSets, Functions

CONSTANTS SolarPlanes,
          ClipGroups,    \* disjoint [planes, limit, eta]; a plane may be in none
          SlotWeathers,  \* [usable, dark, hour, direct, sky, static]: the last
                         \* three by plane
          TauHooks,      \* what the shade map answers by plane; {} for no hook
          EtaHooks,      \* the calibrated efficiency; 0 for none
          SlotFactors,   \* the fast factor; 0 for an answer that is no number
          SlotBands,     \* <<p10, p50, p90>>, ascending; <<>> for a slot without
          HotAbove,      \* irradiance at which a cell loses HotLoss percent
          HotLoss,
          EtaDefault,    \* DEFAULT_INVERTER_EFFICIENCY
          DayStart,      \* the hour at which the local day changes
          MaxSlots

PerPlane == [SolarPlanes -> Nat]
NoTau == [p \in {} |-> 100]

ASSUME EngineAssumption ==
    /\ IsFiniteSet(SolarPlanes) /\ IsFiniteSet(ClipGroups)
    /\ \A g \in ClipGroups :
          /\ g.planes \subseteq SolarPlanes /\ g.limit \in Nat /\ g.eta \in 1..100
          /\ \A f \in ClipGroups : f # g => f.planes \cap g.planes = {}
    /\ \A w \in SlotWeathers :
          w.direct \in PerPlane /\ w.sky \in PerPlane /\ w.static \in PerPlane
    /\ TauHooks \subseteq {NoTau} \cup PerPlane
    /\ EtaHooks \subseteq 0..100 /\ SlotFactors \subseteq Nat
    /\ \A b \in SlotBands \ {<<>>} :
          b \in [1..3 -> Nat] /\ b[1] <= b[2] /\ b[2] <= b[3]
    /\ HotAbove \in Nat /\ HotLoss \in 0..100
    /\ EtaDefault \in 1..100 /\ MaxSlots \in Nat

VARIABLES
    hooks,     \* [tau, eta, banded]
    slots,     \* what each slot got, oldest first
    plain,     \* the same for a site that never learned anything
    hourly,    \* "raw", "served", "ac" |-> hour |-> energy
    daily,     \* the same by local day
    bands      \* "dc", "ac" |-> per slot <<p10, p50, p90>>; <<>> until issued

engineVars == <<hooks, slots, plain, hourly, daily, bands>>

Share(w, part, whole) == IF whole > 0 THEN (w * part) \div whole ELSE w
Total(watts, ps) == SumFunctionOnSet(watts, ps)
Site(watts) == Total(watts, SolarPlanes)
Grouped == UNION {g.planes : g \in ClipGroups}

-----------------------------------------------------------------------------
(* One slot.                                                                *)

\* gate_split and dc_split: tau gates the direct share, the heat of the whole
\* derates both.
DcSplit(direct, sky, tau) ==
    LET beam == (direct * tau) \div 100
        poa  == beam + sky
        dc   == IF poa > HotAbove THEN (poa * (100 - HotLoss)) \div 100 ELSE poa
    IN IF poa = 0 THEN [beam |-> 0, sky |-> 0]
       ELSE [beam |-> (dc * beam) \div poa, sky |-> dc - (dc * beam) \div poa]

\* clamp_groups: a group over the DC its inverter takes is scaled down to it.
ClampGroups(watts) ==
    [p \in SolarPlanes |->
        LET own == {g \in ClipGroups : p \in g.planes}
        IN IF own = {} THEN watts[p]
           ELSE LET g   == CHOOSE g \in own : TRUE
                    sum == Total(watts, g.planes)
                    cap == (g.limit * 100) \div g.eta
                IN IF sum <= cap THEN watts[p] ELSE Share(watts[p], cap, sum)]

\* clamp_groups_ac, with the calibrated efficiency where there is one.
EtaOf(p, calibrated) ==
    LET own == {g \in ClipGroups : p \in g.planes}
    IN IF calibrated # 0 THEN calibrated
       ELSE IF own = {} THEN EtaDefault ELSE (CHOOSE g \in own : TRUE).eta

ClampGroupsAc(watts, calibrated) ==
    [p \in SolarPlanes |->
        LET own == {g \in ClipGroups : p \in g.planes}
            ac  == (watts[p] * EtaOf(p, calibrated)) \div 100
        IN IF own = {} THEN ac
           ELSE LET g   == CHOOSE g \in own : TRUE
                    sum == Total(watts, g.planes)
                    cap == (g.limit * 100) \div EtaOf(p, calibrated)
                IN IF sum <= cap THEN ac
                   ELSE (Share(watts[p], cap, sum) * EtaOf(p, calibrated)) \div 100]

Factored(watts, factor) == [p \in SolarPlanes |-> (watts[p] * factor) \div 100]

\* Variant: the limits are applied before the factor only.
CorrectGroupsFirst(watts, factor) ==
    [before |-> Factored(watts, factor), served |-> Factored(watts, factor)]

\* correct_groups: the factor, then the limits again.
CorrectGroups(watts, factor) ==
    [before |-> Factored(watts, factor), served |-> ClampGroups(Factored(watts, factor))]

\* Variant: the reference is taken at the learned curve's operating point.
OperatingPointLearned(w, p, tau) == tau

\* The transmittance of the curve that the reference shares its heat with.
OperatingPoint(w, p, tau) == w.static[p]

\* What the shade map is trained against: the direct light without any gate.
BeamReference(w, p, tau) ==
    LET point == OperatingPoint(w, p, tau)
        raw   == DcSplit(w.direct[p], w.sky[p], point)
        poa   == (w.direct[p] * point) \div 100 + w.sky[p]
    IN IF poa = 0 THEN 0 ELSE (w.direct[p] * (raw.beam + raw.sky)) \div poa

\* Variant: the AC curve starts from what the inverters had not limited yet.
AcInputUnclamped(unclamped, served) == unclamped

\* The AC curve starts from the served DC.
AcInput(unclamped, served) == served

NoWatts == [p \in SolarPlanes |-> 0]
DcLimit == SumFunction([g \in ClipGroups |-> (g.limit * 100) \div g.eta])
AcLimit == SumFunction([g \in ClipGroups |-> g.limit])

\* _append_zero_slot: weather is missing, or there is no light at all.
ZeroSlot(w) ==
    [hour |-> w.hour, lit |-> FALSE, raw |-> NoWatts, slow |-> NoWatts,
     served |-> NoWatts, beam |-> NoWatts, sky |-> NoWatts,
     beamRef |-> NoWatts, skyRef |-> NoWatts, unclamped |-> 0, ac |-> 0,
     acUnclamped |-> 0, ceiling |-> DcLimit, acCeiling |-> AcLimit, band |-> <<>>]

Whole(shares) == [p \in SolarPlanes |-> shares[p].beam + shares[p].sky]

\* _split_clamp: each share of a plane is limited as the plane was.
SplitClamp(share, clamped, unclamped) ==
    [p \in SolarPlanes |-> Share(share[p], clamped[p], unclamped[p])]

LitSlot(w, hk, answer, band) ==
    LET factor  == IF answer = 0 THEN 100 ELSE answer
        raw     == [p \in SolarPlanes |-> DcSplit(w.direct[p], w.sky[p], w.static[p])]
        tau     == IF hk.tau = NoTau THEN w.static ELSE hk.tau
        cor     == [p \in SolarPlanes |-> DcSplit(w.direct[p], w.sky[p], tau[p])]
        slow    == ClampGroups(Whole(cor))
        fixed   == CorrectGroups(slow, factor)
        split(share) == SplitClamp(Factored(SplitClamp(share, slow, Whole(cor)), factor),
                                   fixed.served, fixed.before)
        ac      == ClampGroupsAc(AcInput(Factored(Whole(cor), factor), fixed.served), hk.eta)
        free    == SolarPlanes \ Grouped
    IN [hour |-> w.hour, lit |-> TRUE, raw |-> ClampGroups(Whole(raw)), slow |-> slow,
        served |-> fixed.served,
        beam |-> split([p \in SolarPlanes |-> cor[p].beam]),
        sky |-> split([p \in SolarPlanes |-> cor[p].sky]),
        beamRef |-> [p \in SolarPlanes |-> BeamReference(w, p, tau[p])],
        skyRef |-> [p \in SolarPlanes |-> raw[p].sky],
        unclamped |-> Site(fixed.before), ac |-> Site(ac),
        acUnclamped |-> Site([p \in SolarPlanes |-> (fixed.before[p] * EtaOf(p, hk.eta)) \div 100]),
        ceiling |-> DcLimit + Total(fixed.served, free),
        acCeiling |-> AcLimit + Total(ac, free), band |-> band]

-----------------------------------------------------------------------------
(* The forecast.                                                            *)

LocalDay(hour) == IF hour < DayStart THEN 0 ELSE 1

\* EnergyTotals.add.
Added(totals, key, watts) ==
    [k \in DOMAIN totals \cup {key} |->
        (IF k \in DOMAIN totals THEN totals[k] ELSE 0)
        + (IF k = key THEN watts ELSE 0)]

Views == {"raw", "served", "ac"}
Of(s, view) ==
    CASE view = "raw" -> Site(s.raw) [] view = "served" -> Site(s.served)
      [] OTHER -> s.ac

NeutralHooks == [tau |-> NoTau, eta |-> 0, banded |-> FALSE]

Learners == [tau : TauHooks, eta : EtaHooks, banded : BOOLEAN]

EngineInit ==
    /\ hooks \in Learners
    /\ slots = <<>>
    /\ plain = <<>>
    /\ hourly = [v \in Views |-> [h \in {} |-> 0]]
    /\ daily = hourly
    /\ bands = [dc |-> <<>>, ac |-> <<>>]

\* The next call of compute_forecast, with the learners of its cycle.
BeginForecast ==
    /\ Len(slots) = MaxSlots
    /\ hooks.banded => bands.dc # <<>>
    /\ hooks' \in Learners
    /\ slots' = <<>>
    /\ plain' = <<>>
    /\ hourly' = [v \in Views |-> [h \in {} |-> 0]]
    /\ daily' = hourly'
    /\ bands' = [dc |-> <<>>, ac |-> <<>>]

\* One turn of compute_forecast's loop.
ComputeSlot(w, answer, band) ==
    /\ Len(slots) < MaxSlots
    /\ (slots # <<>> => w.hour >= slots[Len(slots)].hour)
    /\ IF ~w.usable \/ w.dark
       THEN /\ slots' = Append(slots, ZeroSlot(w))
            /\ plain' = Append(plain, ZeroSlot(w))
            /\ UNCHANGED <<hourly, daily>>
       ELSE LET s == LitSlot(w, hooks, answer, band)
            IN /\ slots' = Append(slots, s)
               /\ plain' = Append(plain, LitSlot(w, NeutralHooks, 100, <<>>))
               /\ hourly' = [v \in Views |-> Added(hourly[v], w.hour, Of(s, v))]
               /\ daily' = [v \in Views |-> Added(daily[v], LocalDay(w.hour), Of(s, v))]
    /\ UNCHANGED <<hooks, bands>>

\* Variant: a band is not held to what the inverters can deliver.
DeliverableNot(w, ceiling) == w

Deliverable(w, ceiling) == IF w > ceiling THEN ceiling ELSE w

\* band_curve_from_corrected and the cap of each slot.
BandCurve(watts, ceiling) ==
    [i \in DOMAIN slots |->
        [q \in 1..3 |-> Deliverable(IF slots[i].band = <<>> THEN watts[i]
                                    ELSE (watts[i] * slots[i].band[q]) \div 100,
                                    ceiling[i])]]

IssueBands ==
    /\ Len(slots) = MaxSlots
    /\ hooks.banded
    /\ bands.dc = <<>>
    /\ bands' = [dc |-> BandCurve([i \in DOMAIN slots |-> Site(slots[i].served)],
                                  [i \in DOMAIN slots |-> slots[i].ceiling]),
                 ac |-> BandCurve([i \in DOMAIN slots |-> slots[i].ac],
                                  [i \in DOMAIN slots |-> slots[i].acCeiling])]
    /\ UNCHANGED <<hooks, slots, plain, hourly, daily>>

\* The bands of a slot sum to the hours the served curve has.
BandHours(curve, q) ==
    [h \in DOMAIN hourly["served"] |->
        SumFunctionOnSet([i \in DOMAIN curve |-> curve[i][q]],
                         {i \in DOMAIN curve : slots[i].hour = h})]

EngineNext ==
    \/ \E w \in SlotWeathers, f \in SlotFactors, b \in SlotBands : ComputeSlot(w, f, b)
    \/ IssueBands
    \/ BeginForecast

EngineSpec == EngineInit /\ [][EngineNext]_engineVars

-----------------------------------------------------------------------------
EngineTypeOK ==
    /\ hooks \in Learners
    /\ Len(slots) <= MaxSlots
    /\ \A i \in DOMAIN slots :
          /\ slots[i].served \in [SolarPlanes -> Nat]
          /\ {slots[i].ac, slots[i].ceiling, slots[i].acCeiling} \subseteq Nat
    /\ \A v \in Views : hourly[v] \in [DOMAIN hourly["raw"] -> Nat]
    /\ DOMAIN bands = {"dc", "ac"}

\* Rounding loses at most a watt for each of two shares, twice, and what the
\* factor makes of one lost before it.
Near(a, b) ==
    a <= b /\ \E f \in SlotFactors \cup {100} : b - a <= 4 + f \div 100

Sum(s) == SumFunction(s)

\* Whatever the learners answer, a slot that is served can be delivered: no
\* group is served above the DC its inverter takes, its two shares make up the
\* plane's watts, and the AC curve delivers no more than the served DC gives
\* and no more than the inverters' limits.  That a slot was limited shows as
\* a gap between the curve before the limits and after them, which the strip
\* of headline corrections reads.
SlotsAreDeliverable ==
    \A i \in DOMAIN slots :
        LET s == slots[i]
            most(p) == (s.served[p] * EtaOf(p, hooks.eta)) \div 100
        IN /\ \A g \in ClipGroups :
                 \A c \in {s.raw, s.slow, s.served} :
                    Total(c, g.planes) <= (g.limit * 100) \div g.eta
           /\ \A p \in SolarPlanes : Near(s.beam[p] + s.sky[p], s.served[p])
           /\ s.ac <= Site([p \in SolarPlanes |-> most(p)])
           /\ s.ac <= s.acCeiling /\ Site(s.served) <= s.ceiling
           /\ s.unclamped >= Site(s.served) /\ s.acUnclamped >= s.ac

\* The bands of the finished forecast are in their order and under the
\* ceilings, and their hours, which are those of the served curve, hold all
\* of their energy; that of a curve's hours is that of its days and slots.
BandsAreDeliverable ==
    /\ \A c \in {"dc", "ac"} : \A i \in DOMAIN bands[c] :
          /\ bands[c][i][1] <= bands[c][i][2] /\ bands[c][i][2] <= bands[c][i][3]
          /\ bands[c][i][3] <= IF c = "dc" THEN slots[i].ceiling ELSE slots[i].acCeiling
    /\ \A c \in {"dc", "ac"}, q \in 1..3 :
          Sum(BandHours(bands[c], q)) = Sum([i \in DOMAIN bands[c] |-> bands[c][i][q]])
    /\ \A v \in Views :
          /\ Sum(hourly[v]) = Sum(daily[v])
          /\ Sum(hourly[v]) = Sum([i \in DOMAIN slots |-> Of(slots[i], v)])

\* The raw curve and the reference the shade map is trained against are those
\* of a site that never learned anything, and so is all of a forecast whose
\* learners answer the identity.
LabelsOwnNothing ==
    \A i \in DOMAIN slots :
        /\ \A f \in {"raw", "beamRef", "skyRef"} : slots[i][f] = plain[i][f]
        /\ plain[i].served = plain[i].raw

\* What one computation promises, over any learners and any weather.
ForecastIsDeliverable == SlotsAreDeliverable /\ BandsAreDeliverable /\ LabelsOwnNothing
=============================================================================
