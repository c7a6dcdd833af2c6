------------------------------ MODULE MCLearning ------------------------------
(***************************************************************************)
(* The learners, what they are fed with and what keeps them, side by side:  *)
(* a behaviour moves one part, chosen at its start, while the others rest   *)
(* in one of their initial states.                                          *)
(***************************************************************************)
EXTENDS LearningHealth, LabelReads, InverterCalibration, ShadeMap, BiasLearner,
        QuantileBands, Scoreboard, Bootstrap, StoreFile, EntryLifecycle,
        SiteConfiguration, TLC

VARIABLE part

MovingParts == {"health", "label", "calibration", "shade", "bias", "quantile", "board",
            "bootstrap", "store", "entry", "site"}

-----------------------------------------------------------------------------
(* The site and its days.  Local day 1 has the hours 0 to 5.                *)

MCPlanes == <<"A", "B", "C">>
MCPeak == "A" :> 12 @@ "B" :> 12 @@ "C" :> 12
MCClasses == <<"clear", "fog">>

ByPlane(a, b, c) == "A" :> a @@ "B" :> b @@ "C" :> c
Each(a) == ByPlane(a, a, a)

-----------------------------------------------------------------------------
(* Labels: full days, a plane without rows of its own, a stored day of an   *)
(* older version, one with an unreadable hour and one issued at noon.       *)

MCProduced ==
    ByPlane([h \in 0..6 |-> <<0, 3, 9, 8, 5, 0, 0>>[h + 1]],
            [h \in 0..6 |-> <<0, 6, 7, 4, 6, 0, 0>>[h + 1]],
            [h \in 0..6 |-> <<0, 2, 3, 2, 1, 0, 0>>[h + 1]])

SiteCurve == [h \in 0..6 |-> MCProduced["A"][h] + MCProduced["B"][h] + MCProduced["C"][h]]

IssuedDay ==
    [raw |-> [h \in 0..6 |-> SiteCurve[h] + 1], slow |-> SiteCurve, corrected |-> SiteCurve,
     rawOf |-> MCProduced, slowOf |-> MCProduced, correctedOf |-> MCProduced,
     class |-> [h \in 0..5 |-> IF h < 3 THEN "fog" ELSE "clear"],
     part |-> [h \in 0..6 |-> IF h < 2 THEN "am" ELSE "pm"], at |-> 0]

MCIssues ==
    {IssuedDay,
     [IssuedDay EXCEPT !.rawOf = <<>>, !.slowOf = <<>>, !.correctedOf = <<>>],
     [IssuedDay EXCEPT !.at = 3],
     [IssuedDay EXCEPT !.corrected[3] = Bad, !.class = <<>>, !.at = Null]}

MCMeterings == {{"A", "B"}, {"A", "B", "C"}, {}}
MCLosses == {{}, {<<"A", 2>>, <<"B", 3>>}, {<<"A", 0>>, <<"B", 5>>}}

-----------------------------------------------------------------------------
(* Inverter calibration: in band, out of it, both, and hours without DC.    *)

CalDay(a, b, c, ac) == [dc |-> ByPlane(a, b, c), ac |-> ac]
MCKinds ==
    {CalDay(0 :> 50 @@ 1 :> 50 @@ 2 :> 95, 0 :> 50 @@ 1 :> 50 @@ 2 :> 50,
            0 :> 0 @@ 1 :> 0 @@ 2 :> 0, 0 :> 95 @@ 1 :> 93 @@ 2 :> 120),
     CalDay(0 :> 50 @@ 1 :> 50, 0 :> 50 @@ 1 :> 50, 0 :> 0 @@ 1 :> 0, 0 :> 80 @@ 1 :> 85),
     CalDay(0 :> 50 @@ 1 :> 50, 0 :> 50 @@ 1 :> 50, 0 :> 0 @@ 1 :> 0, 0 :> 70 @@ 1 :> 95),
     CalDay(0 :> 50 @@ 1 :> 50, 1 :> 50, 1 :> 0, 0 :> 70 @@ 1 :> 95)}
MCGroups == <<{"A"}, {"B", "C"}>>
MCLimit == <<100, 100>>
MCEta == <<96, 96>>

-----------------------------------------------------------------------------
(* Shade map: a clear day, a half read one, one without light, one that     *)
(* clears up, and one whose model is missing.                               *)

ShadeModel(kc) ==
    Each([beam |-> (1 :> 40 @@ 2 :> 50 @@ 3 :> 0),
          diffuse |-> (1 :> 10 @@ 2 :> 10 @@ 3 :> 5), kc |-> kc])
ShadeDay(kc, hourly) ==
    [raw |-> (1 :> 110 @@ 2 :> 140), rawOf |-> Each(1 :> 25 @@ 2 :> 30),
     modeled |-> ShadeModel(kc), hourly |-> hourly]
ClearKc == 1 :> 90 @@ 2 :> 95 @@ 3 :> 90

MCShadeKinds ==
    {ShadeDay(ClearKc, ByPlane(1 :> 34 @@ 2 :> 40 @@ 3 :> 5, 1 :> 37 @@ 2 :> 44, 1 :> 40 @@ 2 :> 48)),
     ShadeDay(ClearKc, ByPlane(1 :> 34 @@ 2 :> 40, 1 :> 50 @@ 2 :> 9, 2 :> 58)),
     ShadeDay(ClearKc, ByPlane(1 :> 3, 1 :> 5 @@ 2 :> 9, 2 :> 8)),
     [ShadeDay(1 :> 50 @@ 2 :> 95, ByPlane(1 :> 30 @@ 2 :> 50, 1 :> 50 @@ 2 :> 60, 1 :> 40 @@ 2 :> 38))
         EXCEPT !.modeled["C"].beam = (1 :> 4 @@ 2 :> 50)],
     [ShadeDay(ClearKc, Each(1 :> 50)) EXCEPT !.modeled = <<>>]}
MCGroupings == {ByPlane("A", "B", "C"), ByPlane("A", "A", "C"), Each("G")}
MCShadeImports ==
    {"A" :> (<<20, 4, 0>> :> [tau |-> 60, n |-> 5] @@ <<23, 12, 0>> :> [tau |-> Bad, n |-> 0]) @@ "G" :> (<<20, 4, 0>> :> [tau |-> 110, n |-> 1])}
MCSun == 1 :> [az |-> 100, el |-> 10] @@ 2 :> [az |-> 118, el |-> 25] @@ 3 :> [az |-> 140, el |-> -2]
MCWp == Each(100)
MCStatic == Each(1 :> 100 @@ 2 :> 40 @@ 3 :> 0)

-----------------------------------------------------------------------------
(* Bias: days the forecast overstates, a plane read in part, and a day of   *)
(* an older version with daily totals alone; two sites share a fingerprint. *)

BiasCurve(x, y) == 1 :> x @@ 2 :> y @@ 3 :> y
BiasIssued ==
    [raw |-> BiasCurve(30, 40),
     rawOf |-> ByPlane(BiasCurve(10, 10), BiasCurve(10, 20), BiasCurve(10, 10)),
     slow |-> BiasCurve(24, 36), slowOf |-> Each(BiasCurve(8, 12)),
     class |-> (1 :> "fog" @@ 2 :> "clear" @@ 3 :> "clear"),
     part |-> (1 :> "morning" @@ 2 :> "midday" @@ 3 :> "afternoon")]
BiasLabel(x, y) == [hourly |-> Each(BiasCurve(x, y)), daily |-> Each(x + 2 * y)]
MCBiasKinds ==
    {[issued |-> BiasIssued, label |-> BiasLabel(6, 15)],
     [issued |-> BiasIssued, label |-> BiasLabel(2, 10)],
     [issued |-> BiasIssued,
      label |-> [BiasLabel(8, 20) EXCEPT !.hourly["A"] = (2 :> 20), !.daily["A"] = 20]],
     [issued |-> [BiasIssued EXCEPT !.slow = <<>>, !.slowOf = <<>>],
      label |-> [BiasLabel(1, 14) EXCEPT !.hourly = <<>>]]}
MCBiasSites == {"s", "t", "u"}
MCPrintOf == "s" :> "f1" @@ "t" :> "f1" @@ "u" :> "f2"
MCParts == <<"morning", "midday", "afternoon">>

-----------------------------------------------------------------------------
(* Quantile bands: rings of older versions, and two ensembles.              *)

QCurve(x, y, z) == 0 :> 1 @@ 1 :> x @@ 2 :> y @@ 3 :> z
QIssued ==
    [raw |-> QCurve(30, 60, 60), corrected |-> QCurve(30, 60, 60),
     correctedOf |-> Each(QCurve(10, 20, 20)),
     class |-> (1 :> "clear" @@ 2 :> "clear" @@ 3 :> "clear"),
     part |-> (0 :> "am" @@ 1 :> "am" @@ 2 :> "am" @@ 3 :> "am")]
QLabel(x, y, z) == [hourly |-> Each(QCurve(x, y, z)), daily |-> Each(x + y + z + 1)]
MCQKinds ==
    {[issued |-> QIssued, label |-> QLabel(6, 15, 30)],
     [issued |-> [QIssued EXCEPT !.class = (1 :> "fog")], label |-> QLabel(11, 20, 9)],
     [issued |-> [QIssued EXCEPT !.corrected = <<>>, !.correctedOf = <<>>],
      label |-> [QLabel(5, 5, 5) EXCEPT !.hourly["A"] = <<>>]]}

QSample(d, e, f) == [day |-> d, err |-> e, from |-> f]
QBin == <<"clear", "am">>
MCLegacyRings ==
    {<<>>,
     QBin :> <<QSample(Null, 50, -9), QSample(Null, 90, -9), QSample(Null, 130, -8)>>,
     QBin :> <<QSample(Null, 50, -9), QSample(Null, 90, -9)>>,
     QBin :> <<QSample(-3, 50, -3), QSample(-1, 90, -1), QSample(-1, 120, -1)>>,
     QBin :> <<QSample(Null, 100, -7), QSample(-1, 100, -1), QSample(-1, 120, -1)>>}
MCQSlots == 1 :> [class |-> "clear", part |-> "am"] @@ 2 :> [class |-> "fog", part |-> "am"]
MCMembers ==
    {1 :> <<50, 100, 180>> @@ 2 :> <<90, Bad, 95>>,
     1 :> <<100, 110, 105>> @@ 2 :> <<50, 20, 30>> @@ 3 :> <<1, 1, 1>>}
MCDet == 1 :> 100 @@ 2 :> 80 @@ 3 :> 2

-----------------------------------------------------------------------------
(* Scoreboard: a scored day, one of an older version, and one unmetered.    *)

BoardCurve(x, y, z) == 0 :> 1 @@ 1 :> x @@ 2 :> y @@ 3 :> z @@ 4 :> 1
BoardIssued(x, y, z) ==
    [raw |-> BoardCurve(3 * x, 3 * y, 3 * z), rawOf |-> Each(BoardCurve(x, y, z)),
     corrected |-> BoardCurve(3 * x, 3 * y, 3 * z), correctedOf |-> Each(BoardCurve(x, y, z)),
     class |-> (1 :> "fog" @@ 2 :> "fog" @@ 3 :> "clear"), at |-> Null]
BoardLabel(x, y, z) ==
    [hourly |-> Each(BoardCurve(x, y, z)), daily |-> Each(x + y + z + 2)]
MCBoardKinds ==
    {[issued |-> BoardIssued(4, 5, 6), label |-> BoardLabel(5, 5, 5), metered |-> {"A", "B", "C"}],
     [issued |-> [BoardIssued(2, 5, 6) EXCEPT !.corrected = <<>>, !.correctedOf = <<>>,
                                              !.class = <<>>, !.raw = BoardCurve(7, 7, 7)],
      label |-> BoardLabel(2, 2, 3), metered |-> {"A", "B", "C"}],
     [issued |-> BoardIssued(4, 5, 6), label |-> BoardLabel(0, 0, 0), metered |-> {}]}

-----------------------------------------------------------------------------
(* Bootstrap: weather without snow, analysis without an hour of the third   *)
(* day, and five kinds of recorded days.                                    *)

BootWeather(h) == [yield |-> <<0, 8, 9, 7, 5, 0>>[(h % 6) + 1], clear |-> h \div 6 # 1, snow |-> FALSE]
MCIssuedArchive == [s \in 1..24 |-> BootWeather(s - 1)]
MCAnalysisArchive == [s \in 1..24 |-> IF s = 14 THEN Null ELSE BootWeather(s - 1)]

BootGood == <<0, 8, 7, 6, 5, 0>>
BootRows(a, b) ==
    "A" :> [k \in 0..5 |-> a[k + 1]] @@ "B" :> [k \in 0..5 |-> b[k + 1]]
MCDayStats ==
    {BootRows(BootGood, BootGood),
     BootRows(BootGood, <<0, 8, 8, 6, 5, 0>>),
     BootRows(BootGood, <<0, 8, 90, 6, 5, 0>>),
     BootRows(BootGood, <<0, Null, Null, 6, 5, 0>>),
     BootRows(<<0, 1, 0, 0, 0, 0>>, <<0, 0, 1, 0, 0, 0>>)}
MCBootRanges == {[first |-> 1, last |-> 3, dry |-> FALSE], [first |-> 2, last |-> 4, dry |-> TRUE]}
MCBootMetered == {"A", "B"}

-----------------------------------------------------------------------------
(* The store file: files of four schemas, those of 1 and 3 also with one    *)
(* section broken, what the running program writes, and imports that are    *)
(* and are not ours.                                                        *)

Cell == [factor |-> 2, n |-> 1]
Cells1 == [version |-> 1, cells |-> (1 :> Cell)]
FirstDrift ==
    [version |-> 1, mae |-> (1 :> "row"), fastStreak |-> 1, fastOff |-> TRUE,
     slowStreak |-> 1, slowOff |-> FALSE, frozen |-> Null]
SoundSections ==
    [payload |-> [payload |-> "p", fetched |-> "t"],
     issued |-> (1 :> "row" @@ 2 :> "row"), actuals |-> (2 :> "row"),
     comparison |-> (1 :> "row"), hourly |-> (2 :> {"row"}),
     bias |-> Cells1, scores |-> Cells1,
     shade |-> [version |-> 1, cells |-> (1 :> (1 :> Cell))],
     quantile |-> [bins |-> (1 :> <<[date |-> 1, err |-> 2], [date |-> Null, err |-> 1]>>)],
     drift |-> [version |-> 2, mae |-> (1 :> "row"), fastStreak |-> 0, fastOff |-> FALSE,
                slowStreak |-> 1, slowOff |-> FALSE, dayAheadStreak |-> 1,
                dayAheadOff |-> TRUE, dayAheadSeen |-> FALSE, frozen |-> 2],
     snapshots |-> <<[bias |-> Cells1, shade |-> [version |-> 1, cells |-> <<>>], quantile |-> Null]>>,
     trained |-> {1, 2}, inverterDays |-> {2}, calibration |-> [eta |-> 2, n |-> 1],
     fingerprint |-> "f",
     health |-> [streak |-> 2, oobStreak |-> 1, reason |-> "dead_channel", modules |-> {"A"},
                 discarded |-> 2, accepted |-> 1, checked |-> 2, oobDay |-> 2, oobMedian |-> 3],
     audit |-> [day |-> 1, counts |-> 1, last |-> [offset |-> 1, refreshed |-> TRUE]]]
MCSound ==
    [s \in DOMAIN SoundSections |->
        {SoundSections[s]} \cup IF s = "drift" THEN {FirstDrift} ELSE {}]

BrokenShade == [version |-> 1, cells |-> (1 :> (1 :> [factor |-> 9, n |-> -1] @@ 2 :> Bad) @@ 2 :> Bad)]
Broken ==
    [payload |-> {[payload |-> Bad, fetched |-> "t"]},
     issued |-> {1 :> Bad @@ 2 :> "row" @@ BadKey :> "row"},
     actuals |-> {2 :> Bad}, comparison |-> {2 :> Bad},
     hourly |-> {1 :> {Bad} @@ 2 :> {Bad, "row"} @@ 3 :> Bad},
     bias |-> {[version |-> 2, cells |-> (1 :> Cell)],
               [version |-> Null, cells |-> (1 :> [factor |-> Bad, n |-> 7] @@ BadKey :> Cell @@ 2 :> Bad)]},
     scores |-> {[version |-> 1, cells |-> Bad]}, shade |-> {BrokenShade},
     quantile |-> {[bins |-> (1 :> <<Bad, [date |-> Bad, err |-> 9]>> @@ 2 :> <<Bad>> @@ 3 :> Bad)]},
     drift |-> {[slowStreak |-> -1, frozen |-> Bad]},
     snapshots |-> {<<Bad, [bias |-> Bad, shade |-> Null, quantile |-> Bad]>>},
     trained |-> {{BadKey, 1, 2, 3}}, inverterDays |-> {{1, 2, 3}},
     calibration |-> {[eta |-> Bad, n |-> -2]}, fingerprint |-> {Bad},
     health |-> {[streak |-> -1, reason |-> "unknown", modules |-> {"A", Bad}, discarded |-> Bad],
                 [oobStreak |-> Bad, modules |-> Bad, oobMedian |-> Bad]},
     audit |-> {[day |-> Bad, counts |-> -1, last |-> [offset |-> 5, refreshed |-> Bad]],
                [day |-> 1, counts |-> 0, last |-> Bad]}]

KnownTo(v) ==
    IF v >= 3 THEN Sections ELSE IF v = 2 THEN OldSections \cup LearnerSections ELSE OldSections
SoundFile(v) ==
    [s \in KnownTo(v) |-> IF s = "drift" /\ v = 2 THEN FirstDrift ELSE SoundSections[s]]
MCFiles ==
    {Null, Bad} \cup {[schema |-> v, sections |-> SoundFile(v)] : v \in 1..4}
    \cup UNION {{[schema |-> v, sections |-> [SoundFile(v) EXCEPT ![s] = x]] :
                    x \in {Bad} \cup Broken[s]} : <<v, s>> \in
                    {<<v, s>> \in {1, 3} \X Sections : s \in KnownTo(v)}}
MCWritten ==
    [issued |-> {3}, actuals |-> {1}, hourly |-> {1, 3}, trained |-> {3},
     drift |-> {SoundSections["drift"]}, shade |-> {SoundSections["shade"]},
     health |-> {[SoundSections["health"] EXCEPT !.reason = "implausible_channel"]},
     quantile |-> {SoundSections["quantile"]}, snapshots |-> {SoundSections["snapshots"][1]}]
MCPayloads ==
    {Bad, [schema |-> 2, signature |-> "site"], [schema |-> 1, signature |-> "elsewhere"],
     [schema |-> 1, signature |-> "site", bias |-> [version |-> 1, cells |-> (2 :> Cell)],
      shade |-> [version |-> 1, cells |-> (1 :> (1 :> [factor |-> 1, n |-> 2]))], quantile |-> Null],
     [schema |-> 1, signature |-> Null, bias |-> Null, shade |-> BrokenShade]}

-----------------------------------------------------------------------------
(* Configuration: every form moves the site that its object has.            *)

Row(az, el, tau, points) ==
    [az |-> az, el |-> el, tau |-> tau, seasonal |-> FALSE, points |-> points, bare |-> Null]
Module(name, meter, panel, horizon) ==
    [name |-> name, label |-> Null, meter |-> meter, shade |-> Null, panel |-> panel, horizon |-> horizon]
Inverter(name, members, limit) == [name |-> name, members |-> members, limit |-> limit]
SiteOf(planes, groups) == [lat |-> 1, albedo |-> Null, ac |-> Null, planes |-> planes, groups |-> groups]
FormOf(s, lat, ac) == [site |-> s, lat |-> lat, ac |-> ac, albedo |-> Null, cadence |-> 300]

East == Module("a", "m1", "south",
               <<Row(200, 10, 40, Null), Row(90, 20, 0, <<<<5, 30>>, <<15, 60>>>>)>>)
West == Module("b", "m2", "east", <<>>)
TwoModules(x, y) == SiteOf(<<x, y>>, <<Inverter("i", <<"a", "b">>, 800)>>)
PlainSite == TwoModules(East, West)

\* The last six are refused: a meter of two roles, a pool that takes a plane's
\* channel, a point above its edge, a port of two inverters, no power sensor,
\* and no site.
MCSiteForms ==
    {FormOf(PlainSite, 2, Null),
     FormOf(TwoModules([East EXCEPT !.label = "left"], [West EXCEPT !.meter = "m3"]), 2, "ac"),
     FormOf(TwoModules([East EXCEPT !.shade = "g"], [West EXCEPT !.shade = "g"]), 2, Null),
     FormOf(PlainSite, 2, "m1"),
     FormOf(TwoModules([East EXCEPT !.shade = "b"], West), 2, Null),
     FormOf(TwoModules([East EXCEPT !.horizon = <<Row(90, 10, 0, <<<<20, 30>>>>)>>], West), 2, Null),
     FormOf(SiteOf(<<East, West>>, <<Inverter("i", <<"a", "b">>, 800),
                                     Inverter("k", <<"b">>, 400)>>), 2, Null),
     FormOf(PlainSite, 2, "door"),
     FormOf(Bad, 2, Null)}
MCGuidedPanels == {[plane |-> East, group |-> "i", limit |-> l] : l \in {400, 800}}
MCLegacyOptions == {<<>>, [site |-> [PlainSite EXCEPT !.lat = 3], lat |-> 3, comparison |-> <<>>]}
MCNonPower == {"door"}

-----------------------------------------------------------------------------
(* Behaviours.                                                              *)

\* A part that does not move rests where it would start, without its inputs.
LearningInit ==
    /\ part \in MovingParts
    /\ IF part = "health" THEN Init ELSE absent = FALSE /\ Init
    /\ IF part = "label" THEN LabelInit
       ELSE LabelIdle /\ faults = <<>> /\ missing = {} /\ issuedDay = Null /\ metered = {}
    /\ IF part = "calibration" THEN CalInit ELSE CalIdle /\ calKind = <<>>
    /\ IF part = "shade" THEN ShadeInit ELSE grouping = ByPlane("A", "B", "C") /\ ShadeInit
    /\ IF part = "bias" THEN BiasInit ELSE biasSite = "s" /\ BiasInit
    /\ IF part = "quantile" THEN QInit ELSE rings = <<>> /\ QInit
    /\ IF part = "board" THEN BoardInit ELSE window = 1 /\ BoardIdle /\ boardKind = <<>>
    /\ IF part = "bootstrap" THEN BootInit ELSE BootIdle /\ stats = <<>>
    /\ IF part = "store" THEN StoreInit ELSE StoreIdle /\ file = Null /\ memory = <<>>
    /\ IF part = "entry" THEN EntryInit ELSE core = "running" /\ EntryInit
    /\ ConfigInit

\* The other parts stay where they are.
Only(p) ==
    /\ part = p
    /\ part' = part
    /\ p # "health" => UNCHANGED vars
    /\ p # "label" => UNCHANGED labelVars
    /\ p # "calibration" => UNCHANGED calVars
    /\ p # "shade" => UNCHANGED shadeVars
    /\ p # "bias" => UNCHANGED biasVars
    /\ p # "quantile" => UNCHANGED qVars
    /\ p # "board" => UNCHANGED boardVars
    /\ p # "bootstrap" => UNCHANGED bootVars
    /\ p # "store" => UNCHANGED storeVars
    /\ p # "entry" => UNCHANGED entryVars
    /\ p # "site" => UNCHANGED siteVars

LearningNext ==
    \/ Only("health") /\ Next
    \/ Only("label") /\ LabelNext
    \/ Only("calibration") /\ CalNext
    \/ Only("shade") /\ ShadeNext
    \/ Only("bias") /\ BiasNext
    \/ Only("quantile") /\ QNext
    \/ Only("board") /\ BoardNext
    \/ Only("bootstrap") /\ BootNext
    \/ Only("store") /\ StoreNext
    \/ Only("entry") /\ EntryNext
    \/ Only("site") /\ ConfigNext

learningVars ==
    <<part, vars, labelVars, calVars, shadeVars, biasVars, qVars, boardVars, bootVars,
      storeVars, entryVars, siteVars>>

LearningSpec == LearningInit /\ [][LearningNext]_learningVars

\* The part that moves keeps the types of its variables.
LearningTypeOK ==
    /\ part \in MovingParts
    /\ part = "health" => TypeOK
    /\ part = "label" => LabelTypeOK
    /\ part = "calibration" => CalTypeOK
    /\ part = "shade" => ShadeTypeOK
    /\ part = "bias" => BiasTypeOK
    /\ part = "quantile" => QTypeOK
    /\ part = "board" => BoardTypeOK
    /\ part = "bootstrap" => BootTypeOK
    /\ part = "store" => StoreTypeOK
    /\ part = "entry" => EntryTypeOK
    /\ part = "site" => ConfigTypeOK
=============================================================================
