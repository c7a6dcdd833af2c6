------------------------------- MODULE MCCycle -------------------------------
(***************************************************************************)
(* What a tick is made of, side by side: the request to the weather         *)
(* service, the image it leaves and its age, the forecast computed from it, *)
(* and the provenance that is published.  A behaviour moves one part,       *)
(* chosen at its start; the others rest.                                    *)
(***************************************************************************)
EXTENDS ForecastGeneration, WeatherCache, FetchRetry, Engine

VARIABLE part

MovingParts == {"generation", "cache", "fetch", "engine"}

\* Irradiance by quarter of an hour: one spell of sun, and a sky that clears.
MCSkies == {[s \in 0..5 |-> IF s = 2 THEN 4 ELSE IF s = 5 THEN 2 ELSE 0], [s \in 0..5 |-> 2 * s]}

\* Answers in a partial outage: one interval, a near stretch, one with gaps,
\* and a stretch that ends further away but has fewer intervals.
MCPartialAnswers == {{1}, 1..4, {1, 3, 5}, {5, 6}}

-----------------------------------------------------------------------------
(* Two planes share an inverter, one has its own.  Slots: one without       *)
(* weather, one in the dark, a low sun behind the horizon line, a high sun  *)
(* that overloads the inverter, and light on the shaded plane alone.        *)

ByPlane(x, y, z) == [A |-> x, B |-> y, C |-> z]
MCSolarPlanes == {"A", "B", "C"}
MCClipGroups == {[planes |-> {"A", "B"}, limit |-> 72, eta |-> 90]}
Slot(usable, dark, hour, direct, sky) ==
    [usable |-> usable, dark |-> dark, hour |-> hour, direct |-> direct, sky |-> sky,
     static |-> ByPlane(100, 50, 100)]
MCSlotWeathers ==
    {Slot(FALSE, FALSE, 0, ByPlane(0, 0, 0), ByPlane(0, 0, 0)),
     Slot(TRUE, TRUE, 1, ByPlane(0, 0, 0), ByPlane(0, 0, 0)),
     Slot(TRUE, FALSE, 0, ByPlane(20, 40, 10), ByPlane(10, 10, 10)),
     Slot(TRUE, FALSE, 1, ByPlane(100, 80, 30), ByPlane(20, 20, 10)),
     Slot(TRUE, FALSE, 1, ByPlane(0, 0, 0), ByPlane(8, 0, 4))}
MCTauHooks == {NoTau, ByPlane(40, 100, 80)}
MCSlotFactors == {0, 60, 100, 150}
MCSlotBands == {<<>>, <<60, 100, 130>>, <<50, 60, 80>>}

-----------------------------------------------------------------------------
\* At rest the provider is down and the first forecast is served, so that
\* nothing is asked of a part that does not move.
CycleInit ==
    /\ part \in MovingParts
    /\ IF part = "generation" THEN Init
       ELSE /\ weather = 0 /\ learner = 0 /\ cycle = "idle" /\ using = 0
            /\ binding = None /\ result = Now(0)
            /\ data = [curve |-> Now(0), provenance |-> Now(0)]
            /\ success = TRUE /\ archiving = FALSE /\ entry = None /\ issued = None
    /\ IF part = "cache" THEN CacheInit
       ELSE /\ image = NoImage /\ fetchOk = FALSE /\ sinceAttempt = FetchInterval
            /\ cacheCycle = "idle" /\ elapsed = 0 /\ grade = "unavailable"
            /\ published = "unavailable" /\ sinceSave = SaveInterval /\ saveDue = FALSE
            /\ disk = NoImage /\ provider = "down" /\ restarts = 0
    /\ FetchInit
    /\ IF part = "engine" THEN EngineInit ELSE hooks = NeutralHooks /\ EngineInit

Only(p) ==
    /\ part = p
    /\ part' = part
    /\ p # "generation" => UNCHANGED vars
    /\ p # "cache" => UNCHANGED cacheVars
    /\ p # "fetch" => UNCHANGED fetchVars
    /\ p # "engine" => UNCHANGED engineVars

CycleNext ==
    \/ Only("generation") /\ Next
    \/ Only("cache") /\ CacheNext
    \/ Only("fetch") /\ FetchNext
    \/ Only("engine") /\ EngineNext

allVars == <<part, vars, cacheVars, fetchVars, engineVars>>

\* The parts' own fairness, of the part that moves.
CycleSpec ==
    /\ CycleInit
    /\ [][CycleNext]_allVars
    /\ WF_allVars(Only("generation") /\ ReadWeather)
    /\ WF_allVars(Only("generation") /\ (Bind \/ Publish \/ CycleFails))
    /\ SF_allVars(Only("generation") /\ Bind)
    /\ SF_allVars(Only("generation") /\ Publish)
    /\ WF_allVars(Only("cache") /\ (SkipFetch \/ StartFetch))
    /\ WF_allVars(Only("cache") /\ (FetchFails \/ FetchAnswers))
    /\ WF_allVars(Only("cache") /\ ServeForecast)
    /\ WF_allVars(Only("cache") /\ saveDue /\ Save)
    /\ WF_allVars(Only("cache") /\ Tick)

\* The part that moves keeps the types of its variables.
CycleTypeOK ==
    /\ part \in MovingParts
    /\ part = "generation" => TypeOK
    /\ part = "cache" => CacheTypeOK
    /\ part = "fetch" => FetchTypeOK
    /\ part = "engine" => EngineTypeOK
=============================================================================
