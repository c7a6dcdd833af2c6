------------------------- MODULE ForecastGeneration -------------------------
(***************************************************************************)
(* Which weather and which learner state a forecast was made from: the     *)
(* update cycle with its awaits (coordinator._async_update_data, _compute), *)
(* the learner operations that run beside it, and the nightly archiving of *)
(* the issued forecast (_nightly.snapshot_issued).                         *)
(*                                                                         *)
(* Weather images and learner states are version numbers.  Update cycles   *)
(* follow one another; learner operations and the archiving exclude each   *)
(* other (LearnerOperations), but not the update cycle.                    *)
(***************************************************************************)
EXTENDS Naturals

CONSTANTS MaxWeather, \* bound on the weather images
          MaxLearner, \* bound on the learner states
          None        \* no forecast, no archive entry

ASSUME VersionAssumption == MaxWeather \in Nat /\ MaxLearner \in Nat

Origin == [weather : 0..MaxWeather, learner : 0..MaxLearner]

\* A forecast: what its curve was computed from, and what its provenance says.
Forecast == [curve : Origin, provenance : Origin]

\* An archive entry: the served forecast, the per-plane breakdown, the
\* slow-only curve and the cloud classes.
Entry == [served : Forecast, planes : Origin, slowOnly : Origin,
          clouds : 0..MaxWeather]

ASSUME NoneAssumption == None \notin Origin \cup Forecast \cup Entry

VARIABLES
    weather,   \* the cached image
    learner,   \* the learner state in memory
    cycle,     \* where the update cycle stands
    using,     \* the image the cycle read after its fetch
    binding,   \* the forecast the executor is computing
    result,    \* _last_result
    data,      \* the coordinator's data
    success,   \* last_update_success
    archiving, \* the archive pass is in its executor await
    entry,     \* what the archive pass captured before it
    issued     \* today's entry in the issued ring

cycleVars == <<cycle, using, binding>>
served == <<result, data, success>>
archive == <<archiving, entry, issued>>
vars == <<weather, learner, cycleVars, served, archive>>

Init ==
    /\ weather = 0
    /\ learner = 0
    /\ cycle = "idle"
    /\ using = 0
    /\ binding = None
    /\ result = None
    /\ data = None
    /\ success = TRUE
    /\ archiving = FALSE
    /\ entry = None
    /\ issued = None

-----------------------------------------------------------------------------
\* A cycle starts; its fetch commits a new image or leaves the old one.  The
\* cycle goes on with the image it reads here.
ReadWeather ==
    /\ cycle = "idle"
    /\ \/ weather < MaxWeather /\ weather' = weather + 1
       \/ weather' = weather
    /\ using' = weather'
    /\ cycle' = "reading"
    /\ UNCHANGED <<learner, binding, served, archive>>

Now(img) == [weather |-> img, learner |-> learner]

\* Variant: the hooks of the last result are used again.
BindStale ==
    /\ cycle = "reading"
    /\ LET origin == [weather |-> using,
                      learner |-> IF result = None THEN learner
                                  ELSE result.learner]
       IN binding' = [curve |-> origin, provenance |-> origin]
    /\ cycle' = "computing"
    /\ UNCHANGED <<weather, learner, using, served, archive>>

\* The ensemble and recorder awaits are over: hooks and provenance are taken
\* from the learner state of the same moment, and the executor starts.
Bind ==
    /\ cycle = "reading"
    /\ binding' = [curve |-> Now(using), provenance |-> Now(using)]
    /\ cycle' = "computing"
    /\ UNCHANGED <<weather, learner, using, served, archive>>

\* Variant: the provenance is taken after the executor has returned.
PublishRelabelled ==
    /\ cycle = "computing"
    /\ result' = binding.curve
    /\ data' = [binding EXCEPT !.provenance = Now(weather)]
    /\ success' = TRUE
    /\ cycle' = "idle"
    /\ binding' = None
    /\ UNCHANGED <<weather, learner, using, archive>>

Publish ==
    /\ cycle = "computing"
    /\ result' = binding.curve
    /\ data' = binding
    /\ success' = TRUE
    /\ cycle' = "idle"
    /\ binding' = None
    /\ UNCHANGED <<weather, learner, using, archive>>

\* Variant: a failed cycle keeps what it had bound.
CycleFailsUncleared ==
    /\ cycle # "idle"
    /\ success' = FALSE
    /\ cycle' = "idle"
    /\ UNCHANGED <<weather, learner, using, binding, result, data, archive>>

\* UpdateFailed, before the engine, in it, or while the payload is shaped
\* (the result is then held already); the old data stay.
CycleFails ==
    /\ cycle # "idle"
    /\ success' = FALSE
    /\ result' \in {result} \cup (IF cycle = "computing"
                                  THEN {binding.curve} ELSE {})
    /\ cycle' = "idle"
    /\ binding' = None
    /\ UNCHANGED <<weather, learner, using, data, archive>>

\* An import, a rollback, a reset or a night's training.
ChangeLearner ==
    /\ ~archiving
    /\ learner < MaxLearner
    /\ learner' = learner + 1
    /\ UNCHANGED <<weather, cycleVars, served, archive>>

-----------------------------------------------------------------------------
\* The archive pass captures the served forecast, then yields to the executor
\* for the slow-only curve.
StartArchive ==
    /\ ~archiving
    /\ data # None
    /\ success
    /\ issued = None
    /\ entry' = [served |-> data, planes |-> result,
                 slowOnly |-> Now(weather), clouds |-> weather]
    /\ archiving' = TRUE
    /\ UNCHANGED <<weather, learner, cycleVars, served, issued>>

\* Variant: only the success of the last cycle is looked at.
StillSucceeding(e) == success

\* Nothing was published or failed while the pass waited.
StillServed(e) == data = e.served /\ result = e.planes /\ success

FinishArchive ==
    /\ archiving
    /\ issued' = IF StillServed(entry) THEN entry ELSE issued
    /\ archiving' = FALSE
    /\ entry' = None
    /\ UNCHANGED <<weather, learner, cycleVars, served>>

\* The next local day.
NextDay ==
    /\ ~archiving
    /\ issued # None
    /\ issued' = None
    /\ UNCHANGED <<weather, learner, cycleVars, served, archiving, entry>>

Next ==
    \/ ReadWeather
    \/ Bind
    \/ Publish
    \/ CycleFails
    \/ ChangeLearner
    \/ StartArchive
    \/ FinishArchive
    \/ NextDay

Spec == Init /\ [][Next]_vars

(***************************************************************************)
(* Fairness: update cycles keep coming, their awaits end, and cycles that  *)
(* are not failed by the weather service or the engine come again and      *)
(* again.                                                                  *)
(***************************************************************************)
FairSpec ==
    /\ Spec
    /\ WF_vars(ReadWeather)
    /\ WF_vars(Bind \/ Publish \/ CycleFails)
    /\ SF_vars(Bind)
    /\ SF_vars(Publish)

-----------------------------------------------------------------------------
(***************************************************************************)
(* Properties.                                                             *)
(***************************************************************************)

\* Every variable has its type, and an archive pass runs only over captured
\* data.
TypeOK ==
    /\ weather \in 0..MaxWeather
    /\ learner \in 0..MaxLearner
    /\ cycle \in {"idle", "reading", "computing"}
    /\ using \in 0..MaxWeather
    /\ binding \in Forecast \cup {None}
    /\ binding # None <=> cycle = "computing"
    /\ result \in Origin \cup {None}
    /\ data \in Forecast \cup {None}
    /\ success \in BOOLEAN
    /\ archiving \in BOOLEAN
    /\ entry \in Entry \cup {None}
    /\ archiving <=> entry # None
    /\ issued \in Entry \cup {None}

\* The provenance published with a curve names what the curve was computed
\* from, although weather and learners move on while the executor computes
\* (_compute: a later change must not relabel this result).
ProvenanceTrue ==
    data # None => data.provenance = data.curve

\* The archived curve and per-plane breakdown are of one result, and of the
\* one that is served when the entry is written: a refresh or a failure that
\* overtakes the archive pass discards it.
ArchivesWhatIsServed ==
    [][issued' # None /\ issued' # issued =>
          /\ issued'.served.curve = issued'.planes
          /\ issued'.served = data
          /\ success]_vars

\* Once the learners rest, the served curve comes to be made from them.
CurveCatchesUp ==
    \A v \in 0..MaxLearner :
        <>[](learner = v) => <>[](data # None /\ data.curve.learner = v)

\* An archive entry is of one generation: slow-only curve and cloud classes
\* belong to the archived curve (snapshot_issued: retry later rather than
\* archiving mixed generations).
OneGeneration ==
    issued # None =>
        /\ issued.slowOnly = issued.served.curve
        /\ issued.clouds = issued.served.curve.weather
=============================================================================
