---------------------------- MODULE WeatherCache ----------------------------
(***************************************************************************)
(* The last-good weather image (_weather_cache.py), the update cycle that  *)
(* refreshes it and grades the forecast by its age                         *)
(* (coordinator._async_update_data), and its persistence behind the        *)
(* six-hour write gate (store.set_last_payload).                           *)
(*                                                                         *)
(* Time is the age of things: every clock is the time since an event, and  *)
(* stops at the bound past which the code no longer tells ages apart.  A   *)
(* cycle reads the clock once, before its awaits, so stamps and ages refer *)
(* to the start of the cycle and `elapsed' is what has passed since.       *)
(***************************************************************************)
EXTENDS Integers, FiniteSets

CONSTANTS
    RetryInterval, \* min(fetch interval, FAILED_FETCH_MIN_INTERVAL_SECONDS)
    FetchInterval, \* the configured fetch interval
    SaveInterval,  \* PAYLOAD_MIN_SAVE_INTERVAL_SECONDS
    CacheAge,      \* MAX_PAYLOAD_AGE_HOURS
    PhysicsAge,    \* MAX_PHYSICS_FALLBACK_AGE_HOURS
    Horizon,       \* future intervals of a complete answer (FORECAST_DAYS)
    Timeout,       \* bound on the awaits of one cycle
    PartialAnswers,\* the usable intervals of the answers in a partial outage
    UpdateInterval,\* bound on the time between two cycles
    MaxRestarts,   \* bound on the restarts a behaviour makes
    NoImage        \* no payload

ASSUME IntervalAssumption ==
    /\ RetryInterval \in Nat \ {0}
    /\ FetchInterval \in Nat /\ RetryInterval <= FetchInterval
    /\ SaveInterval \in Nat
    /\ CacheAge \in Nat
    /\ PhysicsAge \in Nat /\ CacheAge < PhysicsAge
    /\ Horizon \in Nat \ {0}
    /\ Timeout \in Nat
    /\ UpdateInterval \in Nat
    /\ MaxRestarts \in Nat

\* An interval is named by how long after the present it ends.  Those that
\* ended while the cycle was running count: the cycle's clock stands still.
Interval == (1 - Timeout)..Horizon

\* An answer has a usable interval in the future; it may have gaps.
ASSUME PartialAssumption ==
    \A usable \in PartialAnswers :
        usable \subseteq Interval /\ \E i \in usable : i > 0

AgeCap == PhysicsAge + Timeout + 1
Capped(n, cap) == IF n < cap THEN n + 1 ELSE cap

\* usable: its usable intervals.  age: since fetched_at.  born: since the
\* provider answered, which the program does not know.
Image == [usable : SUBSET Interval, age : 0..AgeCap, born : 0..AgeCap]

ASSUME NoImageAssumption == NoImage \notin Image

Status == {"fresh", "cached", "physics_fallback", "unavailable"}

VARIABLES
    image,        \* WeatherCache.payload and fetched_at
    fetchOk,      \* WeatherCache.fetch_ok
    sinceAttempt, \* since attempted_at; never attempted is long ago
    cacheCycle,   \* where the update cycle stands
    elapsed,      \* since the cycle read the clock, or since it ended
    grade,        \* the status this cycle computes a forecast for
    published,    \* the status of the coordinator's data
    sinceSave,    \* since _last_payload_save_at; never is long ago
    saveDue,      \* a delayed write is scheduled
    disk,         \* the image in the store file
    provider,     \* the weather service
    restarts

cache == <<image, fetchOk, sinceAttempt>>
update == <<cacheCycle, elapsed, grade, published>>
file == <<sinceSave, saveDue, disk>>
cacheVars == <<cache, update, file, provider, restarts>>

CacheInit ==
    /\ image = NoImage
    /\ fetchOk = FALSE
    /\ sinceAttempt = FetchInterval
    /\ cacheCycle = "idle"
    /\ elapsed = 0
    /\ grade = "unavailable"
    /\ published = "unavailable"
    /\ sinceSave = SaveInterval
    /\ saveDue = FALSE
    /\ disk = NoImage
    /\ provider = "up"
    /\ restarts = 0

-----------------------------------------------------------------------------
\* Variant: the interval has to be exceeded.
DueLate ==
    sinceAttempt > IF fetchOk THEN FetchInterval ELSE RetryInterval

Due ==
    sinceAttempt >= IF fetchOk THEN FetchInterval ELSE RetryInterval

StatusForAge(age, ok) ==
    IF ok /\ age < FetchInterval THEN "fresh"
    ELSE IF age <= CacheAge THEN "cached"
    ELSE IF age <= PhysicsAge THEN "physics_fallback"
    ELSE "unavailable"

\* Variant: the engine runs whatever the age.
GradeAnyway(img, ok, passed) ==
    /\ cacheCycle' = "computing"
    /\ elapsed' = passed
    /\ grade' = IF img = NoImage THEN "unavailable"
                ELSE StatusForAge(img.age - passed, ok)
    /\ published' = published

\* After the fetch decision the cycle grades the image it has by its age at
\* the start of the cycle, and either gives up or computes.
Grade(img, ok, passed) ==
    LET status == IF img = NoImage THEN "unavailable"
                  ELSE StatusForAge(img.age - passed, ok)
    IN IF status = "unavailable"
       THEN /\ cacheCycle' = "idle"
            /\ elapsed' = 0
            /\ published' = "unavailable"
            /\ grade' = grade
       ELSE /\ cacheCycle' = "computing"
            /\ elapsed' = passed
            /\ grade' = status
            /\ published' = published

\* Nothing to fetch.
SkipFetch ==
    /\ cacheCycle = "idle"
    /\ ~Due
    /\ Grade(image, fetchOk, 0)
    /\ UNCHANGED <<cache, file, provider, restarts>>

StartFetch ==
    /\ cacheCycle = "idle"
    /\ Due
    /\ elapsed' = 0
    /\ cacheCycle' = "fetching"
    /\ UNCHANGED <<cache, grade, published, file, provider, restarts>>

\* A FetchError: no answer, a malformed one or one without future coverage.
FetchFails ==
    /\ cacheCycle = "fetching"
    /\ provider = "down"
    /\ sinceAttempt' = elapsed
    /\ fetchOk' = FALSE
    /\ Grade(image, FALSE, elapsed)
    /\ UNCHANGED <<image, file, provider, restarts>>

\* How many usable intervals end after the start of the cycle, which was
\* `passed' ago: their number, not how far they reach.
FutureCoverage(usable, passed) == Cardinality({i \in usable : i + passed > 0})

\* Variant: a prior image is kept as long as it covers more.
RetainPriorForever(prior, usable, passed) ==
    /\ prior # NoImage
    /\ FutureCoverage(prior.usable, passed) > FutureCoverage(usable, passed)

\* prepare_candidate: keep a prior image that covers more of the future, as
\* long as it is within the cache age.
RetainPrior(prior, usable, passed) ==
    /\ prior # NoImage
    /\ prior.age - passed <= CacheAge
    /\ FutureCoverage(prior.usable, passed) > FutureCoverage(usable, passed)

\* Variant: the retained image takes the stamp of the answer.
ChosenRestamped(prior, usable, passed) ==
    IF RetainPrior(prior, usable, passed)
    THEN [prior EXCEPT !.age = passed]
    ELSE [usable |-> usable, age |-> passed, born |-> 0]

\* The image after an answer with these intervals, itself stamped with the
\* start of the cycle.
Chosen(prior, usable, passed) ==
    IF RetainPrior(prior, usable, passed)
    THEN prior
    ELSE [usable |-> usable, age |-> passed, born |-> 0]

\* Variant: a write that is skipped restarts the interval.
PersistPostponing ==
    /\ sinceSave' = 0
    /\ saveDue' = (saveDue \/ sinceSave >= SaveInterval)

\* persist: the image reaches the store; its file write is gated.
Persist ==
    IF sinceSave < SaveInterval
    THEN UNCHANGED <<sinceSave, saveDue>>
    ELSE sinceSave' = 0 /\ saveDue' = TRUE

\* What the provider may answer now.
Offered == IF provider = "up" THEN {Interval} ELSE PartialAnswers

\* A usable answer: the attempt clock moves in any case, the image only when
\* it is replaced.
FetchAnswers ==
    /\ cacheCycle = "fetching"
    /\ provider # "down"
    /\ sinceAttempt' = elapsed
    /\ fetchOk' = TRUE
    /\ \E usable \in Offered :
          /\ image' = Chosen(image, usable, elapsed)
          /\ IF RetainPrior(image, usable, elapsed)
             THEN UNCHANGED <<sinceSave, saveDue>>
             ELSE Persist
    /\ Grade(image', TRUE, elapsed)
    /\ UNCHANGED <<disk, provider, restarts>>

\* The engine has run and the coordinator serves the result.
ServeForecast ==
    /\ cacheCycle = "computing"
    /\ cacheCycle' = "idle"
    /\ elapsed' = 0
    /\ published' = grade
    /\ UNCHANGED <<cache, grade, file, provider, restarts>>

-----------------------------------------------------------------------------
\* A store write, for the payload or for any other section of the file.
Save ==
    /\ disk' = image
    /\ saveDue' = FALSE
    /\ UNCHANGED <<cache, update, sinceSave, provider, restarts>>

\* A new process: the stored image is adopted, without a live fetch to its
\* name.
Boot(stored) ==
    /\ restarts < MaxRestarts
    /\ restarts' = restarts + 1
    /\ image' = stored
    /\ disk' = stored
    /\ fetchOk' = FALSE
    /\ sinceAttempt' = FetchInterval
    /\ cacheCycle' = "idle"
    /\ elapsed' = 0
    /\ grade' = "unavailable"
    /\ published' = "unavailable"
    /\ sinceSave' = SaveInterval
    /\ saveDue' = FALSE
    /\ UNCHANGED provider

Restart == Boot(image)  \* the stop flushes
Crash == Boot(disk)

ProviderChanges ==
    /\ provider' \in {"up", "partial", "down"} \ {provider}
    /\ UNCHANGED <<cache, update, file, restarts>>

Older(img) ==
    IF img = NoImage THEN NoImage
    ELSE [usable |-> {i \in Interval : i + 1 \in img.usable},
          age    |-> Capped(img.age, AgeCap),
          born   |-> Capped(img.born, AgeCap)]

\* Time passes: not past a scheduled write, whose delay is short, nor past
\* what the awaits of a cycle or the wait for the next may take.
Tick ==
    /\ ~saveDue
    /\ elapsed < IF cacheCycle = "idle" THEN UpdateInterval ELSE Timeout
    /\ elapsed' = elapsed + 1
    /\ image' = Older(image)
    /\ disk' = Older(disk)
    /\ sinceAttempt' = Capped(sinceAttempt, FetchInterval + Timeout)
    /\ sinceSave' = Capped(sinceSave, SaveInterval)
    /\ UNCHANGED <<fetchOk, cacheCycle, grade, published, saveDue, provider,
                   restarts>>

CacheNext ==
    \/ SkipFetch
    \/ StartFetch
    \/ FetchFails
    \/ FetchAnswers
    \/ ServeForecast
    \/ Save
    \/ Restart
    \/ Crash
    \/ ProviderChanges
    \/ Tick

CacheSpec == CacheInit /\ [][CacheNext]_cacheVars

(***************************************************************************)
(* Fairness: the update interval keeps coming round, a fetch ends (bounded *)
(* tries with a timeout each), the engine pass ends, a scheduled write     *)
(* happens and time passes.  Nothing is assumed of the provider.           *)
(***************************************************************************)
Fairness ==
    /\ WF_cacheVars(SkipFetch \/ StartFetch)
    /\ WF_cacheVars(FetchFails \/ FetchAnswers)
    /\ WF_cacheVars(ServeForecast)
    /\ WF_cacheVars(saveDue /\ Save)
    /\ WF_cacheVars(Tick)

CacheFairSpec == CacheSpec /\ Fairness

-----------------------------------------------------------------------------
(***************************************************************************)
(* Properties.                                                             *)
(***************************************************************************)

\* Every variable has its type; the engine never runs without an image young
\* enough to be served (_async_update_data).
CacheTypeOK ==
    /\ {image, disk} \subseteq Image \cup {NoImage}
    /\ fetchOk \in BOOLEAN
    /\ sinceAttempt \in 0..(FetchInterval + Timeout)
    /\ cacheCycle \in {"idle", "fetching", "computing"}
    /\ elapsed \in 0..(IF cacheCycle = "idle" THEN UpdateInterval ELSE Timeout)
    /\ grade \in Status
    /\ published \in Status
    /\ sinceSave \in 0..SaveInterval
    /\ saveDue \in BOOLEAN
    /\ provider \in {"up", "partial", "down"}
    /\ restarts \in 0..MaxRestarts
    /\ cacheCycle = "computing" => image # NoImage /\ grade # "unavailable"

\* The age the program reports for its weather is never less than the real
\* age: a retained image is not rejuvenated by a poorer answer, nor a stored
\* one by a restart (async_refresh, restore).
AgeNotUnderstated ==
    \A img \in {image, disk} \ {NoImage} : img.born <= img.age

\* The file follows the image in memory within the write gate: a crash never
\* throws the forecast back by more than SaveInterval and the length of the
\* fetch that was written (set_last_payload).
FileFollows ==
    ~saveDue /\ image # NoImage =>
        /\ disk # NoImage
        /\ disk.age <= image.age + SaveInterval + Timeout

\* Once the provider answers completely, the forecast becomes fresh and
\* stays so, whatever was stored, retained or failed before.
BecomesFresh ==
    <>[](provider = "up") => <>[](published = "fresh")

\* As long as the provider answers at all, a forecast is served: an old but
\* richer image cannot veto its replacement for ever (prepare_candidate).
KeepsServing ==
    <>[](provider # "down") => <>[](published # "unavailable")
=============================================================================
