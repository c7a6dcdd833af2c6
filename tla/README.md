# Verification of Balcony Solar Forecast

TLA+ models of the Home Assistant integration `balcony_solar_forecast`
(`src/custom_components/balcony_solar_forecast/`, German specification in
`src/docs/SPEC.md`), TLC runs on small instances, and TLAPS proofs for every
value of the constants.

1. [The system](#1-the-system)
2. [What is hard about it](#2-what-is-hard-about-it)
3. [The modules](#3-the-modules)
4. [The runs](#4-the-runs)
5. [The proofs](#5-the-proofs)
6. [What the models found](#6-what-the-models-found)
7. [What is not modelled](#7-what-is-not-modelled)
8. [Plan](#8-plan)

Everything is in one directory. `tlc -config X.cfg M` repeats a run, `tlapm M.tla`
a proof. `PROJECT.json` maps every definition to the lines it models, names
for each property a plausible bug that TLC finds with it (the operators
commented `Variant:` in the modules), and lists the hazards by line.

## 1. The system

The integration fetches a weather forecast from Open-Meteo, computes the
expected production of a balcony plant, corrects it with learned layers, and
each night trains those layers from the production that Home Assistant's
recorder has measured. It is one asyncio program: code runs without
interruption between two `await`s; physics and recorder reads run in
executors, with their inputs captured before.

| Component | State it keeps | Operations | Talks to | Correct when |
|---|---|---|---|---|
| Learner gate (`_operations.py`) | closed flag, owner, task table, an `asyncio.Lock` | enter tracked, enter locked, nested entry, close | every service, the nightly job, the update cycle, unload | learner operations never interleave; nobody is forgotten; after the stop nothing writes |
| Nightly job (`_nightly.py`, `core/training_plan.py`) | none of its own | archive today's forecast, read labels, train, judge, freeze, restore | store, recorder, learners | every night counts once, whatever repeats |
| Store (`store.py`) | one JSON section per concern, delayed write | load, migrate, record, push snapshot, import, flush | file | a restart resumes where the file says |
| Weather cache (`_weather_cache.py`) | last-good payload, its age, retry clock | due, refresh, restore, grade | fetcher, store, coordinator | ages are honest; a good provider makes the forecast fresh |
| Update cycle (`coordinator.py`) | published data, last result, transient intraday ring | refresh, compute, publish | weather cache, executor, learners | what is published says truly what it was made from |
| Learner configuration (`coordinator.py`, `_services.py`) | layer switches, auto-disable flags, loss streaks | rebuild on reload, rollback, reset, import | store, nightly job | a disabled layer returns only by the operator's hand |
| Learning visibility (`_channel_health.py`) | discard streak, efficiency streak, channel verdict, repair cards | check channels, fold a read outcome, fold an efficiency verdict | nightly job, store, issue registry | the cards tell what is wrong, once |
| Curve audit (`coordinator.py`) | headline and revision counters per day | tick, roll over | update cycle, store | a revision is counted under its own day |
| Fetcher (`fetcher.py`) | none | bounded tries with back-off, validation, parsing | Open-Meteo | the cycle always ends; only the transient is retried; forecast and ensemble mean the same hour |
| Intraday scalar (`core/intraday.py`, `core/bias.py`) | window of samples, one re-arm per restart | sample, scale, re-arm | update cycle | stays inside its clamps, decays to one |
| Shade map (`core/shademap.py`) | per channel and sun bin a transmittance and a count | train a clear day, pool, suggest groups, cap an import | nightly job, engine | a sample counts once, whatever is grouped |
| Day-ahead bias (`core/bias.py`) | a least-squares cell per cloud class and day part | train, blend, reseed, reset | nightly job, engine, store | a cell follows the site it is applied to; no steps |
| Quantile bands (`core/quantiles.py`, `core/ensembleband.py`) | a ring of relative errors per class and day part | train, trim, read, fuse with the ensemble | nightly job, fetcher, engine | a band has its evidence; an ensemble only widens it |
| Scoreboard (`core/scoreboard.py`, `_scoreboard_glue.py`) | dated scores in a window | score a closed day, summarise | nightly job | shows the newest days, each once |
| Inverter calibration (`core/inverter_cal.py`) | learned efficiency, day markers, out-of-band streak | fold a day's ratios, judge the day | nightly job, repair cards | an hour is folded once, a day counted once |
| Label gates (`_actuals.py`, `core/measurement_quality.py`) | last dropout reason | read a day, accept or discard | recorder, nightly job | half a measurement is no label; both sides of a comparison are of the same planes and hours |
| Bootstrap (`_bootstrap.py`, `core/bootstrap_build.py`) | none | fetch, walk the days, import | recorder, Open-Meteo archive, gate | walks forward: no day is judged with what it taught |
| Configuration (`config_flow.py`, `_site_validation.py`, `core/config_fingerprint.py`) | entry data and options, fingerprint | validate, confirm, compare, reseed | setup, store | what was confirmed is what is served |
| Entry (`__init__.py`) | one coordinator and store per setup | set up, retry, reload, unload, remove | Home Assistant | one setup listens; what was flushed stays |
| Engine and physics (`core/engine.py`, `core/electrical.py`) | none | compute slot by slot | update cycle | what is promised can be delivered |
| Entities, cards, dashboards, diagnostics | none | present | coordinator | — |

How they interact over a day: the update interval starts a cycle
(`_async_update_data`), which refreshes the weather cache, binds the learned
layers and computes in an executor. At 01:30, and once after every start, the
nightly job enters the gate, archives the forecast issued for today, asks the
recorder for each of the last three closed days that has no label, and
trains and judges the layers on every day not trained yet. Services (bootstrap, import,
rollback, reset) go through the same gate. A changed option unloads and sets
up the entry again. Everything persistent goes through one store whose write
is delayed and flushed by the stop.

## 2. What is hard about it

- **Order inside the lock.** `asyncio.Lock.release` wakes a waiter but leaves the
  lock free until that waiter runs; cancellation may hit anyone in between,
  and the gate adds re-entry by the same task and a close that cancels all.
- **Repetition.** The night's sweep runs after every start and revisits three
  days. Labels arrive late and out of order, the file is written later than
  memory, a process may die between. Each fold is protected only by a marker.
- **History found by position.** The state restored at an auto-disable is found by
  counting entries of a ring that other events push into.
- **Values captured before an await.** The archive pass, the update cycle and the
  bootstrap all use, after an await, something they read before.
- **Honest age.** A retained image must not look younger when a poorer answer
  arrives, nor after a restart; yet it must not veto its replacement for ever.
- **One curve, two readers.** The intraday scalar must shape the served curve and must not
  show in the headline of the day; it is divided out again after two clamps.
- **Counters of a day.** The revision audit rolls over on the first tick of a day, from memory or
  from a file that may be a tick old; the sample ring is filled from two sources.
- **Same planes, same hours.** Measured and modeled energy are compared in four places, each after
  rows, channels or whole meters may have gone missing on one side only.
- **Evidence that outlives its site.** Cells, rings and snapshots survive a reconfiguration, a
  regrouping, an import and a rollback; each has its own rule for what of them still counts.
- **A file of any age.** Four schemas, every section possibly broken, and whatever the coercers drop
  on the way out is gone at the next start.
- **Stores that outlive their setup.** A setup that fails leaves a store behind whose delayed write is
  still scheduled.
- **Two files and a memory.** The discard streak is in the store, its card in the
  issue registry, the verdict that suppresses the card in memory.

## 3. The modules

Data is abstracted to what the properties tell apart (a learner state is a bag of days, a weather image its
age and its usable intervals), control is kept.

**SerialLearner** — what the gate promises: one holder at a time, changes only
by the holder, nothing after the final write. Six definitions.

**LearnerOperations** — the gate with the `asyncio.Lock` below it. `tasks`,
`owner`, `closed` are the fields of `_operations.LearnerOperations`; `locked`, `waiters`, `future`
those of the lock (external: modelled from CPython's documented behaviour,
which `work()` relies on); `pc` says where a task stands between awaits. One action
per stretch between awaits: `Start`, `EnterTracked`/`EnterLocked`/`Enqueue`,
`Granted`, `LeaveQueue` (a cancelled waiter), `ChangeLearner`, `StorePayload`,
`EnterNested`/`LeaveNested`, `Leave`/`Unwind`, `DelayedSave`, `Close`, `Flush`. A cancelled
task is only marked and unwinds when it next runs. `basis` records which
learner version a task last saw, so that `ExclusiveUse` can say it is still
current. The bootstrap's rejection of a second run while the lock is held is
in `Start`.

**NightlyLearning** — the sweep and all that replaces learned state. `store` is
`ForecastStore._data` together with the coordinator's working copies (they are
written together, between awaits); `disk` is the file. `TrainAndGuard` composes,
in the order of `train_and_guard`, the snapshot push, the freeze, the geometric
layers, the empirical layers with the drift judgement, and the marker. `AbortedDay` is the error path:
a step raises, the sweep's `except` goes on with the next day. A measured day
is a record of what the code concludes from it: collapsed or not, which
layer loses, whether it is clear enough for the shade map. Time is two clocks, because the
ring is keyed by UTC date and the night by local date; the UTC date lags, as it does
east of Greenwich, where the plant is. `Rebuild` is `rebuild_learner_config`.

**WeatherCache** — the last-good image, its age ladder and its file. Time is
relative: each clock is the time since its event, capped past the last
boundary at which the code distinguishes. `born` is the true time since the
provider answered, which the program does not know and only the properties use. An answer is
the set of its usable intervals, each named by when it ends; `PartialAnswers` are those of a partial outage, with gaps.
`FutureCoverage` counts what lies ahead, as `future_coverage` does; `RetainPrior` and `Chosen` are `prepare_candidate` and the end of
`async_refresh`; `Persist` is the write gate of `set_last_payload`.

**ForecastGeneration** — the update cycle's awaits against learner operations and
the archive pass. Images and learner states are version numbers; a forecast
carries what its curve was computed from and what its provenance claims.

**LearningHealth** — the channel check, the discard streak and the cards.
`summary` is `coord._channel_health`, gone with every restart; `cards` is the
issue registry, which is persistent; `Coerced` is the store's coercion when the section is
written. `phase` separates a cold boot, where the sweep may run before the check, from a reload.
Reads of a day answer anew each night until the day is accepted.

**IntradayScalar** — the fast learner: `ring` and `scalar` of the coordinator, the one-shot re-arm,
the rate limit. Time is slots of 15 minutes. `Sampled` is `_build_intraday_sample` with
its early returns as choices; `Reconstructed` is any subset of the past slots, because the recorder
may miss rows. A sample is the ratio of measured to modeled; the weights (recency times
energy) are abstracted to what every weighting has in common: `Computed` is any value between
the smallest and the largest capped ratio in the window. The ring is not trimmed when
nothing is sampled, as in the code, so `Usable` has to look at the age.

**CurveAudit** — extends it by the published headlines and the audit of their revisions. `Factored`
and `Served` are a slot before and after the engine's second clamp, in integers chosen such
that the code's divisions are exact; `ScalarFree` is `_dayahead_slot_strips`; `RolledOver` and `Revised` are
`_track_headline_revisions`; `Tick` is `_async_update_data` as far as these states go, `TickFails` the
same when the engine raises. `log` keeps the counts of every day and is only for the
properties. `disk` is the store's section behind its delayed write. `Fetch` gives one day
a new curve, `Relearn` a new day-ahead factor.

**Values** — the two values that are no values (`Null` for an absent or `None`, `Bad` for a value of a
wrong kind) and the helpers of records and dated rings that the modules below share.

**FetchRetry** — one tick's request for the forecast and, if enabled, one for the ensemble. `phase` says what the
tick awaits; `ErrorAnswer` and `BodyAnswer` end an attempt, `Retryable` says which failures are tried again and
`Delays` how long the tick waits, by its own back-off or for the server's `Retry-After`. `ParseWeather` and
`ParseEnsemble` are what the parsers make of a body whose hourly values belong to the hour that ends at
their stamp, `Verdict` which bodies they refuse, `SpreadOf` the comparison of both.

**Engine** — a forecast slot by slot: the raw curve behind the static horizon, the learned curve, the fast
factor, the inverters' limits before and after it, the AC curve and the bands, and `plain`, the same slots for a site
that never learned anything. Irradiance arrives on the planes; watts are integers, so a share is rounded down.

**MeasuredDay** — one closed day: the label gates of the recorder's rows (`ChannelGate`, `Covered`, `Gate`),
the reduction of both sides to the same planes and hours (`SiteMeasured`, `MeteredModeled`), and what is
computed from a day for the learners and the scoreboard. No state; seven modules extend it.

**LabelReads** — one such day over the sweeps: rows appear in the recorder, channels fail, planes gain and lose
their meter, until the day has its label, its training and its score.

**InverterCalibration** — the site's efficiency and the watchdog beside it. `folded` and `counted` are
histories of which hours and which days are behind the numbers, in memory and in the file.

**ShadeMap** — bins of a transmittance and a count per channel. `grouping` is the configuration's shade
groups, which only the reader uses; `samples` is the history of the values behind each bin, by the night and the place
in the night they came from.

**BiasLearner** — the cells in memory and in the file, over nights, saves, reloads and crashes with the same or
another configuration. A cell keeps the inverse of its covariance, so that a reseed is a small number. `since` is
the history of the ratios a cell has seen since it was last opened.

**QuantileBands** — rings whose samples may come from files of older versions without a date. `from` is the day a
sample is really from, which only the properties use. `ReadRing` is the trim at reading; `Fused` the widening.

**Scoreboard** — days are scored when both their label and their forecast are there, again in every sweep, and
the window is an option. `narrowest` is the history of the options.

**Bootstrap** — the reconstruction: windows of weather, the recorder's hours, then day after day. `acc` keeps
from which days each learned thing comes and against the curve of which days a residual was formed. What is imported
is its end: `SeededRing` keeps the residuals of the window before the last day, the first day of it included.

**StoreFile** — the file: validation and migration of every section, that of the learning health included, the coercions on the way out and in,
bootstrap import with its snapshot. A JSON object is a function, a list a sequence. `Clean` says what the
dataclasses of a section hold; `FilesAssumption` asks of the constants that what any version wrote is clean, that lists are lists, dates
are dates and a file has only sections of its schema. Any value of any section may be broken.

**SiteConfiguration** — setup, reconfiguration, guided form and options of a site, the validation, the confirmation and
what a load makes of the entry. `confirmed`, `announced` and `restarts` are histories of what the user was told.

**EntryLifecycle** — setups of one entry over one file. `instances` holds one coordinator with its store per
setup; an abandoned one keeps its pending write.

`MCNightlyLearning` and `MCCurveAudit` hold label sets, plants and curves for TLC. `MCCycle` and `MCLearning` put
modules side by side that share no variable: a behaviour moves one part, chosen at its start, while the others rest
in an initial state. That costs nothing (the states add up, they do not multiply) and loses nothing: the
parts meet only through what each of them already takes as an input (a label, a weather image, a learned factor).
The `...Proofs` modules hold theorems.

They compose by the gate: `LearnerOperations` shows that the nightly job, imports,
rollbacks and resets are serialised, and `NightlyLearning` and `ForecastGeneration` use exactly that
(`Intervene` waits for `pending = {}`, the archive pass excludes `ChangeLearner`).

## 4. The runs

| Run | Question | Bounds, and why they are enough |
|---|---|---|
| `gate` | Is the serial learner implemented, every waiter served, does a stop end, does anything outlive the final write? | 3 tasks: holder, waiter, newcomer, which every race of the lock needs. 2 stops: unload and the stop event. 1 change. No symmetry, for the temporal properties. |
| `nightly_sweeps` | Does repetition, lateness or a crash count a night twice, miss one, or learn from a collapse? | 4 days, window 2, streak 2, ring 3: a label can be late by a day, a streak complete and start again, the ring overflow. No interventions. |
| `nightly_operator` | Does what the watchdog switched off stay off under imports, rollbacks, resets, options, restarts and crashes? | 3 days, streak 1 (one losing night condemns), 2 incidents: off and on, or import and rollback. |
| `nightly_restore`, `nightly_freeze` | See section 6. | As above, 5 days for the ring. |
| `cycle` | What is an update made of? Are ages honest, does a good provider win, does a fetch end, do the ensemble's hours line up, is what is forecast deliverable, is provenance true and what is archived what is served? | Cache: retry 1, fetch 2, save 3, cache 3, physics 5, horizon 6, interval 7 time units: distinct boundaries in the order of `const.py`; partial answers of one interval, of the near ones, of every other one and of the far ones; one restart. Generation: 2 changes of each kind, one before and one during every await. Fetch: 3 tries, a `Retry-After` below, at and above the longest inline wait. Engine: 2 slots out of five kinds, three planes, one inverter of two planes at its limit, factors 0, 60, 100 and 150 %. |
| `generation_archive` | See section 6. | |
| `learning` | What does a night leave behind, and what may disturb it? One or two properties per part, see below. | Below. |
| `health_cards` | See section 6. | 4 days, window 3, threshold 2. No crash needed. |
| `headlines` | Does only news count as a revision, on its own day, and does the scalar come back? | 5 slots a day, 2 of them sunny, a third day begun: both roll-overs, and a gap of a whole day when ticks fail. Window 1 slot, so that samples expire within a day; horizon 2 slots, so that the factor is full, half and one. Two inverters: on a clear day one is at its limit and one below, on a dull day none. One new image or factor, one restart or crash. |
| `headline_stable` | See section 6. | The same. |
| `entry_flush` | See section 6. | 3 setups: one abandoned, one flushed, one that reads the file. |

The parts of `learning`:

| Part | Property | What it says, and the bounds |
|---|---|---|
| health | `StreakIsChronological`, `CardMatchesStreak` | The streak is of distinct days of ours after the last accepted one; its card agrees. 4 days, window 2, threshold 2, two gates and the one without a card, one crash. |
| label | `RightForecastIsRight` | A forecast that was right is found right: nothing a gate knows becomes a label, and both sides of every comparison cover the same planes and hours. One day of 6 hours, 3 planes of which one may fail in 4 ways, lost rows, 3 meterings, one change of them, 4 kinds of stored forecasts. |
| calibration | `CountedOnce` | Of a day's evidence nothing is counted twice by either reader. 3 days, window 2, 4 kinds of days, 1 crash. |
| shade | `SamplesCountedOnce`, `GroupsAreAlike` | A channel counts its own plane's samples once each, a reader those of its group; a proposal joins only what is alike. 3 nights of 5 kinds, 3 planes, 3 groupings, one import with an empty bin, rollback. |
| bias | `CellsFollowNewSite`, `ServedFactorRamps` | A cell says what the days since the last change of site said; the factor has no step. 3 nights, 3 sites of which two share a fingerprint, 2 reloads or crashes. |
| quantile | `BandIsEarned` | A band rests on enough days, and an ensemble only widens it. 4 days, rings of 4 older files, 2 ensembles. |
| board | `ShowsTheNewestDays` | A late score drives out no newer day; what is shown is of the newest days of the window, each in one class. 4 days, windows 1 and 2. |
| bootstrap | `WalksForward` | Nothing a day is compared with was learned from it or a later one; only sound days teach, and all of them do; the imported ring has every residual of its window. 4 days in two windows, 5 kinds of recorded rows, one hour the archive lacks; ring window 1 day. |
| store | `FileRoundTrips`, `ImportRevertible` | What is held would be read back, and no broken section costs another. Files of schemas 1 to 4, each section of 1 and 3 broken in turn; 2 changes. |
| entry | `OneInstanceListens` | 4 setups, 4 saves, Home Assistant starting, running and stopping. |
| site | `ConfirmedIsServed` | The running site is the confirmed one, and learning restarts only when announced. 9 forms, 6 of them refused, 2 legacy options, 2 loads. |

`learning` and `entry_flush` check no deadlock: a removed entry, a stopped Home Assistant and a finished
bootstrap are ends, and bounded loads and nights run out.
In every other run some clock, write or task can always go on.

**Fairness.** `LearnerOperations`: each task that is inside goes on (`WF` per task) and a
stop once begun goes on. The event loop justifies both: it runs every ready
callback, and the bodies' awaits are requests with timeouts, recorder reads
and executor jobs. Nobody is assumed to start an operation or a stop. `cycle` has the fairness of
its parts, each for the part that moves; a fetch needs none, its end is a bound. `WeatherCache`: cycles keep coming, fetches end (bounded tries, each with a
timeout), the delayed write fires, time passes; nothing is assumed of the
provider, whose behaviour is the premise of the two properties.
`ForecastGeneration`: cycles keep coming and end, and of infinitely many cycles infinitely
many are not failed by weather or engine (`SF` of `Bind` and `Publish`); without that assumption no
curve need ever follow, and the code promises none. `CurveAudit`: the update tick that succeeds comes again and again; nothing is assumed of clock, weather
or sun. The other modules state only safety.

## 5. The proofs

All for arbitrary constants under the named assumptions of each module
(positive bounds, `RetryInterval <= FetchInterval`, `CacheAge < PhysicsAge`, model values outside the data).

**LearnerOperationsProofs** (`GateInv`). Mutual exclusion is not inductive: a woken waiter
takes the lock without testing it. It needs that the lock flag, the owner and the bodies
agree (`OwnerAgrees`), that the queue holds waiting tasks once each and only
its head can be granted, and only while the lock is free (`QueueSound`), and that a
free lock's head is about to run (`NoLostWakeUp`). For the stop, every task
inside a closed gate is doomed and joined (`ClosedDrains`). From `GateInv` follow
`MutualExclusion`, `ExclusiveUse`, `QuietStop`, `ArrivalOrder`, the types, and step
simulation of `SerialLearner`. No run repeats the first two and the order of arrival: a
step that broke them would be no step of the serial learner (`Serialized`) or is refuted here.

**CycleProofs**, the parts of an update. *Cache* (`CacheInv`): that a crash costs at most the write interval and one fetch
needs to know what the write gate knows: while its interval runs, the image was
adopted in it or written at its beginning, and so was the file's once the write has
happened (`WriteGate`). The ages are compared through a capped clock; `CappedTogether`
is the lemma that carries it. *Generation* (`GenerationInv`): `ProvenanceTrue` needs it of the forecast still in the
executor (`BoundTrue`); the archive property needs that after a cycle that succeeded the
held result is the served one (`ResultServed`), which is false after a failed one: that is
why the code's check of `last_update_success` is necessary. *Fetch* (`FetchInvariant`): a tick's tries are
counted against the tries allowed in every phase, and no wait is longer than the longest inline one, whoever asked for it.
*Spread* (`SpreadInv`): between two ticks the spread is that of the image and the ensemble at hand, for only the end of a fetch
leads back to rest. That its hours line up is then arithmetic of two readers: the image keeps per hour the sum over the slots
it parsed (`ForecastIsRead`), the ensemble one number per stamp (`EnsembleIsRead`), and shifted as each
reader shifts them they mean the same quarters (`MeansLineUp`).

**EngineProofs** (`EngineInv`). Each slot of a forecast is one that `compute_forecast` makes from some weather, some learners and some factor
(`Made`), the totals hold the energy of all slots, and the hours of the served curve hold every lit slot; the last is why bands,
which are rolled up over those hours, lose nothing. All that `ForecastIsDeliverable` says of a slot is then a lemma
about one slot (`LitSlotDelivers`), from lemmas on what a limit does to the planes of a group (`Clamped`, `ClampedTwice`, `ClampedAc`):
a share rounded down is no more than its part, so a group of any number of planes stays within what its inverter takes,
before the factor and after it, and one plane belongs to one inverter (`OneInverter`). Two shares of a plane lose at most a watt
each in every division, the factor stretches what was lost before it, which is the bound of `Near` (`SplitIsNear`).
`AddedSum` and `AppendedSum` carry the energy from slot to slot.

**CurveAuditProofs**. *Counts* (`AuditInv`): the counter of a new day starts at zero, and that of an absent
yesterday is zero; both agree with the log only because nothing was ever counted after the
audit's own day and that day is not ahead of the clock (`Orderly`), in memory and in the file alike.
*Revisions* (`BaselineInv`): that only news revise is not a matter of two ticks. The headline a tick compares with was
published under another scalar, perhaps before midnight or before ticks that failed. What is inductive is that, until news
arrive, each headline of the baseline is one that the present image and factor give under *some* scalar and at *some* time of the day
(`OfPresent`). The theorem then is that two such headlines are alike: the scalar divides out of an unclamped slot up
to the rounding, and a slot that both stages clamped never had it.

**NightlyLearningProofs** (`NightInv`). That a day is folded once is not inductive: a pass reads states
that a rollback, an import or a crash may have put there. What is inductive is which states a store may hold at
all (`Folds`): of a day with a marker one fold, of a day without one none, raised passes aside, and of a day
without evidence (forecast and a measurement that did not collapse) none, in the three learners and in every
snapshot. Markers and evidence of a store only grow, so what was allowed stays allowed (`FoldsGrow`), and
whatever replaces a learner was allowed already: the fresh and the imported state hold no day, a snapshot is
from the same store. A pass folds a day and sets its marker in one step (`PassKeeps`); one that
raises leaves folds without marker and raises the bound by one (`AbortedKeeps`). Memory and file each satisfy it by
themselves, which is why a crash needs no argument. With it a streak has as many days as it counts,
and a collapse leaves no trace. Beside it stands `ControlInvariant`, of what surrounds the learners: counters within their bounds,
the two calendars at most a day apart, a streak only of a switched-on layer. From it follow the types, that a sweep leaves no hole
behind it (`NoHoleBehind`) and that what the watchdog disabled returns by the operator's hand alone (`DisabledUntilReenabled`).

**LearnersProofs**, the learners that keep counters, windows and cells.
*Calibration* (`CalInv`): an hour is folded once although its ratios come back every night, because the marker of a day
holds exactly the ratios behind the number, in memory and in the file, until the day is too old to be read again; the ring that holds
the markers is trimmed, so it must be shown that what it cuts is out of the catch-up window (`NewestKeeps`).
*Board* (`BoardInv`): that a late score drives out no newer day needs that the ring has the newest days of all that
were scored, as many as the narrowest window (`NewestKept`): a trim to the present window then keeps them. That the classes divide the
figures without rest or overlap needs that every stored score is sound (`ScoreIsSound`: its class is one of the site's, because a heaviest class exists) and
that a sum is the sum over its classes (`StrataDivide`).
*Bootstrap* (`BootInv`): what has been learned comes from days before the one walked next, and the residual of a day was formed against
a curve of earlier days only; the windows of weather hand days over in order. That no sound day is lost (`CoverInv`): an hour of the archive has come or comes with a
window that is left (`WindowsCover`), so a day is complete when its turn comes, and it is learned unless a gate found it unsound (`GatedIsSound`). `CoverInv` also carries that the ring has every day that told a residual,
and that the import is the part of it within the window.
*Bias* (`BiasInv`): a cell is the least-squares estimate of the ratios since it was last opened. What is inductive is not the estimate itself
but that it lies between the smallest and the largest of them, the opening value included; `StepBetween` is the arithmetic of one
update, with the rounding of a gain in integer division. That the served factor has no step (`ServedFactorRamps`)
is a lemma about the blend of two neighbouring day parts, piece by piece (`FactorPieces`, `BlendRamps`).
*Shade* (`ShadeInv`): a bin counts the values behind it because a night's values are new, those of a snapshot included: they are
named by night and place, and no value is of a night to come. A night is a walk over planes and samples; that both walks
exist and end where the history says is shown number by number (`Reached`, `SampleCounts`, `LearnedIsLast`). What a
plane reads is then the sum over the places of its pool, sorted by channel: each learned source stands at one place and only
there (`PoolIsSources`), which is what the test for a member of the group's name is for.
*Shade groups* (`GroupsAreAlikeHolds`): the clusters after the first k pairs divide the planes with data, are alike pair by pair, and
none of these k pairs could join two of them (`Joined`). The last is the point of complete linkage: a refused pair is never looked at
again, and need not be, because what could not be joined cannot be once its clusters have grown (`StaysRefused`). At the end every similar pair
had its turn (`EveryPairInTurn`), since "closer" is a total order and gives each pair a rank of its own (`CloserOrders`, `Ranked`).
*Bands* (`QInv`): every ring the state holds, read from a file or grown at night, is a list of samples within their
bounds, no longer than its cap, with at most the day's share of one day. The dates of samples are lost in old files, so the number of days behind a band is
not what the code counts (`BandIsEarned` speaks of the days themselves, `from`); that the count of the code is never more (`EvidenceIsOfDays`)
needs the day's share, which a trim keeps (`KeptFits`, `GrownRing`). A percentile lies between two samples and
grows with its rank (`ValueBetween`, `ValueGrows`), which gives the order of a band (`PercentilesInOrder`) and of a fused one (`FusedWidens`).

**SetupProofs**, the entry, its configuration, its cards and its file. *Cards* (`HealthInv`): a discarded day may be as old as the newest verdict;
it is nevertheless newer than the last accepted day because that one has its label and is not read
again (`AcceptedRecorded`). With it the counted days are chronological and the card agrees. *Entry* (`EntryInv`): that only the running setup listens needs that there is a
setup in every phase that touches one, and that all others hold nothing, however many there were.
*Configuration* (`ConfigInv`): the running site is what was confirmed because every path that stores one (form, options, reconfiguration)
goes through the validation and a load changes nothing a user was shown. That learning restarts only when
announced needs that the fingerprint tells sites of different basis apart and only those (`FingerprintTellsBasis`), planes in whatever order.
*File* (`StoreInv`): that the program would read back what it holds is not a matter of one write, for a ring is
filled by one setter, cut by another and read after a migration. The argument is that every `from_dict` leaves its own output as it is (`CoercedIsHeld`,
reader by reader: a clamped cell clamps to itself, a trimmed ring is short enough, a list without its broken entries has none, a verdict without a known reason
has none the second time either, a
drift record read and written in either version is stable), that every setter stores such an output, also one it has grown by a day or
capped, and that an empty section is one. So all that is in memory is held (`IsHeld`), and the way back of an import,
built from memory through `LearnerSnapshot`, is what the import replaced. That clean data, as the dataclasses say,
is held too (`CleanStays`) is what `_validate_learner_sections` claims in store.py; with it a start keeps what any version wrote.

**SumProofs**, what a sum is worth. A sum of the community modules is a fold, that is, a function chosen on all subsets. That
there is one and only one, that it may be taken apart at any element (`SumRemove`), depends on the summands alone (`SumCong`), is a whole number
if they are, and is the sum of the sums over classes that part the set (`SumByClass`), is proved from the smallest set for which it would
be false: the strict subsets of a finite set are a well-founded order, which needs no induction over an operator.
From these follow what the other proofs use: sums compare, scale and split as their summands do (`SumMono`, `SumScale`,
`SumSplit`, `SumInProportion`), a finite set of numbers has a largest and a smallest, and can be enumerated (`Enumerated`).

Assumptions on the constants beyond positive bounds: `NullAssumption` (`None` and a broken value are no numbers), `SiteAssumption` (a day has hours, the planes and the
cloud classes are lists, and "clear" is a class), `CalibrationAssumption` and
`DayKindsAssumption` (a day's ratios are a finite set of hours, as many as a day has), `ConfigAssumption` (the sites offered are sites, their numbers are
numbers), `BoardAssumption`, `BiasAssumption` and `BootAssumption` (windows are natural numbers; curves and labels have finitely many hours with whole
numbers). `EngineAssumption` (finitely many planes, each in one group at most; limits, factors, bands and efficiencies in the ranges the
validation and the clamps of the code leave), `FetchAssumption` and `ImageAssumption` (a sky is one finite list of quarter hours,
and one that was served undamaged is accepted), `ShadeAssumption` (planes have different names, as the validation demands; modeled and measured
curves and a file's channels are finite, its counts are numbers), `PartialAssumption` (an answer has a usable interval ahead), `QuantileAssumption` (curves and labels are of numbers, an ensemble's members are lists of numbers
and gaps), `RingsAssumption` (what an older file holds of a bin is a ring as some version's training left it: within the caps, and the samples of one day
either all dated or all not), `StoreAssumption` and `FilesAssumption` (section 3) and `AuditAssumption` (finite groups, a smallest scalar above zero) likewise.
TLC evaluates each of them on its run. One hypothesis it cannot evaluate, and the theorems on the file name it
themselves: `NoValuesAssumed`, that `None` and a broken value are no dictionaries (the domain of a model value has no value in TLC).

**Only model-checked**, and why:

- Liveness: `WaiterServed`, `StopEnds`, `CurveCatchesUp`, `BecomesFresh`, `KeepsServing`, `BackToNeutral`. The provers have no `ENABLED`.
- `RightForecastIsRight`: whether a gate knows a channel that is scaled or frozen depends on what the planes produced (a frozen channel of a
  plane that produces the same every hour is no fault), so it is a statement about concrete days. The run goes through every loss
  and every fault of one.
- `CycleTypeOK`, `LearningTypeOK`: the conjunction of the parts' types.

## 6. What the models found

Runs that TLC refutes, each against a sentence of the repository:

- `nightly_restore` — the auto-disable restores the state a fixed number of ring
  entries back. Nights without a verdict, a second UTC date within one night or an import
  push entries that are not streak nights, so the restored state may contain days of
  the streak (SPEC 9.8 promises a state from before it).
- `nightly_freeze` — the freeze is one date. The late label of an older collapse
  overwrites the freeze of today.
- `generation_archive` — the archive pass reads the cached weather after a cycle has
  replaced it and before that cycle publishes; its re-check compares the published
  data only, so the entry mixes two images.
- `health_cards` — after a cold boot the catch-up sweep may raise a stalled card beside the
  standing presence card: the presence verdict is in memory and the check is deferred.
- `headline_stable` — the scalar-free power is capped at the inverters' limit only in slots in which the
  second clamp bit. If the day-ahead factor alone exceeds the limit and a low scalar brings the product
  below it, nothing is clamped, and the quotient is more than the inverters can serve. The
  headline then moves with the scalar, and the audit counts the move. `OnlyNewsRevise` therefore
  has the premise `WithinLimits`.

- `entry_flush` — a setup that raises `ConfigEntryNotReady` leaves its store with a delayed write pending.
  A later setup may have been unloaded, and flushed, when that write replaces the file with
  the older image, although `async_flush` and `async_stop` call theirs the final write.

Observations without a run of their own:

- A training step that raises leaves its night's earlier folds without a
  marker, and the next sweep folds them again, although `async_nightly_job` says
  that every step is wrapped and idempotent. `FoldedOnce` allows for exactly that.
- Switching a layer empties the quantile ring so that no two correction stacks mix, but
  a day issued under the old stack and trained later is folded into the new ring.
- An update cycle that bound its layers before an import publishes after it: the
  very next curve is then still the old one. `CurveCatchesUp` says that a later one follows.
- A day counted as discarded may be accepted later, after a newer day was
  counted. The late acceptance is ignored, so the streak keeps a day that was learned from.
- When the cause changes to `implausible_channel`, a stalled card of the former cause stays, although
  the comment says the stale card must go: the function returns before it is cleared.
- An import replaces the learners but keeps loss streaks, trained markers and the freeze. With the key
  `quantile` present but null it empties the ring; without the key it keeps it.
- A rollback restores cells learned before a reconfiguration but keeps the fingerprint of the new
  site, so no later load reseeds them (`coordinator.py` 3073). `ConfirmedIsServed` excludes cells that a rollback brought back.
  A snapshot of an older version without quantile section empties the ring.
- A factor or transmittance that is no number is clamped to the low end of its band, although SPEC 16.4
  has a corrupt one become neutral. `QuantileState` has no version guard as the other sections have.
- A file of a newer schema is discarded and overwritten by the next write; a repaired file of the current
  schema is not written back before something changes.
- `future_coverage` counts intervals: an answer of more but nearer ones replaces an image that reaches further, and one of
  fewer that reaches further is refused while the image is young enough.
- A `Retry-After` longer than the longest inline wait ends the fetch and is not remembered: the next tick
  asks again after the retry interval, whatever the server said.
- The summary's `trained` counts the ring before it is trimmed to the window; the bands are
  read from the trimmed one.
- A shade group named after a plane of another group would pool that plane's channel as evidence from before the
  grouping; `validate_site` refuses such a name in new configurations.
- SPEC 12 has a second `run_bootstrap` rejected; in the window in which the lock is handed
  over it is queued instead.
- The reason `implausible_channel` never reaches the store: the section is coerced when written and
  keeps only reasons that have a card, although `const.py` and SPEC 10 say it is persisted.
- The curve audit's comment keys headline snapshots by date; the code keys them by date and offset, so
  a revision that arrives with the first tick of a day is not counted.
- The re-arm of the ring is not spent while the weather is stale, to be used by the first fresh tick.
  Live samples are taken meanwhile, the ring is then no longer empty, and the fresh tick spends
  the re-arm without effect.
- If the engine fails after a fetch, the revision the new image causes is counted by the next tick with
  `payload_refreshed` false.
- The ceiling of a slot contains the served power of planes in no inverter group, scalar included;
  the model has every plane in a group.

## 7. What is not modelled

- **Numbers.** The sun's position, transposition, clear sky and horizon interpolation are inputs of `Engine`
  (floating-point functions without state); in it, watts are integers and `Near` is the tolerance of the
  rounding, the clear-sky index and the source of the correction are left out, and the AC
  calibration touches the AC curve only. A band's upper factor may be below one, so `ForecastIsDeliverable`
  asks order and limits of the bands, not that they contain the curve. Learned values are whole percents or permilles.
- **RLS covariance** is reseeded when the slow layer is switched; `Rebuild` keeps only what
  the streaks, the flags and the ring see of it. In `BiasLearner` the reset of the drift streak at a reseed is left
  to `NightlyLearning`; the served class is per slot, in training it is that of the hour's first slot, as in the code.
- **Tomorrow's sun within the horizon.** The horizon is six hours; `NightAssumption` keeps tomorrow's
  daylight beyond it, as the docstring of `_dayahead_today_kwh` assumes. Where nights are shorter the
  headline of tomorrow carries a rest of the scalar.
- **Labels.** A meter added between a label and its training or score is outside the premises of
  `RightForecastIsRight`; so is a channel frozen for fewer hours than the gate looks for, or stuck at zero. The
  AC meter is read without the gate of completeness, as in the code. A score of a stored day without any hours,
  which very old files may have, is left out.
- **Calibration.** The card of the efficiency watchdog is never cleared once its AC meter is gone; a crash may part
  card and streak, as in `LearningHealth`.
- **Scoreboard.** A narrowed window is trimmed with the next score only, which the property allows for.
- **Fetch.** Unparsable times in an answer, and the branch with the ensemble switched off within a tick.
- **Bootstrap.** The disaggregation of days that have a total only, the scripts' command line, and the values
  themselves.
- **Configuration.** The check that an entry is unique, seasonal transmittances, the fingerprint's rounding, the
  codes and texts of errors, and old entries whose embedded location differs from the top-level one.
- **File.** The modules in a learning-health verdict are a set of names, without their order and repetitions.
- **Entry.** A platform that fails to load or unload; the order of the final writes of several stores.
- **West of Greenwich** the UTC date leads the local one; `NightlyLearning` lets it lag.
- **Day roll-over with a running sweep.** The sweep keeps the `today` it
  began with; the models let midnight pass while it runs only where the code's
  results do not depend on it.
- **The issue registry's own delayed write**: a card is durable at once, and what a crash between
  registry and store may leave is excluded by `lost` in `LearningHealth`.
- **Home Assistant, the recorder, Open-Meteo** are environment.
- **Panel weather observer, entities, cards, diagnostics, dashboards**: they read live data for display and keep
  no state that anything else depends on. `core/shadeprofile.py` is display as well. The read-only services
  (exports, profiles) change nothing.

## 8. Plan

Done: what holds everything together (gate, night, weather, generation, visibility, headlines and fast
learner), then the parts that keep counters and windows, the file, the entry and the configuration, and the
proofs of section 5.

| Step | Module | What it would add |
|---|---|---|
| 1 | `LabelReads` with `Scoreboard` | a meter added between label and score, and the rescoring that then follows |
| 2 | `LearnersProofs` | `RightForecastIsRight` for every plant, with lemmas on what a scaled or frozen channel may look like; the types of the composed modules |
| 3 | `StoreFile` with `EntryLifecycle` | two stores over one file with migration between them |
| 4 | Panel weather | the observer's hysteresis, if it gets a consumer |
