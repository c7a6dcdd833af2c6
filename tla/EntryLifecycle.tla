---------------------------- MODULE EntryLifecycle ----------------------------
(***************************************************************************)
(* The life of one config entry (__init__.py, the start and stop of the     *)
(* coordinator, async_load and async_flush of the store): setup, a first    *)
(* refresh that finds nothing to serve, its retries, reload, unload,        *)
(* removal, and the start and stop of Home Assistant around them.  Every    *)
(* setup makes a store and a coordinator of its own over the same file; the *)
(* delayed write of a store belongs to its timer, not to the entry.         *)
(***************************************************************************)
EXTENDS Values

CONSTANTS MaxInstances, \* setups of a behaviour
          MaxSaves      \* changes of learner state in a behaviour

VARIABLES
    core,       \* hass.state: "starting", "running", "stopping"
    entryPhase, \* "none", "primed", "serving", "running", "retry" or "removed"
    instances,  \* one per setup: [mem, pending, nightly, observer, check, stop, update]
    entryFile,  \* changes that the file has
    entryCards, \* repair cards of this entry
    noise,      \* a listener was removed that was not there
    flushed     \* changes that the last unload or stop has written

entryVars == <<core, entryPhase, instances, entryFile, entryCards, noise, flushed>>

Current == Len(instances)
Held(i) == instances[Current][i]

\* Changes are numbered as they are made.
Saves == UNION {instances[i].mem : i \in DOMAIN instances} \cup entryFile

-----------------------------------------------------------------------------
\* A coordinator and its store as they are made: every listener is still to come.
NewInstance(file) ==
    [mem |-> file, pending |-> FALSE, nightly |-> FALSE, observer |-> FALSE,
     check |-> "none", stop |-> FALSE, update |-> FALSE]

EntryInit ==
    /\ core \in {"starting", "running"}
    /\ entryPhase = "none"
    /\ instances = <<>>
    /\ entryFile = {}
    /\ entryCards = {}
    /\ noise = FALSE
    /\ flushed = {}

\* async_setup_entry begins: ForecastStore.async_load, which writes back an older
\* schema, and async_prime_from_store, which records a new fingerprint.
SetUp ==
    /\ entryPhase \in {"none", "retry"}
    /\ core # "stopping"
    /\ Current < MaxInstances
    /\ entryPhase' = "primed"
    /\ \/ instances' = Append(instances, NewInstance(entryFile))
       \/ /\ Cardinality(Saves) < MaxSaves
          /\ instances' = Append(instances,
                [NewInstance(entryFile) EXCEPT !.mem = @ \cup {Cardinality(Saves) + 1},
                                               !.pending = TRUE])
    /\ UNCHANGED <<core, entryFile, entryCards, noise, flushed>>

\* async_config_entry_first_refresh: there is something to serve, or
\* ConfigEntryNotReady leaves this coordinator and its store behind.
FirstRefresh ==
    /\ entryPhase = "primed"
    /\ entryPhase' \in {"serving", "retry"}
    /\ UNCHANGED <<core, instances, entryFile, entryCards, noise, flushed>>

\* Variant: the check does not wait for Home Assistant.
CheckAtNow == "done"

\* async_schedule_channel_health_check.
CheckAt == IF core = "running" THEN "done" ELSE "waiting"

\* Whether the check raises its card or clears it.
Checked(cards) == {cards \cup {"presence"}, cards \ {"presence"}}

\* The rest of async_setup_entry, after the platforms were forwarded.
ForwardPlatforms ==
    /\ entryPhase = "serving"
    /\ core # "stopping"
    /\ entryPhase' = "running"
    /\ instances' = [instances EXCEPT ![Current] =
           [@ EXCEPT !.nightly = TRUE, !.observer = TRUE, !.check = CheckAt,
                     !.stop = TRUE, !.update = TRUE]]
    /\ entryCards' \in IF CheckAt = "done" THEN Checked(entryCards) ELSE {entryCards}
    /\ UNCHANGED <<core, entryFile, noise, flushed>>

\* EVENT_HOMEASSISTANT_STARTED: _on_started of the entry.
HassStarted ==
    /\ core = "starting"
    /\ core' = "running"
    /\ IF Current > 0 /\ Held("check") = "waiting"
       THEN /\ instances' = [instances EXCEPT ![Current].check = "done"]
            /\ entryCards' \in Checked(entryCards)
       ELSE UNCHANGED <<instances, entryCards>>
    /\ UNCHANGED <<entryPhase, entryFile, noise, flushed>>

\* Learner state changes: catch-up, nightly job, services; or a weather payload.
LearnerSaves ==
    /\ entryPhase = "running"
    /\ Cardinality(Saves) < MaxSaves
    /\ instances' = [instances EXCEPT ![Current].mem = @ \cup {Cardinality(Saves) + 1},
                                      ![Current].pending = TRUE]
    /\ UNCHANGED <<core, entryPhase, entryFile, entryCards, noise, flushed>>

\* The timer of a store, whoever still needs it: what the store then holds.
DelayedWrite ==
    \E i \in DOMAIN instances :
        /\ instances[i].pending
        /\ entryFile' = instances[i].mem
        /\ instances' = [instances EXCEPT ![i].pending = FALSE]
        /\ UNCHANGED <<core, entryPhase, entryCards, noise, flushed>>

\* async_stop: the entry's own listeners go, then its store is written at once.
Quiet(inst) == [inst EXCEPT !.nightly = FALSE, !.observer = FALSE, !.pending = FALSE]

\* Variant: the waiting listener is removed in every case.
DetachAlways(inst) == inst.check # "none"

\* _detach_if_pending.
Detach(inst) == inst.check = "waiting"

\* A setup whose listeners are all gone.
TakenDown(inst) ==
    [Quiet(inst) EXCEPT !.stop = FALSE, !.update = FALSE,
                        !.check = IF @ = "waiting" THEN "none" ELSE @]

\* async_unload_entry and the callbacks of async_on_unload after it: for a reload,
\* for a removal, or by hand.
UnloadEntry ==
    /\ entryPhase = "running"
    /\ core # "stopping"
    /\ entryPhase' \in {"none", "removed"}
    /\ entryFile' = Held("mem") /\ flushed' = Held("mem")
    /\ noise' = (noise \/ (Detach(instances[Current]) /\ Held("check") # "waiting"))
    /\ instances' = [instances EXCEPT ![Current] = TakenDown(@)]
    /\ UNCHANGED <<core, entryCards>>

\* Removing an entry that was never set up needs no unload.
GiveUp ==
    /\ entryPhase \in {"none", "retry"}
    /\ entryPhase' = "removed"
    /\ UNCHANGED <<core, instances, entryFile, entryCards, noise, flushed>>

\* async_remove_entry, through a new store over the same file.
RemoveEntry ==
    /\ entryPhase = "removed"
    /\ entryFile' = {}
    /\ entryCards' = {}
    /\ flushed' = {}
    /\ UNCHANGED <<core, entryPhase, instances, noise>>

\* EVENT_HOMEASSISTANT_STOP: _async_flush_on_stop.
HassStops ==
    /\ core # "stopping"
    /\ entryPhase # "primed"
    /\ core' = "stopping"
    /\ IF entryPhase = "running"
       THEN /\ instances' = [instances EXCEPT ![Current] = [Quiet(@) EXCEPT !.stop = FALSE]]
            /\ entryFile' = Held("mem") /\ flushed' = Held("mem")
       ELSE UNCHANGED <<instances, entryFile, flushed>>
    /\ UNCHANGED <<entryPhase, entryCards, noise>>

EntryNext ==
    \/ SetUp \/ FirstRefresh \/ ForwardPlatforms \/ HassStarted \/ LearnerSaves \/ DelayedWrite
    \/ UnloadEntry \/ GiveUp \/ RemoveEntry \/ HassStops

EntrySpec == EntryInit /\ [][EntryNext]_entryVars

-----------------------------------------------------------------------------
(* Properties.                                                              *)

EntryTypeOK ==
    /\ entryPhase \in {"none", "primed", "serving", "running", "retry", "removed"}
    /\ Saves \subseteq 1..MaxSaves
    /\ entryCards \subseteq {"presence"}
    /\ \A i \in DOMAIN instances : instances[i].check \in {"none", "waiting", "done"}

\* Only the instance that runs listens, so that no closed day is trained and no
\* minute is sampled twice; an entry that was unloaded or is retried listens to
\* nothing, the measurement channels are never judged before Home Assistant has
\* started, and no listener is removed that already fired
\* (async_schedule_channel_health_check, async_shutdown_extra).
OneInstanceListens ==
    /\ \A i \in DOMAIN instances :
          LET inst == instances[i]
              listens == \/ inst.nightly \/ inst.observer \/ inst.stop \/ inst.update
                         \/ inst.check = "waiting"
          IN listens => i = Current /\ entryPhase = "running"
    /\ \A i \in DOMAIN instances : instances[i].check = "done" => core # "starting"
    /\ ~noise

\* What an unload or the stop of Home Assistant has written stays in the file,
\* whatever was left behind by setups before (ForecastStore.async_flush: "cancelling
\* any pending delayed save ... so a reload cannot beat the delayed write and read
\* back a stale last-good cache"; coordinator.async_stop: "the final write").
FlushIsFinal == flushed \subseteq entryFile
=============================================================================
