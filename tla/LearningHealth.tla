--------------------------- MODULE LearningHealth ---------------------------
(***************************************************************************)
(* Making "this install is not learning" visible (_channel_health.py): the *)
(* check whether every measurement channel exists, the streak of days the  *)
(* nightly job had to discard, and the repair cards of the two.            *)
(*                                                                         *)
(* The streak is in the store file, the cards are in Home Assistant's      *)
(* issue registry, the verdict on the channels is in memory: a restart     *)
(* keeps two of the three.  Reads repeat, fail and complete late.          *)
(***************************************************************************)
EXTENDS Naturals, FiniteSets, FiniteSetsExt

CONSTANTS MaxDay,     \* bound on the calendar
          MaxCrashes, \* bound on crashes
          Window,     \* NIGHTLY_CATCHUP_MAX_DAYS
          Threshold,  \* LEARNING_STALLED_STREAK_DAYS
          Gates,      \* DROPOUT_REASONS, each with a card of its own
          Implausible,\* the gate that discards a day but has no card
          None        \* no reason recorded

ASSUME HealthAssumption ==
    /\ MaxDay \in Nat \ {0}
    /\ MaxCrashes \in Nat
    /\ Window \in Nat \ {0}
    /\ Threshold \in Nat \ {0}
    /\ Implausible \notin Gates
    /\ None \notin Gates

Day == 1..MaxDay
NoDay == 0

VARIABLES
    today,      \* the local calendar day
    phase,      \* of Home Assistant: "down", "starting" or "running"
    absent,     \* some configured channel does not exist
    summary,    \* coord._channel_health
    store,      \* what the store holds of issued days, labels and health
    disk,       \* the store file
    cards,      \* the repair cards that stand
    pending,    \* days the running sweep has still to visit
    suppressed, \* the last counted night met a standing presence card
    crashes,    \* crashes so far
    lost        \* a crash may have parted the streak from its card

vars == <<today, phase, absent, summary, store, disk, cards, pending,
          suppressed, crashes, lost>>

Init ==
    /\ today = 1
    /\ phase = "starting"
    /\ absent \in BOOLEAN
    /\ summary = "unknown"
    /\ store = [issued       |-> {},
                recorded     |-> {},
                streak       |-> 0,
                reason       |-> None,
                lastDiscard  |-> NoDay,
                lastAccepted |-> NoDay,
                counted      |-> {}]  \* the days the streak stands for
    /\ disk = store
    /\ cards = [presence |-> FALSE, stalled |-> {}]
    /\ pending = {}
    /\ suppressed = FALSE
    /\ crashes = 0
    /\ lost = FALSE

-----------------------------------------------------------------------------
(***************************************************************************)
(* The nightly reads.                                                      *)
(***************************************************************************)

\* The sweep archives today's forecast, unless none is valid, and then
\* visits every day of the window.
StartSweep ==
    /\ phase # "down"
    /\ pending = {}
    /\ \E issued \in {store.issued, store.issued \cup {today}} :
          store' = [store EXCEPT !.issued = issued]
    /\ pending' = {d \in Day : d < today /\ d + Window >= today}
    /\ UNCHANGED <<today, phase, absent, summary, disk, cards, suppressed,
                   crashes, lost>>

\* The sweep's next day, oldest first.
Visit(d) ==
    /\ pending # {}
    /\ d = Min(pending)
    /\ pending' = pending \ {d}
    /\ UNCHANGED <<today, phase, absent, summary, disk, crashes>>

\* The newest day whose outcome was folded in.
Latest == Max({store.lastDiscard, store.lastAccepted})

\* Nothing to fold in: the day has its label already, the recorder failed, or
\* no gate fired because no channel is configured.
NoVerdict ==
    /\ \E d \in pending : Visit(d)
    /\ UNCHANGED <<store, cards, suppressed, lost>>

\* The read passes every gate: the day is recorded, and unless a newer verdict
\* is known the streak and its card are gone.
Accepted ==
    /\ \E d \in pending \ store.recorded :
          /\ Visit(d)
          /\ IF d < Latest
             THEN /\ store' = [store EXCEPT !.recorded = @ \cup {d}]
                  /\ UNCHANGED <<cards, lost>>
             ELSE /\ store' = [store EXCEPT
                                 !.recorded = @ \cup {d},
                                 !.streak = 0,
                                 !.reason = None,
                                 !.lastDiscard = NoDay,
                                 !.lastAccepted = d,
                                 !.counted = {}]
                  /\ cards' = [cards EXCEPT !.stalled = {}]
                  /\ lost' = FALSE
    /\ UNCHANGED suppressed

\* Variant: every re-read of a discarded day counts.
CountsAgain(d) == d \in store.issued /\ d >= Latest

\* A discarded day counts once, in order, and only if a forecast was issued
\* for it: days from before the installation say nothing.
Counts(d) == d \in store.issued /\ d >= Latest /\ d > store.lastDiscard

\* set_learning_health keeps a reason only if it has a card.
Coerced(reason) == IF reason \in Gates THEN reason ELSE None

\* Variant: a card that stands is kept beside the new one.
StalledBoth(reason) ==
    IF summary = "missing" THEN {}
    ELSE cards.stalled \cup ({reason} \cap Gates)

\* Variant: a reason without a card raises one.
StalledAnything(reason) == IF summary = "missing" THEN {} ELSE {reason}

\* The cards of a streak that has reached the threshold: none beside a
\* presence card, otherwise the one of this night's reason, if it has one.
Stalled(reason) ==
    IF summary = "missing" THEN {}
    ELSE IF reason \in Gates THEN {reason} ELSE cards.stalled

Discarded(reason) ==
    /\ \E d \in pending \ store.recorded :
          /\ Visit(d)
          /\ IF Counts(d)
             THEN /\ store' = [store EXCEPT
                                 !.streak = @ + 1,
                                 !.reason = Coerced(reason),
                                 !.lastDiscard = d,
                                 !.counted = @ \cup {d}]
                  /\ suppressed' = (summary = "missing")
                  /\ IF store'.streak < Threshold
                     THEN UNCHANGED cards
                     ELSE cards' = [cards EXCEPT !.stalled = Stalled(reason)]
             ELSE UNCHANGED <<store, cards, suppressed>>
    /\ UNCHANGED lost

-----------------------------------------------------------------------------
(***************************************************************************)
(* The presence check: at setup, or once Home Assistant has started.       *)
(***************************************************************************)
CheckActualChannels ==
    /\ summary' = IF absent THEN "missing" ELSE "resolved"
    /\ cards' = [cards EXCEPT !.presence = absent]

\* Whatever ends the process takes the verdict on the channels with it.
Down ==
    /\ phase # "down"
    /\ phase' = "down"
    /\ summary' = "unknown"
    /\ pending' = {}
    /\ UNCHANGED <<today, absent, cards, suppressed>>

\* The stop writes the store.
Stop ==
    /\ Down
    /\ disk' = store
    /\ UNCHANGED <<store, crashes, lost>>

Crash ==
    /\ crashes < MaxCrashes
    /\ crashes' = crashes + 1
    /\ Down
    /\ store' = disk
    /\ lost' = TRUE
    /\ UNCHANGED disk

\* A cold boot sets the entry up: its sweep may start, its check must wait
\* until Home Assistant has started.
Boot ==
    /\ phase = "down"
    /\ phase' = "starting"
    /\ UNCHANGED <<today, absent, summary, store, disk, cards, pending,
                   suppressed, crashes, lost>>

Started ==
    /\ phase = "starting"
    /\ phase' = "running"
    /\ CheckActualChannels
    /\ UNCHANGED <<today, absent, store, disk, pending, suppressed, crashes,
                   lost>>

\* A changed configuration reloads the entry.
Reload ==
    /\ phase = "running"
    /\ disk' = store
    /\ pending' = {}
    /\ CheckActualChannels
    /\ UNCHANGED <<today, phase, absent, store, suppressed, crashes, lost>>

Save ==
    /\ phase # "down"
    /\ disk # store
    /\ disk' = store
    /\ UNCHANGED <<today, phase, absent, summary, store, cards, pending,
                   suppressed, crashes, lost>>

\* A channel disappears, or comes back.
ChannelsChange ==
    /\ absent' = ~absent
    /\ UNCHANGED <<today, phase, summary, store, disk, cards, pending,
                   suppressed, crashes, lost>>

\* A start does not last beyond midnight.
Midnight ==
    /\ phase # "starting"
    /\ today < MaxDay
    /\ today' = today + 1
    /\ UNCHANGED <<phase, absent, summary, store, disk, cards, pending,
                   suppressed, crashes, lost>>

Next ==
    \/ StartSweep
    \/ NoVerdict
    \/ Accepted
    \/ \E reason \in Gates \cup {Implausible} : Discarded(reason)
    \/ Stop
    \/ Crash
    \/ Boot
    \/ Started
    \/ Reload
    \/ Save
    \/ ChannelsChange
    \/ Midnight

Spec == Init /\ [][Next]_vars

-----------------------------------------------------------------------------
(***************************************************************************)
(* Properties.                                                             *)
(***************************************************************************)
Health ==
    [issued : SUBSET Day, recorded : SUBSET Day, streak : Nat,
     reason : Gates \cup {None}, lastDiscard : Day \cup {NoDay},
     lastAccepted : Day \cup {NoDay}, counted : SUBSET Day]

\* Every variable has its type.
TypeOK ==
    /\ today \in Day
    /\ phase \in {"down", "starting", "running"}
    /\ absent \in BOOLEAN
    /\ summary \in {"unknown", "resolved", "missing"}
    /\ store \in Health
    /\ disk \in Health
    /\ cards \in [presence : BOOLEAN, stalled : SUBSET Gates]
    /\ pending \subseteq Day
    /\ suppressed \in BOOLEAN
    /\ crashes \in 0..MaxCrashes
    /\ lost \in BOOLEAN

\* The streak is a number of distinct days, all ours and all newer than the
\* last accepted day, however reads repeat, complete late or arrive out of
\* order (record_actuals_outcome: a chronological verdict, not the order of
\* IO completion).
Chronological(s) ==
    /\ s.streak = Cardinality(s.counted)
    /\ s.counted \subseteq s.issued
    /\ \A d \in s.counted : s.lastAccepted < d /\ d <= s.lastDiscard

StreakIsChronological == Chronological(store) /\ Chronological(disk)

\* Unless a crash has parted the two files, a stalled card stands only on a
\* streak that has earned it, and a streak that has reached the threshold for
\* a reason with a card has exactly that card, unless the presence card named
\* the cause (SPEC 10 b).
CardMatchesStreak ==
    ~lost =>
        /\ cards.stalled # {} => store.streak >= Threshold
        /\ store.streak >= Threshold /\ store.reason # None /\ ~suppressed =>
              cards.stalled = {store.reason}

\* While the presence card stands no stalled card is raised beside it
\* (SPEC 10, one card per cause).
OneCardPerCause ==
    [][cards.presence /\ cards'.presence => cards'.stalled \subseteq cards.stalled]_vars
=============================================================================
