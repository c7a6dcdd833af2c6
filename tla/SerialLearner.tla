--------------------------- MODULE SerialLearner ---------------------------
(***************************************************************************)
(* What the learner-operation gate promises to everything that uses it:    *)
(* learner mutations happen one holder at a time, each holder works on the *)
(* learner state it found when it took the gate, and once the entry is     *)
(* sealed by its final store write neither the learners nor the file       *)
(* change again.  LearnerOperations is shown to implement this.            *)
(***************************************************************************)
EXTENDS Naturals

CONSTANTS Caller,     \* the tasks that may run learner operations
          NoCaller    \* "nobody holds the gate"

VARIABLES holder,     \* the caller that owns the gate, or NoCaller
          learner,    \* version of the in-memory learner state
          disk,       \* version in the store file
          sealed      \* the final write has happened

svars == <<holder, learner, disk, sealed>>

Init ==
    /\ holder = NoCaller
    /\ learner = 0
    /\ disk = 0
    /\ sealed = FALSE

\* A caller takes the free gate.
Take(c) ==
    /\ holder = NoCaller
    /\ ~sealed
    /\ holder' = c
    /\ UNCHANGED <<learner, disk, sealed>>

\* The holder applies one uninterrupted change to the learner state.
Change(c) ==
    /\ holder = c
    /\ ~sealed
    /\ learner' = learner + 1
    /\ UNCHANGED <<holder, disk, sealed>>

\* The holder ends, normally or by an exception or cancellation.
Release(c) ==
    /\ holder = c
    /\ holder' = NoCaller
    /\ UNCHANGED <<learner, disk, sealed>>

\* The bundled delayed write of the store.
Save ==
    /\ ~sealed
    /\ disk' = learner
    /\ UNCHANGED <<holder, learner, sealed>>

\* The final write: nobody holds the gate and the file is complete.
Seal ==
    /\ holder = NoCaller
    /\ disk' = learner
    /\ sealed' = TRUE
    /\ UNCHANGED <<holder, learner>>

Next ==
    \/ \E c \in Caller : Take(c) \/ Change(c) \/ Release(c)
    \/ Save
    \/ Seal

Spec == Init /\ [][Next]_svars
=============================================================================
