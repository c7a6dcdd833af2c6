------------------------- MODULE LearnerOperations -------------------------
(***************************************************************************)
(* The learner-operation gate of one config entry (_operations.py), with   *)
(* the asyncio.Lock it is built on, the operations that pass through it    *)
(* and the stop sequence that closes it before the final store write       *)
(* (coordinator.async_stop).                                               *)
(*                                                                         *)
(* One step is the code between two awaits.  Cancelling a task only marks  *)
(* it (doomed): asyncio raises CancelledError when the task next resumes,  *)
(* so a doomed task takes no step but its own unwinding.                   *)
(***************************************************************************)
EXTENDS Naturals, SequencesExt

CONSTANTS Caller,      \* tasks that may enter the gate
          Stopper,     \* tasks that may run async_stop (unload, HA stop)
          NoCaller,    \* the gate's owner when nobody holds it
          MaxChanges   \* bound on the changes a behaviour makes

ASSUME CallerAssumption == NoCaller \notin Caller
ASSUME BoundAssumption == MaxChanges \in Nat

(***************************************************************************)
(* The operations.  "reset" stands for the public mutations that wait for  *)
(* the lock and end with a refresh: async_import_bootstrap called          *)
(* directly, async_rollback_learners and async_reset_day_ahead_bias.       *)
(***************************************************************************)
Operation == {"nightly", "bootstrap", "reset", "update"}
Mutating == Operation \ {"update"}
RejectsBusy == {"bootstrap"}

\* How deep an operation re-enters work() in its own task: run_bootstrap
\* calls the import, the import and the resets await a refresh.
Depth == [o \in Operation |-> CASE o = "bootstrap" -> 3
                                [] o = "reset"     -> 2
                                [] OTHER           -> 1]

\* The level at which an operation writes: run_bootstrap writes only inside
\* the import it nests.
WriteDepth(o) == IF o = "bootstrap" THEN 2 ELSE 1

VARIABLES
    closed,    \* LearnerOperations._closed
    owner,     \* LearnerOperations._owner
    tasks,     \* LearnerOperations._tasks: nesting count, 0 when absent
    locked,    \* asyncio.Lock._locked
    waiters,   \* asyncio.Lock._waiters, oldest first
    future,    \* the waiter's future
    doomed,    \* the task was cancelled and has not resumed since
    operation, \* what the task runs
    pc,        \* where the task stands
    learner,   \* version of the learner state in memory
    weather,   \* version of the last-good payload in memory
    basis,     \* learner version the task last read or wrote
    saveDue,   \* a delayed store write is pending
    disk,      \* the store file
    stop,      \* where each async_stop stands
    joining    \* the tasks an async_stop gathers

gate == <<closed, owner, tasks>>
lock == <<locked, waiters, future>>
data == <<learner, weather, basis, saveDue, disk>>
shutdown == <<stop, joining>>
vars == <<gate, lock, doomed, operation, pc, data, shutdown>>

Image == [learner |-> learner, weather |-> weather]

Init ==
    /\ closed = FALSE
    /\ owner = NoCaller
    /\ tasks = [c \in Caller |-> 0]
    /\ locked = FALSE
    /\ waiters = <<>>
    /\ future = [c \in Caller |-> "none"]
    /\ doomed = [c \in Caller |-> FALSE]
    /\ operation = [c \in Caller |-> "update"]
    /\ pc = [c \in Caller |-> "idle"]
    /\ learner = 0
    /\ weather = 0
    /\ basis = [c \in Caller |-> 0]
    /\ saveDue = FALSE
    /\ disk = [learner |-> 0, weather |-> 0]
    /\ stop = [s \in Stopper |-> "running"]
    /\ joining = [s \in Stopper |-> {}]

-----------------------------------------------------------------------------
(***************************************************************************)
(* asyncio.Lock.                                                           *)
(***************************************************************************)

\* Variant: acquire() looks at the flag alone.
AtOnceUnqueued == ~locked

\* acquire() takes the lock at once only past waiters that are all cancelled.
AtOnce ==
    /\ ~locked
    /\ \A i \in DOMAIN waiters : future[waiters[i]] = "cancelled"

\* Variant: every pending future is woken.
WakeAll(queue, futures) ==
    [c \in Caller |-> IF futures[c] = "pending" THEN "granted" ELSE futures[c]]

\* _wake_up_first: only the first future is looked at, and only if not done.
WakeFirst(queue, futures) ==
    IF queue # <<>> /\ futures[Head(queue)] = "pending"
    THEN [futures EXCEPT ![Head(queue)] = "granted"]
    ELSE futures

-----------------------------------------------------------------------------
(***************************************************************************)
(* work(): entering.                                                       *)
(***************************************************************************)

\* Variant: a closed gate still lets operations in.
StartAnyway(c, o) ==
    /\ pc[c] = "idle"
    /\ o \in RejectsBusy => ~locked
    /\ operation' = [operation EXCEPT ![c] = o]
    /\ tasks' = [tasks EXCEPT ![c] = 1]
    /\ UNCHANGED <<closed, doomed, learner, weather, saveDue, disk, shutdown>>

Start(c, o) ==
    /\ pc[c] = "idle"
    /\ ~closed
    /\ o \in RejectsBusy => ~locked
    /\ operation' = [operation EXCEPT ![c] = o]
    /\ tasks' = [tasks EXCEPT ![c] = 1]
    /\ UNCHANGED <<closed, doomed, learner, weather, saveDue, disk, shutdown>>

\* The update cycle is tracked but takes no lock.
EnterTracked(c) ==
    /\ Start(c, "update")
    /\ pc' = [pc EXCEPT ![c] = "body"]
    /\ UNCHANGED <<owner, lock, basis>>

\* A mutating operation finds the lock free.
EnterLocked(c, o) ==
    /\ AtOnce
    /\ Start(c, o)
    /\ locked' = TRUE
    /\ owner' = c
    /\ basis' = [basis EXCEPT ![c] = learner]
    /\ pc' = [pc EXCEPT ![c] = "body"]
    /\ UNCHANGED <<waiters, future>>

\* A mutating operation queues.  A busy-rejecting one queues only while the
\* lock is between its release and the resumption of the waiter it woke.
Enqueue(c, o) ==
    /\ ~AtOnce
    /\ Start(c, o)
    /\ waiters' = Append(waiters, c)
    /\ future' = [future EXCEPT ![c] = "pending"]
    /\ pc' = [pc EXCEPT ![c] = "queued"]
    /\ UNCHANGED <<owner, locked, basis>>

\* The woken waiter resumes; acquire() sets _locked without looking again.
Granted(c) ==
    /\ pc[c] = "queued"
    /\ future[c] = "granted"
    /\ ~doomed[c]
    /\ \E i \in DOMAIN waiters :
          /\ waiters[i] = c
          /\ waiters' = RemoveAt(waiters, i)
    /\ future' = [future EXCEPT ![c] = "none"]
    /\ locked' = TRUE
    /\ owner' = c
    /\ basis' = [basis EXCEPT ![c] = learner]
    /\ pc' = [pc EXCEPT ![c] = "body"]
    /\ UNCHANGED <<closed, tasks, doomed, operation, learner, weather,
                   saveDue, disk, shutdown>>

\* A cancelled waiter resumes; if the lock is free it passes the wake-up on.
LeaveQueue(c) ==
    /\ pc[c] = "queued"
    /\ doomed[c]
    /\ \E i \in DOMAIN waiters :
          /\ waiters[i] = c
          /\ waiters' = RemoveAt(waiters, i)
    /\ future' = LET left == [future EXCEPT ![c] = "none"]
                 IN IF locked THEN left ELSE WakeFirst(waiters', left)
    /\ tasks' = [tasks EXCEPT ![c] = 0]
    /\ doomed' = [doomed EXCEPT ![c] = FALSE]
    /\ pc' = [pc EXCEPT ![c] = "idle"]
    /\ UNCHANGED <<closed, owner, locked, operation, data, shutdown>>

-----------------------------------------------------------------------------
(***************************************************************************)
(* The bodies.                                                             *)
(***************************************************************************)

\* One uninterrupted stretch that changes the learner state and schedules a
\* bundled write: a nightly day, an import, a rollback, a reset.
ChangeLearner(c) ==
    /\ pc[c] = "body"
    /\ ~doomed[c]
    /\ operation[c] \in Mutating
    /\ tasks[c] = WriteDepth(operation[c])
    /\ learner + weather < MaxChanges
    /\ learner' = learner + 1
    /\ basis' = [basis EXCEPT ![c] = learner']
    /\ saveDue' = TRUE
    /\ UNCHANGED <<gate, lock, doomed, operation, pc, weather, disk, shutdown>>

\* An update cycle, of its own or nested at full depth, stores a payload.
StorePayload(c) ==
    /\ pc[c] = "body"
    /\ ~doomed[c]
    /\ operation[c] # "nightly"
    /\ tasks[c] = Depth[operation[c]]
    /\ learner + weather < MaxChanges
    /\ weather' = weather + 1
    /\ saveDue' = TRUE
    /\ UNCHANGED <<gate, lock, doomed, operation, pc, learner, basis, disk,
                   shutdown>>

\* work() entered again by the task that is already inside.
EnterNested(c) ==
    /\ pc[c] = "body"
    /\ ~doomed[c]
    /\ ~closed
    /\ tasks[c] < Depth[operation[c]]
    /\ tasks' = [tasks EXCEPT ![c] = @ + 1]
    /\ UNCHANGED <<closed, owner, lock, doomed, operation, pc, data, shutdown>>

\* The nested call returns; what remains of the outer body writes nothing.
LeaveNested(c) ==
    /\ pc[c] \in {"body", "leaving"}
    /\ ~doomed[c]
    /\ tasks[c] > 1
    /\ tasks' = [tasks EXCEPT ![c] = @ - 1]
    /\ pc' = [pc EXCEPT ![c] = "leaving"]
    /\ UNCHANGED <<closed, owner, lock, doomed, operation, data, shutdown>>

\* Variant: a release that wakes nobody.
ExitSilently(c) ==
    /\ pc[c] \in {"body", "leaving"}
    /\ IF operation[c] \in Mutating
       THEN owner' = NoCaller /\ locked' = FALSE
       ELSE UNCHANGED <<owner, locked>>
    /\ tasks' = [tasks EXCEPT ![c] = 0]
    /\ doomed' = [doomed EXCEPT ![c] = FALSE]
    /\ pc' = [pc EXCEPT ![c] = "idle"]
    /\ UNCHANGED <<closed, waiters, future, operation, data, shutdown>>

\* Variant: an exception unwinds one level of the nesting count only.
ExitOneLevel(c) ==
    /\ pc[c] \in {"body", "leaving"}
    /\ IF operation[c] \in Mutating
       THEN /\ owner' = NoCaller
            /\ locked' = FALSE
            /\ future' = WakeFirst(waiters, future)
       ELSE UNCHANGED <<owner, locked, future>>
    /\ tasks' = [tasks EXCEPT ![c] = @ - 1]
    /\ doomed' = [doomed EXCEPT ![c] = FALSE]
    /\ pc' = [pc EXCEPT ![c] = "idle"]
    /\ UNCHANGED <<closed, waiters, operation, data, shutdown>>

\* The finally block of the outermost work(), with Lock.release() when this
\* call acquired the lock.
Exit(c) ==
    /\ pc[c] \in {"body", "leaving"}
    /\ IF operation[c] \in Mutating
       THEN /\ owner' = NoCaller
            /\ locked' = FALSE
            /\ future' = WakeFirst(waiters, future)
       ELSE UNCHANGED <<owner, locked, future>>
    /\ tasks' = [tasks EXCEPT ![c] = 0]
    /\ doomed' = [doomed EXCEPT ![c] = FALSE]
    /\ pc' = [pc EXCEPT ![c] = "idle"]
    /\ UNCHANGED <<closed, waiters, operation, data, shutdown>>

Leave(c) == tasks[c] = 1 /\ ~doomed[c] /\ Exit(c)

\* An exception or CancelledError unwinds every level without an await.
Unwind(c) == (doomed[c] \/ tasks[c] > 1) /\ Exit(c)

-----------------------------------------------------------------------------
(***************************************************************************)
(* The store's delayed write, and async_stop: close the gate, cancel and   *)
(* gather what is inside, write the store.                                 *)
(***************************************************************************)
DelayedSave ==
    /\ saveDue
    /\ saveDue' = FALSE
    /\ disk' = Image
    /\ UNCHANGED <<gate, lock, doomed, operation, pc, learner, weather, basis,
                   shutdown>>

\* close(): reject newcomers and cancel every tracked task.
Close(s) ==
    /\ stop[s] = "running"
    /\ closed' = TRUE
    /\ LET pending == {c \in Caller : tasks[c] > 0}
       IN /\ joining' = [joining EXCEPT ![s] = pending]
          /\ doomed' = [c \in Caller |-> doomed[c] \/ c \in pending]
          /\ future' = [c \in Caller |->
                           IF c \in pending /\ future[c] = "pending"
                           THEN "cancelled" ELSE future[c]]
    /\ stop' = [stop EXCEPT ![s] = "joining"]
    /\ UNCHANGED <<owner, tasks, locked, waiters, operation, pc, data>>

\* Variant: the stop writes the store without joining what it cancelled.
FlushUnjoined(s) ==
    /\ stop[s] = "joining"
    /\ disk' = Image
    /\ saveDue' = FALSE
    /\ stop' = [stop EXCEPT ![s] = "stopped"]
    /\ UNCHANGED <<gate, lock, doomed, operation, pc, learner, weather, basis,
                   joining>>

\* gather() returns when every task it was given has ended; then async_flush.
Flush(s) ==
    /\ stop[s] = "joining"
    /\ \A c \in joining[s] : tasks[c] = 0
    /\ disk' = Image
    /\ saveDue' = FALSE
    /\ stop' = [stop EXCEPT ![s] = "stopped"]
    /\ UNCHANGED <<gate, lock, doomed, operation, pc, learner, weather, basis,
                   joining>>

\* The entry is gone: every stop has returned and no write is pending.
Stopped ==
    /\ \A s \in Stopper : stop[s] = "stopped"
    /\ \A c \in Caller : pc[c] = "idle"
    /\ ~saveDue
    /\ UNCHANGED vars

-----------------------------------------------------------------------------
Step(c) ==
    \/ Granted(c)
    \/ LeaveQueue(c)
    \/ ChangeLearner(c)
    \/ StorePayload(c)
    \/ EnterNested(c)
    \/ LeaveNested(c)
    \/ Leave(c)
    \/ Unwind(c)

Next ==
    \/ \E c \in Caller : EnterTracked(c)
    \/ \E c \in Caller, o \in Mutating : EnterLocked(c, o) \/ Enqueue(c, o)
    \/ \E c \in Caller : Step(c)
    \/ DelayedSave
    \/ \E s \in Stopper : Close(s) \/ Flush(s)
    \/ Stopped

Spec == Init /\ [][Next]_vars

(***************************************************************************)
(* Fairness: the event loop runs every ready task, every body ends (its    *)
(* awaits are HTTP requests with a timeout, recorder reads and executor    *)
(* jobs), and a stop that was begun goes on.  Nobody has to begin a stop.  *)
(***************************************************************************)
Fairness ==
    /\ \A c \in Caller : WF_vars(Step(c))
    /\ \A s \in Stopper : WF_vars(Flush(s))

FairSpec == Spec /\ Fairness

-----------------------------------------------------------------------------
(***************************************************************************)
(* Properties.                                                             *)
(***************************************************************************)

\* Every variable has its type, and the task table knows exactly the tasks
\* that are inside work(): nothing is tracked twice or left behind, however
\* deeply the ended call was nested (LearnerOperations.work, the finally).
TypeOK ==
    /\ closed \in BOOLEAN
    /\ owner \in Caller \cup {NoCaller}
    /\ tasks \in [Caller -> 0..3]
    /\ locked \in BOOLEAN
    /\ waiters \in Seq(Caller)
    /\ future \in [Caller -> {"none", "pending", "granted", "cancelled"}]
    /\ doomed \in [Caller -> BOOLEAN]
    /\ operation \in [Caller -> Operation]
    /\ pc \in [Caller -> {"idle", "queued", "body", "leaving"}]
    /\ learner \in Nat
    /\ weather \in Nat
    /\ basis \in [Caller -> Nat]
    /\ saveDue \in BOOLEAN
    /\ disk \in [learner : Nat, weather : Nat]
    /\ stop \in [Stopper -> {"running", "joining", "stopped"}]
    /\ joining \in [Stopper -> SUBSET Caller]
    /\ \A c \in Caller : tasks[c] = 0 <=> pc[c] = "idle"

Holding(c) ==
    /\ pc[c] \in {"body", "leaving"}
    /\ operation[c] \in Mutating

\* The nightly job, a bootstrap, an import, a rollback and a reset never run
\* interleaved, although a woken waiter takes the lock without testing it.
MutualExclusion ==
    \A c, d \in Caller : Holding(c) /\ Holding(d) => c = d

\* The learner state an operation read when it got the gate, or wrote since,
\* is still the learner state whenever it resumes: no await inside an
\* operation lets another writer in between its read and its write.
ExclusiveUse ==
    \A c \in Caller : Holding(c) => basis[c] = learner

\* When async_stop returns, no task is inside the gate and the file holds
\* the final image of learners and payload: nothing outlives its store.
QuietStop ==
    \A s \in Stopper :
        stop[s] = "stopped" =>
            /\ \A c \in Caller : tasks[c] = 0
            /\ ~saveDue
            /\ disk = Image

\* A free lock with waiters has a head that is about to resume: the wake-up
\* is never lost, whatever mix of releases and cancellations came before.
NoLostWakeUp ==
    ~locked /\ waiters # <<>> => future[Head(waiters)] \in {"granted", "cancelled"}

\* The lock is granted in arrival order: whoever becomes owner was ahead of
\* every waiter that is not cancelled (a nightly job queued behind a
\* bootstrap is not overtaken by a later service call).
ArrivalOrder ==
    [][\A c \in Caller :
          owner' = c /\ owner # c =>
              \A i \in DOMAIN waiters :
                  waiters[i] = c \/ doomed[waiters[i]] \/
                  \E j \in 1..i : waiters[j] = c]_vars

\* A queued operation is eventually let in or cancelled, never forgotten.
WaiterServed ==
    \A c \in Caller : pc[c] = "queued" ~> pc[c] # "queued"

\* Once begun, async_stop returns: no task it waits for waits for it.
StopEnds ==
    \A s \in Stopper : stop[s] = "joining" ~> stop[s] = "stopped"

\* The gate implements the serial learner: one holder at a time, changes
\* only by the holder, and after the final write neither state nor file
\* changes.
Serial == INSTANCE SerialLearner WITH
              holder <- owner,
              disk <- disk.learner,
              sealed <- \E s \in Stopper : stop[s] = "stopped"

Serialized == Serial!Spec
=============================================================================
