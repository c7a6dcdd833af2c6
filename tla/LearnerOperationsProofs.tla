---------------------- MODULE LearnerOperationsProofs ----------------------
(***************************************************************************)
(* Proofs about LearnerOperations for every set of callers and stoppers.   *)
(* GateInv is the inductive invariant: the properties the runs check, and  *)
(* the facts about the waiter queue that make them inductive.              *)
(***************************************************************************)
EXTENDS LearnerOperations, SequenceTheorems, TLAPS

\* The lock flag, the recorded owner and the bodies agree on who is inside.
OwnerAgrees ==
    /\ locked <=> owner # NoCaller
    /\ \A c \in Caller : owner = c <=> Holding(c)
    /\ \A c \in Caller : pc[c] = "queued" => operation[c] \in Mutating

\* The queue holds waiting tasks once each; only its head can have been
\* granted the lock, and only while the lock is free.
QueueSound ==
    /\ \A i \in DOMAIN waiters :
          /\ pc[waiters[i]] = "queued"
          /\ future[waiters[i]] # "none"
          /\ future[waiters[i]] = "granted" => i = 1 /\ ~locked
          /\ future[waiters[i]] = "cancelled" => doomed[waiters[i]]
    /\ \A i, j \in DOMAIN waiters : waiters[i] = waiters[j] => i = j

\* After close() everything still inside is cancelled and is joined by
\* every stop that has not returned.
ClosedDrains ==
    /\ closed => \A c \in Caller : tasks[c] > 0 => doomed[c]
    /\ \A s \in Stopper :
          /\ stop[s] # "running" => closed
          /\ stop[s] = "joining" =>
                \A c \in Caller : tasks[c] > 0 => c \in joining[s]

GateInv ==
    /\ TypeOK
    /\ OwnerAgrees
    /\ QueueSound
    /\ NoLostWakeUp
    /\ ExclusiveUse
    /\ ClosedDrains
    /\ QuietStop

-----------------------------------------------------------------------------
\* Removing one waiter keeps the order of the others.
LEMMA RemoveAtFacts ==
    ASSUME NEW S, NEW q \in Seq(S), NEW i \in DOMAIN q
    PROVE  /\ RemoveAt(q, i) \in Seq(S)
           /\ Len(RemoveAt(q, i)) = Len(q) - 1
           /\ \A j \in 1..(Len(q) - 1) :
                 RemoveAt(q, i)[j] = IF j < i THEN q[j] ELSE q[j + 1]
<1>1. i \in 1..Len(q) /\ Len(q) \in Nat
  BY LenProperties
<1>2. /\ SubSeq(q, 1, i - 1) \in Seq(S)
      /\ Len(SubSeq(q, 1, i - 1)) = i - 1
      /\ \A j \in 1..(i - 1) : SubSeq(q, 1, i - 1)[j] = q[j]
  BY <1>1
<1>3. /\ SubSeq(q, i + 1, Len(q)) \in Seq(S)
      /\ Len(SubSeq(q, i + 1, Len(q))) = Len(q) - i
      /\ \A j \in 1..(Len(q) - i) : SubSeq(q, i + 1, Len(q))[j] = q[i + j]
  BY <1>1
<1> DEFINE front == SubSeq(q, 1, i - 1)
           back == SubSeq(q, i + 1, Len(q))
<1> HIDE DEF front, back
<1>4. /\ front \o back \in Seq(S)
      /\ Len(front \o back) = Len(front) + Len(back)
      /\ \A j \in 1..(Len(front) + Len(back)) :
            (front \o back)[j] = IF j <= Len(front) THEN front[j]
                                 ELSE back[j - Len(front)]
  BY <1>2, <1>3, ConcatProperties DEF front, back
<1>5. /\ front \o back \in Seq(S)
      /\ Len(front \o back) = Len(q) - 1
      /\ \A j \in 1..(Len(q) - 1) :
            (front \o back)[j] = IF j < i THEN q[j] ELSE q[j + 1]
  <2>1. /\ Len(front) = i - 1
        /\ Len(back) = Len(q) - i
        /\ \A j \in 1..(i - 1) : front[j] = q[j]
        /\ \A j \in 1..(Len(q) - i) : back[j] = q[i + j]
    BY <1>2, <1>3 DEF front, back
  <2>2. Len(front) + Len(back) = Len(q) - 1
    BY <1>1, <2>1
  <2>3. ASSUME NEW j \in 1..(Len(q) - 1)
        PROVE  (front \o back)[j] = IF j < i THEN q[j] ELSE q[j + 1]
    <3>1. CASE j < i
      BY <1>1, <1>4, <2>1, <2>2, <3>1
    <3>2. CASE ~(j < i)
      <4>1. j - (i - 1) \in 1..(Len(q) - i) /\ i + (j - (i - 1)) = j + 1
        BY <1>1, <3>2
      <4>2. j \in 1..(Len(front) + Len(back)) /\ ~(j <= Len(front))
        BY <1>1, <2>1, <2>2, <3>2
      <4>3. (front \o back)[j] = back[j - Len(front)]
        BY <1>4, <4>2
      <4>4. QED
        BY <2>1, <3>2, <4>1, <4>3
    <3>3. QED
      BY <3>1, <3>2
  <2>4. QED
    BY <1>4, <2>2, <2>3
<1>6. QED
  BY <1>5 DEF RemoveAt, front, back

\* Waking the head changes at most the head's future, from pending to granted.
LEMMA WakeFirstFacts ==
    ASSUME NEW q \in Seq(Caller),
           NEW f \in [Caller -> {"none", "pending", "granted", "cancelled"}]
    PROVE  /\ WakeFirst(q, f) \in
                 [Caller -> {"none", "pending", "granted", "cancelled"}]
           /\ \A c \in Caller :
                 WakeFirst(q, f)[c] # f[c] =>
                    /\ q # <<>> /\ c = q[1]
                    /\ f[c] = "pending" /\ WakeFirst(q, f)[c] = "granted"
           /\ q # <<>> => WakeFirst(q, f)[q[1]] # "pending"
BY DEF WakeFirst

\* An open, empty gate satisfies the invariant.
LEMMA InitGate == Init => GateInv
<1> SUFFICES ASSUME Init PROVE GateInv
  OBVIOUS
<1> USE DEF Init
<1>1. TypeOK
  <2>1. waiters \in Seq(Caller)
    BY EmptySeq
  <2>2. /\ operation \in [Caller -> Operation]
        /\ disk \in [learner : Nat, weather : Nat]
        /\ joining \in [Stopper -> SUBSET Caller]
    BY DEF Operation
  <2>3. /\ tasks \in [Caller -> 0..3]
        /\ future \in [Caller -> {"none", "pending", "granted", "cancelled"}]
        /\ doomed \in [Caller -> BOOLEAN]
        /\ pc \in [Caller -> {"idle", "queued", "body", "leaving"}]
        /\ basis \in [Caller -> Nat]
        /\ stop \in [Stopper -> {"running", "joining", "stopped"}]
    OBVIOUS
  <2>4. \A c \in Caller : tasks[c] = 0 <=> pc[c] = "idle"
    OBVIOUS
  <2>5. QED
    BY <2>1, <2>2, <2>3, <2>4 DEF TypeOK
<1>2. OwnerAgrees /\ ExclusiveUse
  BY CallerAssumption DEF OwnerAgrees, ExclusiveUse, Holding
<1>3. waiters = <<>> /\ DOMAIN waiters = {}
  OBVIOUS
<1>4. QueueSound /\ NoLostWakeUp
  BY <1>3 DEF QueueSound, NoLostWakeUp
<1>5. ClosedDrains /\ QuietStop
  BY DEF ClosedDrains, QuietStop
<1>6. QED
  BY <1>1, <1>2, <1>4, <1>5 DEF GateInv
-----------------------------------------------------------------------------
\* The type invariant is inductive on its own.
LEMMA TypeStep ==
    ASSUME TypeOK, [Next]_vars
    PROVE  TypeOK'
<1> USE DEF TypeOK, Operation, Mutating
<1>1. ASSUME NEW c \in Caller, EnterTracked(c)
      PROVE  TypeOK'
  BY <1>1 DEF EnterTracked, Start, lock, shutdown
<1>2. ASSUME NEW c \in Caller, NEW o \in Mutating, EnterLocked(c, o)
      PROVE  TypeOK'
  BY <1>2 DEF EnterLocked, Start, shutdown
<1>3. ASSUME NEW c \in Caller, NEW o \in Mutating, Enqueue(c, o)
      PROVE  TypeOK'
  <2>1. waiters' \in Seq(Caller)
    BY <1>3, AppendProperties DEF Enqueue
  <2>2. QED
    BY <1>3, <2>1 DEF Enqueue, Start, shutdown
<1>4. ASSUME NEW c \in Caller, Granted(c)
      PROVE  TypeOK'
  <2>1. waiters' \in Seq(Caller)
    BY <1>4, RemoveAtFacts DEF Granted
  <2>2. QED
    BY <1>4, <2>1 DEF Granted, shutdown
<1>5. ASSUME NEW c \in Caller, LeaveQueue(c)
      PROVE  TypeOK'
  <2>1. waiters' \in Seq(Caller)
    BY <1>5, RemoveAtFacts DEF LeaveQueue
  <2>2. future' \in [Caller -> {"none", "pending", "granted", "cancelled"}]
    <3> DEFINE left == [future EXCEPT ![c] = "none"]
    <3>1. left \in [Caller -> {"none", "pending", "granted", "cancelled"}]
      OBVIOUS
    <3>2. future' = IF locked THEN left ELSE WakeFirst(waiters', left)
      BY <1>5 DEF LeaveQueue
    <3> HIDE DEF left
    <3>3. QED
      BY <2>1, <3>1, <3>2, WakeFirstFacts
  <2>3. /\ tasks' \in [Caller -> 0..3]
        /\ doomed' \in [Caller -> BOOLEAN]
        /\ pc' \in [Caller -> {"idle", "queued", "body", "leaving"}]
        /\ \A d \in Caller : tasks'[d] = 0 <=> pc'[d] = "idle"
    BY <1>5 DEF LeaveQueue
  <2>4. UNCHANGED <<closed, owner, locked, operation, data, shutdown>>
    BY <1>5 DEF LeaveQueue
  <2>5. QED
    BY <2>1, <2>2, <2>3, <2>4 DEF data, shutdown
<1>6. ASSUME NEW c \in Caller, ChangeLearner(c)
      PROVE  TypeOK'
  BY <1>6 DEF ChangeLearner, gate, lock, shutdown
<1>7. ASSUME NEW c \in Caller, StorePayload(c)
      PROVE  TypeOK'
  BY <1>7 DEF StorePayload, gate, lock, shutdown
<1>8. ASSUME NEW c \in Caller, EnterNested(c)
      PROVE  TypeOK'
  <2>1. Depth[operation[c]] \in 1..3
    BY DEF Depth
  <2>2. tasks[c] + 1 \in 0..3 /\ tasks[c] + 1 # 0 /\ pc[c] # "idle"
    <3>1. tasks[c] \in 0..3 /\ tasks[c] < Depth[operation[c]] /\ pc[c] = "body"
      BY <1>8 DEF EnterNested
    <3> HIDE DEF TypeOK, Operation, Mutating
    <3>2. QED
      BY <2>1, <3>1
  <2>3. QED
    BY <1>8, <2>2 DEF EnterNested, lock, data, shutdown
<1>9. ASSUME NEW c \in Caller, LeaveNested(c)
      PROVE  TypeOK'
  <2>1. tasks[c] - 1 \in 0..3 /\ tasks[c] - 1 # 0
    BY <1>9 DEF LeaveNested
  <2>2. QED
    BY <1>9, <2>1 DEF LeaveNested, lock, data, shutdown
<1>10. ASSUME NEW c \in Caller, Exit(c)
       PROVE  TypeOK'
  <2>1. future' \in [Caller -> {"none", "pending", "granted", "cancelled"}]
    BY <1>10, WakeFirstFacts DEF Exit
  <2>2. owner' \in Caller \cup {NoCaller} /\ locked' \in BOOLEAN
    BY <1>10 DEF Exit
  <2>3. /\ tasks' \in [Caller -> 0..3]
        /\ doomed' \in [Caller -> BOOLEAN]
        /\ pc' \in [Caller -> {"idle", "queued", "body", "leaving"}]
        /\ \A d \in Caller : tasks'[d] = 0 <=> pc'[d] = "idle"
    BY <1>10 DEF Exit
  <2>4. UNCHANGED <<closed, waiters, operation, data, shutdown>>
    BY <1>10 DEF Exit
  <2>5. QED
    BY <2>1, <2>2, <2>3, <2>4 DEF data, shutdown
<1>11. CASE DelayedSave
  BY <1>11 DEF DelayedSave, Image, gate, lock, shutdown
<1>12. ASSUME NEW s \in Stopper, Close(s)
       PROVE  TypeOK'
  BY <1>12 DEF Close, data
<1>13. ASSUME NEW s \in Stopper, Flush(s)
       PROVE  TypeOK'
  BY <1>13 DEF Flush, Image, gate, lock
<1>14. CASE UNCHANGED vars
  BY <1>14 DEF vars, gate, lock, data, shutdown
<1>15. QED
  BY <1>1, <1>2, <1>3, <1>4, <1>5, <1>6, <1>7, <1>8, <1>9, <1>10, <1>11,
     <1>12, <1>13, <1>14
     DEF Next, Step, Leave, Unwind, Stopped
-----------------------------------------------------------------------------
\* The queue keeps its shape when its entry i, of a task that stops waiting,
\* is removed.
LEMMA RemovalKeepsQueue ==
    ASSUME TypeOK, QueueSound, NEW i \in DOMAIN waiters,
           NEW q, q = RemoveAt(waiters, i)
    PROVE  /\ q \in Seq(Caller)
           /\ \A j \in DOMAIN q :
                 /\ q[j] # waiters[i]
                 /\ pc[q[j]] = "queued"
                 /\ future[q[j]] # "none"
                 /\ future[q[j]] = "granted" => j = 1 /\ ~locked /\ i # 1
                 /\ future[q[j]] = "cancelled" => doomed[q[j]]
           /\ \A j, k \in DOMAIN q : q[j] = q[k] => j = k
<1>1. waiters \in Seq(Caller) /\ Len(waiters) \in Nat
      /\ DOMAIN waiters = 1..Len(waiters)
  BY DEF TypeOK
<1>2. /\ q \in Seq(Caller)
      /\ Len(q) = Len(waiters) - 1
      /\ \A j \in 1..(Len(waiters) - 1) :
            q[j] = IF j < i THEN waiters[j] ELSE waiters[j + 1]
  BY <1>1, RemoveAtFacts
<1>3. DOMAIN q = 1..(Len(waiters) - 1)
  BY <1>2
<1> DEFINE old(j) == IF j < i THEN j ELSE j + 1
<1>4. ASSUME NEW j \in DOMAIN q
      PROVE  /\ old(j) \in DOMAIN waiters
             /\ old(j) # i
             /\ q[j] = waiters[old(j)]
  BY <1>1, <1>2, <1>3
<1>5. ASSUME NEW j \in DOMAIN q, NEW k \in DOMAIN q, old(j) = old(k)
      PROVE  j = k
  BY <1>1, <1>3, <1>5
<1>6. ASSUME NEW j \in DOMAIN q, old(j) = 1
      PROVE  j = 1 /\ i # 1
  BY <1>1, <1>3, <1>6
<1> HIDE DEF old
<1>7. QED
  BY <1>2, <1>4, <1>5, <1>6 DEF QueueSound

\* A task enters: tracked only, with the free lock, or into the queue.
LEMMA EnterGate ==
    ASSUME GateInv, NEW c \in Caller,
           \/ EnterTracked(c)
           \/ \E o \in Mutating : EnterLocked(c, o) \/ Enqueue(c, o)
    PROVE  GateInv'
<1>1. TypeOK /\ TypeOK'
  BY TypeStep DEF GateInv, Next
<1> USE DEF GateInv
<1>2. CASE EnterTracked(c)
  <2> USE <1>1, <1>2 DEF EnterTracked, Start, lock, shutdown
  <2>1. pc[c] = "idle" /\ tasks[c] = 0 /\ ~closed
    BY DEF TypeOK
  <2>2. OwnerAgrees' /\ ExclusiveUse'
    BY <2>1 DEF OwnerAgrees, ExclusiveUse, Holding, TypeOK, Mutating
  <2>3. QueueSound' /\ NoLostWakeUp'
    BY <2>1 DEF QueueSound, NoLostWakeUp, TypeOK
  <2>4. ClosedDrains' /\ QuietStop'
    BY <2>1 DEF ClosedDrains, QuietStop, TypeOK
  <2>5. QED
    BY <2>2, <2>3, <2>4
<1>3. ASSUME NEW o \in Mutating, EnterLocked(c, o)
      PROVE  GateInv'
  <2> USE <1>1, <1>3 DEF EnterLocked, Start, shutdown
  <2>1. /\ pc[c] = "idle" /\ tasks[c] = 0 /\ ~closed
        /\ ~locked /\ owner = NoCaller /\ c # NoCaller
    BY CallerAssumption DEF TypeOK, OwnerAgrees, AtOnce
  <2>2. OwnerAgrees'
    <3>1. locked' /\ owner' = c
      OBVIOUS
    <3>2. Holding(c)'
      BY DEF Holding, TypeOK, Mutating
    <3>3. ASSUME NEW d \in Caller, d # c
          PROVE  ~Holding(d)'
      <4>1. ~Holding(d)
        BY <2>1, CallerAssumption DEF OwnerAgrees
      <4>2. pc'[d] = pc[d] /\ operation'[d] = operation[d]
        BY <3>3 DEF TypeOK
      <4>3. QED
        BY <4>1, <4>2 DEF Holding
    <3>4. \A d \in Caller : pc'[d] = "queued" => operation'[d] \in Mutating
      BY DEF OwnerAgrees, TypeOK
    <3>5. QED
      BY <2>1, <3>1, <3>2, <3>3, <3>4 DEF OwnerAgrees
  <2>3. ExclusiveUse'
    BY <2>1 DEF OwnerAgrees, ExclusiveUse, Holding, TypeOK, Mutating
  <2>4. \A i \in DOMAIN waiters : waiters[i] \in Caller /\ waiters[i] # c
    BY <2>1 DEF QueueSound, TypeOK
  <2>5. QueueSound' /\ NoLostWakeUp'
    BY <2>1, <2>4 DEF QueueSound, NoLostWakeUp, TypeOK, AtOnce
  <2>6. ClosedDrains' /\ QuietStop'
    BY <2>1 DEF ClosedDrains, QuietStop, TypeOK
  <2>7. QED
    BY <2>2, <2>3, <2>5, <2>6
<1>4. ASSUME NEW o \in Mutating, Enqueue(c, o)
      PROVE  GateInv'
  <2> USE <1>1, <1>4 DEF Enqueue, Start, shutdown
  <2>1. /\ pc[c] = "idle" /\ tasks[c] = 0 /\ ~closed
        /\ waiters \in Seq(Caller) /\ Len(waiters) \in Nat
    BY DEF TypeOK
  <2>2. OwnerAgrees' /\ ExclusiveUse'
    BY <2>1 DEF OwnerAgrees, ExclusiveUse, Holding, TypeOK, Mutating
  <2>3. \A i \in DOMAIN waiters : waiters[i] \in Caller /\ waiters[i] # c
    BY <2>1 DEF QueueSound, TypeOK
  <2>4. /\ DOMAIN waiters' = 1..(Len(waiters) + 1)
        /\ DOMAIN waiters = 1..Len(waiters)
        /\ \A i \in 1..Len(waiters) : waiters'[i] = waiters[i]
        /\ waiters'[Len(waiters) + 1] = c
    BY <2>1, AppendProperties
  <2>5. future'[c] = "pending" /\ \A d \in Caller : d # c => future'[d] = future[d]
    BY DEF TypeOK
  <2>6. pc'[c] = "queued" /\ \A d \in Caller : d # c => pc'[d] = pc[d]
    BY DEF TypeOK
  <2>7. QueueSound'
    BY <2>1, <2>3, <2>4, <2>5, <2>6 DEF QueueSound
  <2>8. NoLostWakeUp'
    <3>1. ~locked => waiters # <<>>
      BY <2>1 DEF AtOnce
    <3>2. waiters # <<>> => 1 \in DOMAIN waiters /\ Head(waiters) = waiters[1]
                            /\ Head(waiters') = waiters[1]
      BY <2>1, HeadTailAppend
    <3>3. QED
      BY <2>3, <2>5, <3>1, <3>2 DEF NoLostWakeUp
  <2>9. ClosedDrains' /\ QuietStop'
    BY <2>1 DEF ClosedDrains, QuietStop, TypeOK
  <2>10. QED
    BY <2>2, <2>7, <2>8, <2>9
<1>5. QED
  BY <1>2, <1>3, <1>4

\* The woken waiter is the head and the lock is free, so acquiring without a
\* test is safe.
LEMMA GrantedGate ==
    ASSUME GateInv, NEW c \in Caller, Granted(c)
    PROVE  GateInv'
<1>1. TypeOK /\ TypeOK'
  BY TypeStep DEF GateInv, Next, Step
<1> USE DEF GateInv
<1>2. PICK i \in DOMAIN waiters : waiters[i] = c /\ waiters' = RemoveAt(waiters, i)
  BY DEF Granted
<1>3. pc[c] = "queued" /\ future[c] = "granted" /\ ~doomed[c]
  BY DEF Granted
<1>4. i = 1 /\ ~locked
  BY <1>2, <1>3 DEF QueueSound
<1>5. owner = NoCaller /\ c # NoCaller /\ operation[c] \in Mutating
  BY <1>3, <1>4, CallerAssumption DEF OwnerAgrees
<1>6. tasks[c] > 0 /\ ~closed
  <2>1. tasks[c] \in 0..3 /\ tasks[c] # 0
    BY <1>1, <1>3 DEF TypeOK
  <2>2. tasks[c] > 0
    BY <2>1
  <2>3. QED
    BY <1>3, <2>2 DEF ClosedDrains
<1>7. \A d \in Caller : d # c =>
         pc'[d] = pc[d] /\ future'[d] = future[d] /\ basis'[d] = basis[d]
  BY <1>1 DEF Granted, TypeOK
<1>8. /\ pc'[c] = "body" /\ future'[c] = "none" /\ basis'[c] = learner
      /\ locked' /\ owner' = c
      /\ UNCHANGED <<closed, tasks, doomed, operation, learner, weather, saveDue,
                     disk, shutdown>>
  BY <1>1 DEF Granted, TypeOK
<1>9. ASSUME NEW d \in Caller, d # c
      PROVE  ~Holding(d) /\ ~Holding(d)'
  BY <1>5, <1>7, <1>8, <1>9, CallerAssumption DEF OwnerAgrees, Holding
<1>10. OwnerAgrees'
  BY <1>5, <1>7, <1>8, <1>9 DEF OwnerAgrees, Holding
<1>11. ExclusiveUse'
  BY <1>8, <1>9 DEF ExclusiveUse
<1>12. QueueSound' /\ NoLostWakeUp'
  BY <1>1, <1>2, <1>4, <1>7, <1>8, RemovalKeepsQueue, SMTT(20)
     DEF QueueSound, NoLostWakeUp, TypeOK
<1>13. ClosedDrains' /\ QuietStop'
  BY <1>1, <1>6, <1>8 DEF ClosedDrains, QuietStop, TypeOK, shutdown, Image
<1>14. QED
  BY <1>1, <1>10, <1>11, <1>12, <1>13

\* A cancelled waiter leaves the queue; if the lock is free it wakes the next.
LEMMA LeaveQueueGate ==
    ASSUME GateInv, NEW c \in Caller, LeaveQueue(c)
    PROVE  GateInv'
<1>1. TypeOK /\ TypeOK'
  BY TypeStep DEF GateInv, Next, Step
<1> USE DEF GateInv
<1>2. PICK i \in DOMAIN waiters : waiters[i] = c /\ waiters' = RemoveAt(waiters, i)
  BY DEF LeaveQueue
<1> DEFINE left == [future EXCEPT ![c] = "none"]
<1>3. /\ left \in [Caller -> {"none", "pending", "granted", "cancelled"}]
      /\ \A d \in Caller : d # c => left[d] = future[d]
  BY <1>1 DEF TypeOK
<1>4. future' = IF locked THEN left ELSE WakeFirst(waiters', left)
  BY DEF LeaveQueue
<1> HIDE DEF left
<1>5. /\ pc[c] = "queued" /\ pc'[c] = "idle" /\ tasks'[c] = 0
      /\ \A d \in Caller : d # c => pc'[d] = pc[d] /\ doomed'[d] = doomed[d]
                                 /\ tasks'[d] = tasks[d]
      /\ UNCHANGED <<closed, owner, locked, operation, data, shutdown>>
  BY <1>1 DEF LeaveQueue, TypeOK
<1>6. OwnerAgrees' /\ ExclusiveUse'
  BY <1>5 DEF OwnerAgrees, ExclusiveUse, Holding, data
<1>7. /\ waiters' \in Seq(Caller)
      /\ \A j \in DOMAIN waiters' :
            /\ waiters'[j] \in Caller /\ waiters'[j] # c
            /\ pc[waiters'[j]] = "queued"
            /\ future[waiters'[j]] # "none"
            /\ future[waiters'[j]] = "granted" => j = 1 /\ ~locked
            /\ future[waiters'[j]] = "cancelled" => doomed[waiters'[j]]
      /\ \A j, k \in DOMAIN waiters' : waiters'[j] = waiters'[k] => j = k
  <2>1. /\ waiters' \in Seq(Caller)
        /\ \A j \in DOMAIN waiters' :
              /\ waiters'[j] # c
              /\ pc[waiters'[j]] = "queued"
              /\ future[waiters'[j]] # "none"
              /\ future[waiters'[j]] = "granted" => j = 1 /\ ~locked /\ i # 1
              /\ future[waiters'[j]] = "cancelled" => doomed[waiters'[j]]
        /\ \A j, k \in DOMAIN waiters' : waiters'[j] = waiters'[k] => j = k
    BY <1>1, <1>2, RemovalKeepsQueue
  <2>2. \A j \in DOMAIN waiters' : waiters'[j] \in Caller
    BY <2>1
  <2>3. QED
    BY <2>1, <2>2
<1>8. waiters' # <<>> => 1 \in DOMAIN waiters' /\ Head(waiters') = waiters'[1]
  BY <1>7
<1>9. ASSUME NEW j \in DOMAIN waiters'
      PROVE  /\ future'[waiters'[j]] # "none"
             /\ future'[waiters'[j]] = "granted" => j = 1 /\ ~locked
             /\ future'[waiters'[j]] = "cancelled" => doomed[waiters'[j]]
  <2>1. CASE locked
    BY <1>3, <1>4, <1>7, <2>1
  <2>2. CASE ~locked
    BY <1>3, <1>4, <1>7, <1>8, <2>2, WakeFirstFacts
  <2>3. QED
    BY <2>1, <2>2
<1>10. QueueSound'
  BY <1>5, <1>7, <1>9 DEF QueueSound
<1>11. NoLostWakeUp'
  <2> SUFFICES ASSUME ~locked, waiters' # <<>>
               PROVE  future'[waiters'[1]] \in {"granted", "cancelled"}
    BY <1>5, <1>8 DEF NoLostWakeUp
  <2>1. future'[waiters'[1]] # "pending"
    BY <1>3, <1>4, <1>7, WakeFirstFacts
  <2>2. QED
    BY <1>1, <1>7, <1>8, <1>9, <2>1 DEF TypeOK
<1>12. ClosedDrains'
  <2>1. \A d \in Caller : tasks'[d] > 0 => tasks[d] > 0 /\ doomed'[d] = doomed[d]
    BY <1>5
  <2>2. QED
    BY <1>5, <2>1 DEF ClosedDrains, shutdown
<1>13. QuietStop'
  BY <1>5 DEF QuietStop, data, shutdown, Image
<1>14. QED
  BY <1>1, <1>6, <1>10, <1>11, <1>12, <1>13

\* What a body does while it is inside the gate.
LEMMA BodyGate ==
    ASSUME GateInv, NEW c \in Caller,
           ChangeLearner(c) \/ StorePayload(c) \/ EnterNested(c) \/ LeaveNested(c)
    PROVE  GateInv'
<1>1. TypeOK /\ TypeOK'
  BY TypeStep DEF GateInv, Next, Step
<1> USE DEF GateInv
<1>2. /\ pc[c] \in {"body", "leaving"} /\ ~doomed[c]
      /\ UNCHANGED <<closed, owner, lock, doomed, operation, disk, shutdown>>
  BY DEF ChangeLearner, StorePayload, EnterNested, LeaveNested, gate, data
<1>3. tasks[c] > 0
  <2>1. tasks[c] \in 0..3 /\ tasks[c] # 0
    BY <1>1, <1>2 DEF TypeOK
  <2>2. QED
    BY <2>1
<1>4. \A s \in Stopper : stop[s] # "stopped"
  BY <1>2, <1>3 DEF QuietStop
<1>5. ~closed
  BY <1>2, <1>3 DEF ClosedDrains
<1>6. \A d \in Caller : /\ Holding(d)' <=> Holding(d)
                        /\ pc'[d] = "queued" <=> pc[d] = "queued"
  BY <1>1, <1>2 DEF ChangeLearner, StorePayload, EnterNested, LeaveNested,
                    Holding, TypeOK
<1>7. OwnerAgrees'
  BY <1>2, <1>6 DEF OwnerAgrees, lock
<1>8. \A d \in Caller : Holding(d) => basis'[d] = learner'
  <2>1. CASE ChangeLearner(c)
    <3>1. Holding(c)
      BY <2>1 DEF ChangeLearner, Holding
    <3>2. \A d \in Caller : Holding(d) => d = c
      BY <3>1 DEF OwnerAgrees
    <3>3. basis'[c] = learner'
      BY <1>1, <2>1 DEF ChangeLearner, TypeOK
    <3>4. QED
      BY <3>2, <3>3
  <2>2. CASE StorePayload(c) \/ EnterNested(c) \/ LeaveNested(c)
    BY <2>2 DEF StorePayload, EnterNested, LeaveNested, data, ExclusiveUse
  <2>3. QED
    BY <2>1, <2>2
<1>9. ExclusiveUse'
  BY <1>6, <1>8 DEF ExclusiveUse
<1>10. QueueSound' /\ NoLostWakeUp'
  <2>1. \A i \in DOMAIN waiters : waiters[i] \in Caller
    BY <1>1 DEF TypeOK
  <2>2. QED
    BY <1>2, <1>6, <2>1 DEF QueueSound, NoLostWakeUp, lock
<1>11. ClosedDrains' /\ QuietStop'
  BY <1>2, <1>4, <1>5 DEF ClosedDrains, QuietStop, shutdown
<1>12. QED
  BY <1>1, <1>7, <1>9, <1>10, <1>11

\* Leaving the gate, with the lock's release when this call acquired it.
LEMMA ExitGate ==
    ASSUME GateInv, NEW c \in Caller, Leave(c) \/ Unwind(c)
    PROVE  GateInv'
<1>1. TypeOK /\ TypeOK'
  BY TypeStep DEF GateInv, Next, Step
<1> USE DEF GateInv
<1>2. /\ pc[c] \in {"body", "leaving"} /\ pc'[c] = "idle" /\ tasks'[c] = 0
      /\ \A d \in Caller : d # c => pc'[d] = pc[d] /\ doomed'[d] = doomed[d]
                                 /\ tasks'[d] = tasks[d]
      /\ UNCHANGED <<closed, waiters, operation, data, shutdown>>
  BY <1>1 DEF Leave, Unwind, Exit, TypeOK
<1>3. CASE operation[c] \in Mutating
  <2>1. owner' = NoCaller /\ ~locked' /\ future' = WakeFirst(waiters, future)
    BY <1>3 DEF Leave, Unwind, Exit
  <2>2. owner = c /\ locked
    BY <1>2, <1>3, CallerAssumption DEF OwnerAgrees, Holding
  <2>3. \A d \in Caller : ~Holding(d)'
    BY <1>2, <2>2 DEF OwnerAgrees, Holding
  <2>4. OwnerAgrees' /\ ExclusiveUse'
    BY <1>2, <2>1, <2>3, CallerAssumption DEF OwnerAgrees, ExclusiveUse
  <2>5. \A i \in DOMAIN waiters :
           /\ waiters[i] \in Caller /\ waiters[i] # c
           /\ future[waiters[i]] # "granted"
    BY <1>1, <1>2, <2>2 DEF TypeOK, QueueSound
  <2>6. waiters # <<>> => 1 \in DOMAIN waiters /\ Head(waiters) = waiters[1]
    BY <1>1 DEF TypeOK
  <2>7. waiters \in Seq(Caller)
        /\ future \in [Caller -> {"none", "pending", "granted", "cancelled"}]
    BY <1>1 DEF TypeOK
  <2>8. \A i \in DOMAIN waiters :
           /\ future'[waiters[i]] # "none"
           /\ future'[waiters[i]] = "granted" => i = 1
           /\ future'[waiters[i]] = "cancelled" => doomed[waiters[i]]
    BY <2>1, <2>5, <2>6, <2>7, WakeFirstFacts DEF QueueSound
  <2>9. QueueSound'
    BY <1>2, <2>1, <2>5, <2>8 DEF QueueSound
  <2>10. waiters # <<>> => future'[waiters[1]] \in {"granted", "cancelled"}
    <3>1. waiters # <<>> => future'[waiters[1]] # "pending"
      BY <2>1, <2>7, WakeFirstFacts
    <3>2. QED
      BY <1>1, <2>5, <2>6, <2>8, <3>1 DEF TypeOK
  <2>11. NoLostWakeUp'
    BY <1>2, <2>6, <2>10 DEF NoLostWakeUp
  <2>12. ClosedDrains' /\ QuietStop'
    <3>1. \A d \in Caller : tasks'[d] > 0 => tasks[d] > 0 /\ doomed'[d] = doomed[d]
      BY <1>2
    <3>2. QED
      BY <1>2, <3>1 DEF ClosedDrains, QuietStop, data, shutdown, Image
  <2>13. QED
    BY <1>1, <2>4, <2>9, <2>11, <2>12
<1>4. CASE operation[c] \notin Mutating
  <2>1. UNCHANGED <<owner, locked, future>>
    BY <1>4 DEF Leave, Unwind, Exit
  <2>2. \A d \in Caller : Holding(d)' <=> Holding(d)
    BY <1>2, <1>4 DEF Holding
  <2>3. OwnerAgrees' /\ ExclusiveUse'
    BY <1>2, <2>1, <2>2 DEF OwnerAgrees, ExclusiveUse, data
  <2>4. \A i \in DOMAIN waiters : waiters[i] \in Caller /\ waiters[i] # c
    BY <1>1, <1>2 DEF TypeOK, QueueSound
  <2>5. QueueSound' /\ NoLostWakeUp'
    BY <1>2, <2>1, <2>4 DEF QueueSound, NoLostWakeUp
  <2>6. ClosedDrains' /\ QuietStop'
    <3>1. \A d \in Caller : tasks'[d] > 0 => tasks[d] > 0 /\ doomed'[d] = doomed[d]
      BY <1>2
    <3>2. QED
      BY <1>2, <3>1 DEF ClosedDrains, QuietStop, data, shutdown, Image
  <2>7. QED
    BY <1>1, <2>3, <2>5, <2>6
<1>5. QED
  BY <1>3, <1>4

\* Closing the gate, the delayed write and the final write.
LEMMA StopGate ==
    ASSUME GateInv, DelayedSave \/ \E s \in Stopper : Close(s) \/ Flush(s)
    PROVE  GateInv'
<1>1. TypeOK /\ TypeOK'
  BY TypeStep DEF GateInv, Next
<1> USE DEF GateInv
<1>2. UNCHANGED <<owner, tasks, locked, waiters, operation, pc, learner, basis>>
  BY DEF DelayedSave, Close, Flush, gate, lock, data
<1>3. OwnerAgrees' /\ ExclusiveUse'
  BY <1>2 DEF OwnerAgrees, ExclusiveUse, Holding
<1>4. CASE DelayedSave
  BY <1>1, <1>2, <1>3, <1>4
     DEF DelayedSave, QueueSound, NoLostWakeUp, ClosedDrains, QuietStop, gate,
         lock, shutdown
<1>5. ASSUME NEW s \in Stopper, Close(s)
      PROVE  GateInv'
  <2> DEFINE pending == {c \in Caller : tasks[c] > 0}
  <2>1. /\ closed' /\ joining'[s] = pending /\ stop'[s] = "joining"
        /\ \A r \in Stopper : r # s => stop'[r] = stop[r] /\ joining'[r] = joining[r]
        /\ \A c \in Caller : /\ doomed'[c] <=> (doomed[c] \/ c \in pending)
                             /\ future'[c] = IF c \in pending /\ future[c] = "pending"
                                             THEN "cancelled" ELSE future[c]
        /\ UNCHANGED data
    <3>1. closed' /\ UNCHANGED data
      BY <1>5 DEF Close
    <3>2. /\ joining'[s] = pending /\ stop'[s] = "joining"
          /\ \A r \in Stopper : r # s => stop'[r] = stop[r] /\ joining'[r] = joining[r]
      BY <1>1, <1>5 DEF Close, TypeOK
    <3>3. \A c \in Caller : doomed'[c] <=> (doomed[c] \/ c \in pending)
      BY <1>5 DEF Close
    <3>4. \A c \in Caller :
             future'[c] = IF c \in pending /\ future[c] = "pending"
                          THEN "cancelled" ELSE future[c]
      BY <1>5 DEF Close
    <3>5. QED
      BY <3>1, <3>2, <3>3, <3>4
  <2>2. \A i \in DOMAIN waiters :
           waiters[i] \in Caller /\ tasks[waiters[i]] \in 0..3
    BY <1>1 DEF TypeOK
  <2>3. \A i \in DOMAIN waiters : waiters[i] \in pending
    <3>1. \A i \in DOMAIN waiters : tasks[waiters[i]] # 0
      BY <1>1, <2>2 DEF TypeOK, QueueSound
    <3>2. QED
      BY <2>2, <3>1
  <2> HIDE DEF pending
  <2>4. QueueSound'
    BY <1>2, <2>1, <2>2, <2>3 DEF QueueSound
  <2>5. waiters # <<>> => Head(waiters) \in Caller
    BY <1>1 DEF TypeOK
  <2>6. NoLostWakeUp'
    BY <1>2, <2>1, <2>5 DEF NoLostWakeUp
  <2>7. ClosedDrains'
    BY <1>2, <2>1 DEF ClosedDrains, pending
  <2>8. QuietStop'
    BY <1>2, <2>1 DEF QuietStop, data, Image
  <2>9. QED
    BY <1>1, <1>3, <2>4, <2>6, <2>7, <2>8
<1>6. ASSUME NEW s \in Stopper, Flush(s)
      PROVE  GateInv'
  <2>1. /\ stop[s] = "joining" /\ stop'[s] = "stopped"
        /\ \A r \in Stopper : r # s => stop'[r] = stop[r]
        /\ disk' = Image /\ ~saveDue'
        /\ UNCHANGED <<gate, lock, doomed, operation, pc, learner, weather, joining>>
    BY <1>1, <1>6 DEF Flush, TypeOK
  <2>2. \A c \in Caller : tasks[c] = 0
    <3> SUFFICES ASSUME NEW c \in Caller, tasks[c] # 0
                 PROVE  FALSE
      OBVIOUS
    <3>1. tasks[c] \in 0..3
      BY <1>1 DEF TypeOK
    <3>2. tasks[c] > 0
      BY <3>1
    <3>3. c \in joining[s]
      BY <2>1, <3>2 DEF ClosedDrains
    <3>4. QED
      BY <1>6, <3>3 DEF Flush
  <2>3. QueueSound' /\ NoLostWakeUp'
    BY <2>1 DEF QueueSound, NoLostWakeUp, lock
  <2>4. ClosedDrains'
    BY <2>1 DEF ClosedDrains, gate
  <2>5. QuietStop'
    BY <2>1, <2>2 DEF QuietStop, Image, gate
  <2>6. QED
    BY <1>1, <1>3, <2>3, <2>4, <2>5
<1>7. QED
  BY <1>4, <1>5, <1>6

\* A stutter changes nothing the invariant speaks of.
LEMMA StutterGate ==
    ASSUME GateInv, UNCHANGED vars
    PROVE  GateInv'
BY DEF GateInv, TypeOK, OwnerAgrees, QueueSound, NoLostWakeUp, ExclusiveUse,
   ClosedDrains, QuietStop, Holding, Image, vars, gate, lock, data, shutdown

\* The gate invariant holds in every reachable state.
THEOREM GateInvariant == Spec => []GateInv
<1>1. ASSUME GateInv, [Next]_vars
      PROVE  GateInv'
  BY <1>1, EnterGate, GrantedGate, LeaveQueueGate, BodyGate, ExitGate, StopGate,
     StutterGate DEF Next, Step, Stopped
<1>2. QED
  BY <1>1, InitGate, PTL DEF Spec

\* No two learner operations are ever inside the gate together.
THEOREM MutualExclusionHolds == Spec => []MutualExclusion
<1>1. GateInv => MutualExclusion
  BY DEF GateInv, OwnerAgrees, MutualExclusion
<1>2. QED
  BY <1>1, GateInvariant, PTL

\* An operation always resumes on the learner state it last saw.
THEOREM ExclusiveUseHolds == Spec => []ExclusiveUse
<1>1. GateInv => ExclusiveUse
  BY DEF GateInv
<1>2. QED
  BY <1>1, GateInvariant, PTL

\* When async_stop has returned, nobody is inside and the file is complete.
THEOREM QuietStopHolds == Spec => []QuietStop
<1>1. GateInv => QuietStop
  BY DEF GateInv
<1>2. QED
  BY <1>1, GateInvariant, PTL

\* A free lock never strands its waiters.
THEOREM NoLostWakeUpHolds == Spec => []NoLostWakeUp
<1>1. GateInv => NoLostWakeUp
  BY DEF GateInv
<1>2. QED
  BY <1>1, GateInvariant, PTL

\* Every variable keeps its type and the task table stays exact.
THEOREM TypeCorrect == Spec => []TypeOK
<1>1. GateInv => TypeOK
  BY DEF GateInv
<1>2. QED
  BY <1>1, GateInvariant, PTL

\* Only an entering or a resuming task becomes owner.
LEMMA WhoBecomesOwner ==
    ASSUME TypeOK, [Next]_vars, NEW c \in Caller, owner' = c, owner # c
    PROVE  Granted(c) \/ \E o \in Mutating : EnterLocked(c, o)
BY CallerAssumption, ZenonT(60)
   DEF Next, Step, EnterTracked, EnterLocked, Enqueue, Start, Granted,
       LeaveQueue, ChangeLearner, StorePayload, EnterNested, LeaveNested, Leave,
       Unwind, Exit, DelayedSave, Close, Flush, Stopped, vars, gate

\* The lock is granted in arrival order among the waiters not cancelled.
THEOREM ArrivalOrderHolds == Spec => ArrivalOrder
<1> DEFINE Ordered ==
        \A c \in Caller :
            owner' = c /\ owner # c =>
                \A i \in DOMAIN waiters :
                    waiters[i] = c \/ doomed[waiters[i]] \/
                    \E j \in 1..i : waiters[j] = c
<1>1. ASSUME GateInv, [Next]_vars
      PROVE  Ordered
  <2> SUFFICES ASSUME NEW c \in Caller, owner' = c, owner # c,
                      NEW i \in DOMAIN waiters
               PROVE  waiters[i] = c \/ doomed[waiters[i]] \/
                      \E j \in 1..i : waiters[j] = c
    OBVIOUS
  <2>1. CASE Granted(c)
    <3>1. PICK k \in DOMAIN waiters : waiters[k] = c
      BY <2>1 DEF Granted
    <3>2. k = 1
      BY <1>1, <2>1, <3>1 DEF GateInv, QueueSound, Granted
    <3>3. 1 \in 1..i
      BY <1>1 DEF GateInv, TypeOK
    <3>4. QED
      BY <3>1, <3>2, <3>3
  <2>2. CASE \E o \in Mutating : EnterLocked(c, o)
    BY <1>1, <2>2 DEF EnterLocked, AtOnce, GateInv, QueueSound
  <2>3. QED
    BY <1>1, <2>1, <2>2, WhoBecomesOwner DEF GateInv
<1>2. QED
  BY <1>1, GateInvariant, PTL DEF Spec, ArrivalOrder

\* The gate implements the serial learner: initial states map to initial
\* states, and every step to a step of the same name or a stutter.
THEOREM ImplementsSerialLearner == Spec => Serialized
<1> DEFINE sealed == \E s \in Stopper : stop[s] = "stopped"
<1>1. Init => Serial!Init
  BY DEF Init, Serial!Init
<1>2. ASSUME GateInv, [Next]_vars
      PROVE  [Serial!Next]_(Serial!svars)
  <2> USE <1>2 DEF Serial!svars, GateInv
  <2>1. \A c \in Caller : tasks[c] > 0 /\ ~doomed[c] => ~sealed
    BY DEF ClosedDrains, QuietStop
  <2>2. ASSUME NEW c \in Caller, EnterTracked(c) \/ \E o \in Mutating : Enqueue(c, o)
        PROVE  UNCHANGED Serial!svars
    BY <2>2 DEF EnterTracked, Enqueue, Start, shutdown
  <2>3. ASSUME NEW c \in Caller, NEW o \in Mutating, EnterLocked(c, o)
        PROVE  Serial!Take(c)
    BY <2>3 DEF EnterLocked, AtOnce, Start, shutdown, OwnerAgrees, ClosedDrains,
                Serial!Take
  <2>4. ASSUME NEW c \in Caller, Granted(c)
        PROVE  Serial!Take(c)
    <3>1. PICK i \in DOMAIN waiters : waiters[i] = c
      BY <2>4 DEF Granted
    <3>2. ~locked /\ owner = NoCaller
      BY <2>4, <3>1 DEF Granted, QueueSound, OwnerAgrees
    <3>3. tasks[c] \in 0..3 /\ tasks[c] # 0
      BY <2>4 DEF Granted, TypeOK
    <3>4. tasks[c] > 0
      BY <3>3
    <3>5. ~sealed
      BY <2>1, <2>4, <3>4 DEF Granted
    <3>6. QED
      BY <2>4, <3>2, <3>5 DEF Granted, shutdown, Serial!Take
  <2>5. ASSUME NEW c \in Caller, ChangeLearner(c)
        PROVE  Serial!Change(c)
    <3>1. Holding(c)
      BY <2>5 DEF ChangeLearner, Holding
    <3>2. tasks[c] \in 0..3 /\ tasks[c] # 0
      BY <2>5 DEF ChangeLearner, TypeOK
    <3>3. tasks[c] > 0
      BY <3>2
    <3>4. ~sealed
      BY <2>1, <2>5, <3>3 DEF ChangeLearner
    <3>5. owner = c
      BY <3>1 DEF OwnerAgrees
    <3>6. QED
      BY <2>5, <3>4, <3>5 DEF ChangeLearner, gate, shutdown, Serial!Change
  <2>6. ASSUME NEW c \in Caller,
               StorePayload(c) \/ EnterNested(c) \/ LeaveNested(c) \/ LeaveQueue(c)
        PROVE  UNCHANGED Serial!svars
    BY <2>6 DEF StorePayload, EnterNested, LeaveNested, LeaveQueue, gate, data,
                shutdown
  <2>7. ASSUME NEW c \in Caller, Leave(c) \/ Unwind(c)
        PROVE  Serial!Release(c) \/ UNCHANGED Serial!svars
    <3>1. CASE operation[c] \in Mutating
      <4>1. owner = c
        BY <2>7, <3>1 DEF Leave, Unwind, Exit, Holding, OwnerAgrees
      <4>2. QED
        BY <2>7, <3>1, <4>1
           DEF Leave, Unwind, Exit, data, shutdown, Serial!Release
    <3>2. CASE operation[c] \notin Mutating
      BY <2>7, <3>2 DEF Leave, Unwind, Exit, data, shutdown
    <3>3. QED
      BY <3>1, <3>2
  <2>8. ASSUME DelayedSave
        PROVE  Serial!Save
    <3>1. ~sealed
      BY <2>8 DEF DelayedSave, QuietStop
    <3>2. QED
      BY <2>8, <3>1 DEF DelayedSave, Image, gate, shutdown, Serial!Save
  <2>9. ASSUME NEW s \in Stopper, Close(s)
        PROVE  UNCHANGED Serial!svars
    <3>1. \A r \in Stopper : stop'[r] = "stopped" <=> stop[r] = "stopped"
      BY <2>9 DEF Close, TypeOK
    <3>2. sealed' <=> sealed
      BY <3>1
    <3>3. sealed' = sealed
      BY <3>2
    <3>4. QED
      BY <2>9, <3>3 DEF Close, data
  <2>10. ASSUME NEW s \in Stopper, Flush(s)
         PROVE  Serial!Seal
    <3>1. \A c \in Caller : tasks[c] = 0
      <4> SUFFICES ASSUME NEW c \in Caller, tasks[c] # 0
                   PROVE  FALSE
        OBVIOUS
      <4>1. tasks[c] \in 0..3
        BY DEF TypeOK
      <4>2. tasks[c] > 0
        BY <4>1
      <4>3. c \in joining[s]
        BY <2>10, <4>2 DEF Flush, ClosedDrains
      <4>4. QED
        BY <2>10, <4>3 DEF Flush
    <3>2. owner = NoCaller
      BY <3>1 DEF TypeOK, OwnerAgrees, Holding
    <3>3. stop'[s] = "stopped"
      BY <2>10 DEF Flush, TypeOK
    <3>4. sealed' = TRUE
      BY <3>3
    <3>5. QED
      BY <2>10, <3>2, <3>4 DEF Flush, Image, gate, Serial!Seal
  <2>11. ASSUME UNCHANGED vars
         PROVE  UNCHANGED Serial!svars
    BY <2>11 DEF vars, gate, data, shutdown
  <2>12. /\ \A c \in Caller :
               Serial!Take(c) \/ Serial!Change(c) \/ Serial!Release(c) => Serial!Next
         /\ Serial!Save \/ Serial!Seal => Serial!Next
    BY DEF Serial!Next
  <2> HIDE DEF Serial!svars, GateInv
  <2>13. ASSUME NEW c \in Caller,
                EnterTracked(c) \/ (\E o \in Mutating : EnterLocked(c, o) \/ Enqueue(c, o))
                \/ Step(c)
         PROVE  Serial!Next \/ UNCHANGED Serial!svars
    BY <2>2, <2>3, <2>4, <2>5, <2>6, <2>7, <2>12, <2>13 DEF Step
  <2>14. ASSUME DelayedSave \/ (\E s \in Stopper : Close(s) \/ Flush(s)) \/ Stopped
                \/ UNCHANGED vars
         PROVE  Serial!Next \/ UNCHANGED Serial!svars
    BY <2>8, <2>9, <2>10, <2>11, <2>12, <2>14 DEF Stopped
  <2>15. Serial!Next \/ UNCHANGED Serial!svars
    BY <1>2, <2>13, <2>14 DEF Next
  <2>16. QED
    BY <2>15
<1>3. QED
  BY <1>1, <1>2, GateInvariant, PTL DEF Spec, Serialized, Serial!Spec
=============================================================================
