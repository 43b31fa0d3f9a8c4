------------------------ MODULE RequestQueuesProofs ------------------------
(***************************************************************************)
(* Theorems about RequestQueues for every number of requests, keys and     *)
(* connections.                                                            *)
(***************************************************************************)
EXTENDS RequestQueues, TLAPS

LEMMA TypeInit == Init => TypeOK
BY BoundAssumption DEF Init, TypeOK, Requests, Access, Status, ConnStates

LEMMA TypeStep == TypeOK /\ [Next]_vars => TypeOK'
<1> SUFFICES ASSUME TypeOK, [Next]_vars PROVE TypeOK'
  OBVIOUS
<1> USE BoundAssumption, KeysAssumption, ConnsAssumption
       DEF TypeOK, Access, Status, ConnStates
<1>1. ASSUME NEW c \in Conns, Connect(c) PROVE TypeOK'
  BY <1>1 DEF Connect, ConnectionOpened, Initialize, ConnectionClosed,
              reqVars, mapVars, loopVars
<1>2. ASSUME NEW c \in Conns, DispatchSpawned(c) PROVE TypeOK'
  BY <1>2 DEF DispatchSpawned, Arrive, mapVars, connVars, loopVars, Requests
<1>3. ASSUME NEW c \in Conns, CleanUp(c) PROVE TypeOK'
  BY <1>3 DEF CleanUp, CleanUpDrained, CleanUpTimedOut, reqVars, mapVars, loopVars
<1>4. ASSUME NEW k \in Keys, NEW a \in Access, NEW g \in Conns \cup {NoGate},
             Enqueue(k, a, g), UNCHANGED <<connVars, loopVars>>
      PROVE  TypeOK'
  <2>1. arrived + 1 \in Requests /\ arrived' \in 0 .. MaxRequests
    BY <1>4 DEF Enqueue, Arrive, Requests
  <2>2. queue' \in [Keys -> Seq(Requests)]
    BY <1>4, <2>1 DEF Enqueue
  <2>3. QED
    BY <1>4, <2>1, <2>2 DEF Enqueue, Arrive, connVars, loopVars
<1>5. ASSUME NEW c \in Conns, NEW k \in Keys, NEW a \in Access, DispatchSerialized(c, k, a)
      PROVE  TypeOK'
  BY <1>4, <1>5 DEF DispatchSerialized
<1>6. ASSUME NEW k \in Keys, NEW a \in Access, EnqueueBackground(k, a)
      PROVE  TypeOK'
  BY <1>4, <1>6 DEF EnqueueBackground
<1>7. ASSUME NEW k \in Keys, Drain(k) PROVE TypeOK'
  <2>1. CASE DrainPop(k)
    <3>1. PICK n \in 1 .. Len(queue[k]) :
            LET popped == {queue[k][i] : i \in 1 .. n}
            IN  /\ batch' = [batch EXCEPT ![k] = popped]
                /\ queue' = [queue EXCEPT ![k] = SubSeq(@, n + 1, Len(@))]
                /\ status' = [r \in Requests |-> IF r \in popped THEN "ready" ELSE status[r]]
      BY <2>1 DEF DrainPop
    <3>2. SubSeq(queue[k], n + 1, Len(queue[k])) \in Seq(Requests)
      OBVIOUS
    <3>3. {queue[k][i] : i \in 1 .. n} \subseteq Requests
      OBVIOUS
    <3>4. QED
      BY <2>1, <3>1, <3>2, <3>3 DEF DrainPop, reqVars, connVars, loopVars
  <2>2. CASE DrainReturn(k)
    BY <2>2 DEF DrainReturn, reqVars, connVars, loopVars
  <2>3. CASE JoinAll(k)
    BY <2>3 DEF JoinAll, reqVars, connVars, loopVars
  <2>4. QED
    BY <1>7, <2>1, <2>2, <2>3 DEF Drain
<1>8. ASSUME NEW r \in Requests, Running(r) PROVE TypeOK'
  <2> USE DEF reqVars, mapVars, connVars, loopVars
  <2>1. CASE Enter(r) \/ Reject(r) \/ Finish(r)
    <3>1. status' \in [Requests -> Status]
      BY <2>1 DEF Enter, Reject, Finish
    <3>2. UNCHANGED <<reqVars, mapVars, connVars, loopVars>>
      BY <2>1 DEF Enter, Reject, Finish
    <3>3. QED
      BY <3>1, <3>2
  <2>2. CASE Unwind(r)
    <3>1. status' \in [Requests -> Status]
      BY <2>2 DEF Unwind
    <3>2. /\ batch' \in [Keys -> SUBSET Requests]
          /\ drainer' \in [Keys -> {"none", "locking", "joining", "unwound"}]
      BY <2>2 DEF Unwind
    <3>3. QED
      BY <2>2, <3>1, <3>2 DEF Unwind
  <2>3. CASE Watch(r) \/ Unwatch(r)
    BY <2>3 DEF Watch, Unwatch
  <2>4. QED
    BY <1>8, <2>1, <2>2, <2>3 DEF Running
<1>9. ASSUME Stop PROVE TypeOK'
  <2> USE DEF reqVars, mapVars, connVars, loopVars
  <2>1. ASSUME NEW f \in BOOLEAN, OnSignal(f) PROVE TypeOK'
    BY <2>1 DEF OnSignal
  <2>2. ASSUME NEW t \in BOOLEAN, NEW n \in 0 .. 1, LoopExit(t, n) PROVE TypeOK'
    BY <2>2 DEF LoopExit
  <2>3. ASSUME NEW c \in Conns, ShutdownGate(c) PROVE TypeOK'
    BY <2>3 DEF ShutdownGate
  <2>4. CASE GatesShutdown \/ CleanUpsDrained
    BY <2>4 DEF GatesShutdown, CleanUpsDrained
  <2>5. QED
    BY <1>9, <2>1, <2>2, <2>3, <2>4 DEF Stop
<1>10. CASE UNCHANGED vars
  BY <1>10 DEF vars, reqVars, mapVars, connVars, loopVars
<1>11. QED
  BY <1>1, <1>2, <1>3, <1>5, <1>6, <1>7, <1>8, <1>9, <1>10 DEF Next

\* Every variable of the model keeps its type: in particular no request is
\* ever queued under a key outside the map, and a drain task pops requests only.
THEOREM TypeCorrect == Spec => []TypeOK
BY TypeInit, TypeStep, PTL DEF Spec


----------------------------------------------------------------------------
(* The inductive invariant of the queues. A key's requests are, in the     *)
(* order of their numbers: settled ones, the batch, the queue.             *)

Arrivals == \A r \in Requests : status[r] # "absent" <=> r <= arrived

QueueHolds ==
    \A k \in Keys : \A i \in 1 .. Len(queue[k]) :
        key[queue[k][i]] = k /\ status[queue[k][i]] = "queued"

QueueSorted ==
    \A k \in Keys : \A i, j \in 1 .. Len(queue[k]) :
        i < j => queue[k][i] < queue[k][j]

QueuedIsInQueue ==
    \A r \in Requests : status[r] = "queued" =>
        /\ key[r] \in Keys
        /\ \E i \in 1 .. Len(queue[key[r]]) : queue[key[r]][i] = r

PoppedBeforeQueue ==
    \A r \in Requests : \A k \in Keys : \A i \in 1 .. Len(queue[k]) :
        key[r] = k /\ Popped(r) => r < queue[k][i]

BatchHolds ==
    \A k \in Keys : \A r \in batch[k] : key[r] = k /\ Popped(r)

ActiveIsInBatch ==
    \A r \in Requests :
        status[r] \in {"ready", "running"} /\ key[r] # NoKey => r \in batch[key[r]]

BatchShares ==
    \A k \in Keys : \A r1, r2 \in batch[k] :
        r1 # r2 => access[r1] = "SharedRead" /\ access[r2] = "SharedRead"

BatchIsLast ==
    \A k \in Keys : \A r \in batch[k], q \in Requests :
        key[q] = k /\ Popped(q) /\ q \notin batch[k] => q < r

BatchOfJoining == \A k \in Keys : drainer[k] # "joining" => batch[k] = {}

Drained == \A k \in Keys : /\ k \in present <=> drainer[k] # "none"
                           /\ k \notin present => queue[k] = <<>>

QueueInv ==
    /\ TypeOK /\ Arrivals
    /\ QueueHolds /\ QueueSorted /\ QueuedIsInQueue /\ PoppedBeforeQueue
    /\ BatchHolds /\ ActiveIsInBatch /\ BatchShares /\ BatchIsLast /\ BatchOfJoining
    /\ Drained

(* The inductive invariant of closing and stopping.                        *)

GoneIsClosed == \A c \in Conns : conn[c] \in Gone => ~ accepting[c]

StoppingIsClosed ==
    /\ loop \in {"reaping", "stopped"} /\ signal # "forced" =>
          \A c \in Conns : conn[c] \in {"open", "ready"} =>
              ~ accepting[c] /\ Inflight(c) = {}
    /\ loop = "stopped" /\ signal # "forced" => \A c \in Conns : conn[c] # "closed"
    /\ loop # "running" /\ signal = "forced" => loop = "stopped"
    /\ loop # "stopped" => \A c \in Conns : conn[c] # "aborted"
    /\ signal # "forced" => \A c \in Conns : conn[c] # "aborted"

\* An RPC only exists for a connection that was opened.
GateWasOpened ==
    \A r \in Requests : gate[r] \in Conns => conn[gate[r]] # "absent"

CloseInv == TypeOK /\ GoneIsClosed /\ QuietAfterDrain /\ StoppingIsClosed /\ GateWasOpened

----------------------------------------------------------------------------
(* Lemmas, then one lemma per group of actions.                            *)

LEMMA FrontElement ==
    ASSUME NEW S, NEW q \in Seq(S), NEW n \in 1 .. Len(q)
    PROVE  /\ Len(SubSeq(q, n + 1, Len(q))) = Len(q) - n
           /\ \A i \in 1 .. Len(q) - n : SubSeq(q, n + 1, Len(q))[i] = q[n + i]
OBVIOUS

LEMMA AppendElement ==
    ASSUME NEW S, NEW q \in Seq(S), NEW x \in S
    PROVE  /\ Len(Append(q, x)) = Len(q) + 1
           /\ \A i \in 1 .. Len(q) : Append(q, x)[i] = q[i]
           /\ Append(q, x)[Len(q) + 1] = x
OBVIOUS

LEMMA QueueInit == Init => QueueInv
<1> SUFFICES ASSUME Init PROVE QueueInv
  OBVIOUS
<1> USE BoundAssumption, TypeInit DEF Init, Requests
<1>1. Arrivals
  BY DEF Arrivals
<1>2. QueueHolds /\ QueueSorted /\ QueuedIsInQueue /\ PoppedBeforeQueue
  BY DEF QueueHolds, QueueSorted, QueuedIsInQueue, PoppedBeforeQueue
<1>3. BatchHolds /\ ActiveIsInBatch /\ BatchShares /\ BatchIsLast /\ BatchOfJoining
  BY DEF BatchHolds, ActiveIsInBatch, BatchShares, BatchIsLast, BatchOfJoining
<1>4. Drained
  BY DEF Drained
<1> QED
  BY <1>1, <1>2, <1>3, <1>4 DEF QueueInv

\* Steps that leave requests and queues alone.
LEMMA QueueFrame ==
    ASSUME QueueInv, TypeOK', UNCHANGED <<reqVars, status, mapVars>>
    PROVE  QueueInv'
<1> USE DEF QueueInv, reqVars, mapVars
<1>1. Arrivals' /\ QueueHolds' /\ QueueSorted' /\ QueuedIsInQueue'
  BY DEF Arrivals, QueueHolds, QueueSorted, QueuedIsInQueue
<1>2. PoppedBeforeQueue' /\ BatchHolds' /\ ActiveIsInBatch' /\ BatchShares'
  BY DEF PoppedBeforeQueue, BatchHolds, ActiveIsInBatch, BatchShares, Popped
<1>3. BatchIsLast' /\ BatchOfJoining' /\ Drained'
  BY DEF BatchIsLast, BatchOfJoining, Drained, Popped
<1> QED
  BY <1>1, <1>2, <1>3

\* A request of a batch goes on: its status changes between popped values.
LEMMA QueueRun ==
    ASSUME QueueInv, TypeOK', UNCHANGED <<reqVars, mapVars>>,
           NEW r \in Requests, NEW s \in Settled \cup {"running"},
           status[r] \in {"ready", "running"},
           status' = [status EXCEPT ![r] = s]
    PROVE  QueueInv'
<1> USE DEF QueueInv, reqVars, mapVars, Settled, TypeOK
<1>1. \A q \in Requests : Popped(q)' <=> Popped(q)
  BY DEF Popped
<1>2. Arrivals' /\ QueueHolds' /\ QueueSorted' /\ QueuedIsInQueue'
  BY DEF Arrivals, QueueHolds, QueueSorted, QueuedIsInQueue
<1>3. PoppedBeforeQueue' /\ BatchHolds'
  BY <1>1 DEF PoppedBeforeQueue, BatchHolds
<1>4. ActiveIsInBatch' /\ BatchShares'
  BY DEF ActiveIsInBatch, BatchShares
<1>5. BatchIsLast' /\ BatchOfJoining' /\ Drained'
  BY <1>1 DEF BatchIsLast, BatchOfJoining, Drained
<1> QED
  BY <1>2, <1>3, <1>4, <1>5

\* The number of a request that has not arrived is in no queue and no batch.
LEMMA NewRequest ==
    ASSUME QueueInv, arrived < MaxRequests
    PROVE  /\ arrived + 1 \in Requests
           /\ status[arrived + 1] = "absent"
           /\ \A k \in Keys : arrived + 1 \notin batch[k]
           /\ \A k \in Keys : \A i \in 1 .. Len(queue[k]) : queue[k][i] < arrived + 1
<1> USE BoundAssumption DEF QueueInv
<1>1. arrived + 1 \in Requests
  BY DEF TypeOK, Requests
<1>2. status[arrived + 1] = "absent"
  BY <1>1 DEF Arrivals, TypeOK
<1>3. \A k \in Keys : arrived + 1 \notin batch[k]
  BY <1>2 DEF BatchHolds, Popped
<1>4. ASSUME NEW k \in Keys, NEW i \in 1 .. Len(queue[k])
      PROVE  queue[k][i] < arrived + 1
  <2>1. queue[k][i] \in Requests
    BY DEF TypeOK
  <2>2. status[queue[k][i]] # "absent"
    BY DEF QueueHolds
  <2> QED
    BY <2>1, <2>2 DEF Arrivals, TypeOK, Requests
<1> QED
  BY <1>1, <1>2, <1>3, <1>4

\* enqueue: the new number is the largest, so the queue stays sorted.
LEMMA QueueEnqueue ==
    ASSUME QueueInv, TypeOK',
           NEW k \in Keys, NEW a \in Access, NEW g, Enqueue(k, a, g)
    PROVE  QueueInv'
<1> DEFINE new == arrived + 1
<1> USE BoundAssumption, KeysAssumption DEF QueueInv, TypeOK
<1>1. /\ new \in Requests /\ status[new] = "absent"
      /\ \A l \in Keys : new \notin batch[l]
      /\ \A l \in Keys : \A i \in 1 .. Len(queue[l]) : queue[l][i] < new
  BY NewRequest DEF Enqueue, Arrive
<1>2. /\ arrived' = new
      /\ key' = [key EXCEPT ![new] = k]
      /\ access' = [access EXCEPT ![new] = a]
      /\ status' = [status EXCEPT ![new] = "queued"]
      /\ batch' = batch
  BY DEF Enqueue, Arrive
<1>3. /\ Len(queue'[k]) = Len(queue[k]) + 1
      /\ \A i \in 1 .. Len(queue[k]) : queue'[k][i] = queue[k][i]
      /\ queue'[k][Len(queue[k]) + 1] = new
      /\ \A l \in Keys \ {k} : queue'[l] = queue[l]
  BY <1>1, AppendElement DEF Enqueue
<1>4. /\ present' = present \cup {k}
      /\ drainer' = IF k \in present THEN drainer
                                     ELSE [drainer EXCEPT ![k] = "locking"]
  BY DEF Enqueue
<1>5. \A r \in Requests : r # new => /\ key'[r] = key[r] /\ access'[r] = access[r]
                                     /\ status'[r] = status[r]
  BY <1>1, <1>2
<1>6. /\ key'[new] = k /\ status'[new] = "queued"
      /\ \A r \in Requests : Popped(r)' <=> r # new /\ Popped(r)
  BY <1>1, <1>2, <1>5 DEF Popped
<1>7. Arrivals'
  BY <1>1, <1>2, <1>5, <1>6 DEF Arrivals, Requests
<1> HIDE DEF new
<1>8. ASSUME NEW l \in Keys, NEW i \in 1 .. Len(queue'[l])
      PROVE  \/ l = k /\ i = Len(queue[k]) + 1 /\ queue'[l][i] = new
             \/ i \in 1 .. Len(queue[l]) /\ queue'[l][i] = queue[l][i] /\ queue[l][i] < new
                /\ queue[l][i] \in Requests /\ queue[l][i] # new
  <2>1. CASE l # k
    BY <1>1, <1>3, <1>8, <2>1 DEF Requests
  <2>2. CASE l = k /\ i = Len(queue[k]) + 1
    BY <1>3, <2>2
  <2>3. CASE l = k /\ i # Len(queue[k]) + 1
    <3>1. i \in 1 .. Len(queue[l])
      BY <1>3, <1>8, <2>3
    <3> QED
      BY <1>1, <1>3, <3>1, <2>3 DEF Requests
  <2> QED
    BY <2>1, <2>2, <2>3
<1>9. QueueHolds'
  <2> SUFFICES ASSUME NEW l \in Keys, NEW i \in 1 .. Len(queue'[l])
               PROVE  key'[queue'[l][i]] = l /\ status'[queue'[l][i]] = "queued"
    BY DEF QueueHolds
  <2>1. CASE l = k /\ queue'[l][i] = new
    BY <1>6, <2>1
  <2>2. CASE /\ i \in 1 .. Len(queue[l]) /\ queue'[l][i] = queue[l][i]
             /\ queue[l][i] \in Requests /\ queue[l][i] # new
    BY <1>5, <2>2 DEF QueueHolds
  <2> QED
    BY <1>8, <2>1, <2>2
<1>10. QueueSorted'
  <2> SUFFICES ASSUME NEW l \in Keys, NEW i \in 1 .. Len(queue'[l]),
                      NEW j \in 1 .. Len(queue'[l]), i < j
               PROVE  queue'[l][i] < queue'[l][j]
    BY DEF QueueSorted
  <2>1. i \in 1 .. Len(queue[l]) /\ queue'[l][i] = queue[l][i] /\ queue[l][i] < new
    BY <1>3, <1>8
  <2>2. CASE queue'[l][j] = new
    BY <2>1, <2>2
  <2>3. CASE j \in 1 .. Len(queue[l]) /\ queue'[l][j] = queue[l][j]
    BY <2>1, <2>3 DEF QueueSorted
  <2> QED
    BY <1>8, <2>2, <2>3
<1>11. QueuedIsInQueue'
  <2> SUFFICES ASSUME NEW r \in Requests, status'[r] = "queued"
               PROVE  /\ key'[r] \in Keys
                      /\ \E i \in 1 .. Len(queue'[key'[r]]) : queue'[key'[r]][i] = r
    BY DEF QueuedIsInQueue
  <2>1. CASE r = new
    <3>1. key'[r] = k /\ queue'[k][Len(queue[k]) + 1] = r
      BY <1>3, <1>6, <2>1
    <3>2. Len(queue[k]) + 1 \in 1 .. Len(queue'[k])
      BY <1>3
    <3> QED
      BY <3>1, <3>2
  <2>2. CASE r # new
    <3>1. key'[r] = key[r] /\ key[r] \in Keys
      BY <1>5, <2>2 DEF QueuedIsInQueue
    <3>2. PICK i \in 1 .. Len(queue[key[r]]) : queue[key[r]][i] = r
      BY <1>5, <2>2 DEF QueuedIsInQueue
    <3>3. i \in 1 .. Len(queue'[key[r]]) /\ queue'[key[r]][i] = r
      <4>1. CASE key[r] = k
        BY <1>3, <3>2, <4>1
      <4>2. CASE key[r] # k
        BY <1>3, <3>1, <3>2, <4>2
      <4> QED
        BY <4>1, <4>2
    <3> QED
      BY <3>1, <3>3
  <2> QED
    BY <2>1, <2>2
<1>12. PoppedBeforeQueue'
  <2> SUFFICES ASSUME NEW r \in Requests, NEW l \in Keys, NEW i \in 1 .. Len(queue'[l]),
                      key'[r] = l, Popped(r)'
               PROVE  r < queue'[l][i]
    BY DEF PoppedBeforeQueue
  <2>1. r # new /\ Popped(r) /\ key[r] = l
    BY <1>5, <1>6
  <2>2. r < new
    BY <1>1, <2>1 DEF Arrivals, Popped, Requests, new
  <2>3. CASE i \in 1 .. Len(queue[l]) /\ queue'[l][i] = queue[l][i]
    BY <2>1, <2>3 DEF PoppedBeforeQueue
  <2> QED
    BY <1>8, <2>2, <2>3
<1>13. BatchHolds' /\ ActiveIsInBatch'
  <2>1. BatchHolds'
    BY <1>1, <1>2, <1>5, <1>6 DEF BatchHolds
  <2>2. ActiveIsInBatch'
    BY <1>2, <1>5, <1>6 DEF ActiveIsInBatch
  <2> QED
    BY <2>1, <2>2
<1>14. BatchShares'
  BY <1>1, <1>2, <1>5 DEF BatchShares
<1>15. BatchIsLast'
  BY <1>2, <1>5, <1>6 DEF BatchIsLast
<1>16. BatchOfJoining' /\ Drained'
  BY <1>2, <1>3, <1>4 DEF BatchOfJoining, Drained
<1> QED
  BY <1>7, <1>9, <1>10, <1>11, <1>12, <1>13, <1>14, <1>15, <1>16

\* A request with a task of its own belongs to no queue.
LEMMA QueueSpawn ==
    ASSUME QueueInv, TypeOK', NEW c \in Conns, DispatchSpawned(c)
    PROVE  QueueInv'
<1> DEFINE new == arrived + 1
<1> USE BoundAssumption, KeysAssumption DEF QueueInv, TypeOK, mapVars
<1>1. /\ new \in Requests /\ status[new] = "absent"
      /\ \A l \in Keys : new \notin batch[l]
      /\ \A l \in Keys : \A i \in 1 .. Len(queue[l]) : queue[l][i] < new
  BY NewRequest DEF DispatchSpawned, Arrive
<1>2. /\ arrived' = new
      /\ UNCHANGED mapVars
      /\ key'[new] = NoKey /\ status'[new] = "ready"
      /\ \A r \in Requests : r # new => /\ key'[r] = key[r] /\ access'[r] = access[r]
                                        /\ status'[r] = status[r]
  BY <1>1 DEF DispatchSpawned, Arrive
<1>3. \A r \in Requests : r # new => (Popped(r)' <=> Popped(r))
  BY <1>2 DEF Popped
<1>4. Arrivals'
  BY <1>1, <1>2 DEF Arrivals, Requests
<1>5. \A l \in Keys : \A i \in 1 .. Len(queue[l]) :
         queue[l][i] \in Requests /\ queue[l][i] # new
  BY <1>1 DEF QueueHolds
<1> HIDE DEF new
<1>6. QueueHolds' /\ QueueSorted'
  BY <1>2, <1>5 DEF QueueHolds, QueueSorted
<1>7. QueuedIsInQueue' /\ PoppedBeforeQueue'
  <2>1. QueuedIsInQueue'
    <3>1. \A r \in Requests : status'[r] = "queued" =>
             status[r] = "queued" /\ key'[r] = key[r]
      BY <1>2
    <3> QED
      BY <1>2, <3>1 DEF QueuedIsInQueue
  <2>2. PoppedBeforeQueue'
    BY <1>2, <1>3 DEF PoppedBeforeQueue
  <2> QED
    BY <2>1, <2>2
<1>8. BatchHolds' /\ ActiveIsInBatch'
  BY <1>1, <1>2, <1>3 DEF BatchHolds, ActiveIsInBatch
<1>9. BatchShares' /\ BatchIsLast'
  BY <1>1, <1>2, <1>3 DEF BatchShares, BatchIsLast
<1>10. BatchOfJoining' /\ Drained'
  BY <1>2 DEF BatchOfJoining, Drained
<1> QED
  BY <1>4, <1>6, <1>7, <1>8, <1>9, <1>10

\* drain pops the front of the queue: the batch lies between what was popped
\* before and what stays, and is one request or SharedReads only.
LEMMA QueuePop ==
    ASSUME QueueInv, TypeOK', NEW k \in Keys, DrainPop(k)
    PROVE  QueueInv'
<1> USE KeysAssumption DEF QueueInv, TypeOK
<1>1. PICK n \in 1 .. Len(queue[k]) :
        /\ IsFront(queue[k], n)
        /\ batch' = [batch EXCEPT ![k] = {queue[k][i] : i \in 1 .. n}]
        /\ queue' = [queue EXCEPT ![k] = SubSeq(@, n + 1, Len(@))]
        /\ status' = [r \in Requests |->
                        IF r \in {queue[k][i] : i \in 1 .. n} THEN "ready" ELSE status[r]]
  BY DEF DrainPop
<1> DEFINE P == {queue[k][i] : i \in 1 .. n}
<1>2. /\ Len(queue'[k]) = Len(queue[k]) - n
      /\ \A i \in 1 .. Len(queue[k]) - n : queue'[k][i] = queue[k][n + i]
      /\ \A l \in Keys \ {k} : queue'[l] = queue[l]
  BY <1>1, FrontElement
<1>3. \A r \in P : r \in Requests /\ key[r] = k /\ status[r] = "queued"
  BY DEF QueueHolds
<1>4. batch'[k] = P /\ \A l \in Keys \ {k} : batch'[l] = batch[l]
  BY <1>1
<1>5. \A r \in Requests : /\ r \in P => status'[r] = "ready"
                          /\ r \notin P => status'[r] = status[r]
  BY <1>1
<1>6. /\ UNCHANGED <<arrived, key, access, present>>
      /\ drainer[k] = "locking" /\ k \in present
      /\ drainer' = [drainer EXCEPT ![k] = "joining"]
  BY DEF DrainPop, reqVars
<1>7. \A r \in Requests : Popped(r)' <=> Popped(r) \/ r \in P
  BY <1>3, <1>5 DEF Popped
<1>8. \A r \in P : \A i \in 1 .. Len(queue'[k]) : r < queue'[k][i]
  <2> SUFFICES ASSUME NEW j \in 1 .. n, NEW i \in 1 .. Len(queue'[k])
               PROVE  queue[k][j] < queue'[k][i]
    OBVIOUS
  <2>1. queue'[k][i] = queue[k][n + i] /\ n + i \in 1 .. Len(queue[k])
    BY <1>2
  <2>2. j \in 1 .. Len(queue[k]) /\ j < n + i
    BY <1>2
  <2> QED
    BY <2>1, <2>2 DEF QueueSorted
<1>9. \A r1, r2 \in P : r1 # r2 => access[r1] = "SharedRead" /\ access[r2] = "SharedRead"
  BY <1>1 DEF IsFront
<1>10. \A q \in Requests : \A r \in P : key[q] = k /\ Popped(q) => q < r
  BY DEF PoppedBeforeQueue
<1> HIDE DEF P
<1>11. Arrivals'
  BY <1>3, <1>5, <1>6 DEF Arrivals
<1>12. ASSUME NEW l \in Keys, NEW i \in 1 .. Len(queue'[l])
       PROVE  \E j \in 1 .. Len(queue[l]) : /\ queue'[l][i] = queue[l][j]
                                            /\ queue'[l][i] \in Requests
                                            /\ queue'[l][i] \notin P
  <2>1. CASE l = k
    <3>1. queue'[l][i] = queue[l][n + i] /\ n + i \in 1 .. Len(queue[l])
      BY <1>2, <1>12, <2>1
    <3>2. queue'[l][i] \in Requests
      BY <3>1
    <3>3. queue'[l][i] \notin P
      BY <1>8, <1>12, <2>1, <3>2 DEF Requests
    <3> QED
      BY <3>1, <3>2, <3>3
  <2>2. CASE l # k
    <3>1. queue'[l] = queue[l]
      BY <1>2, <2>2
    <3>2. queue[l][i] \in Requests /\ key[queue[l][i]] = l
      BY <1>12, <3>1 DEF QueueHolds
    <3>3. queue[l][i] \notin P
      BY <1>3, <2>2, <3>2
    <3> QED
      BY <1>12, <3>1, <3>2, <3>3
  <2> QED
    BY <2>1, <2>2
<1>13. QueueHolds'
  <2> SUFFICES ASSUME NEW l \in Keys, NEW i \in 1 .. Len(queue'[l])
               PROVE  key'[queue'[l][i]] = l /\ status'[queue'[l][i]] = "queued"
    BY DEF QueueHolds
  <2>1. PICK j \in 1 .. Len(queue[l]) : /\ queue'[l][i] = queue[l][j]
                                        /\ queue'[l][i] \in Requests
                                        /\ queue'[l][i] \notin P
    BY <1>12
  <2> QED
    BY <1>5, <1>6, <2>1 DEF QueueHolds
<1>14. QueueSorted'
  <2> SUFFICES ASSUME NEW l \in Keys, NEW i \in 1 .. Len(queue'[l]),
                      NEW j \in 1 .. Len(queue'[l]), i < j
               PROVE  queue'[l][i] < queue'[l][j]
    BY DEF QueueSorted
  <2>1. CASE l = k
    <3>1. /\ queue'[l][i] = queue[l][n + i] /\ n + i \in 1 .. Len(queue[l])
          /\ queue'[l][j] = queue[l][n + j] /\ n + j \in 1 .. Len(queue[l])
          /\ n + i < n + j
      BY <1>2, <2>1
    <3> QED
      BY <3>1 DEF QueueSorted
  <2>2. CASE l # k
    BY <1>2, <2>2 DEF QueueSorted
  <2> QED
    BY <2>1, <2>2
<1>15. QueuedIsInQueue'
  <2> SUFFICES ASSUME NEW r \in Requests, status'[r] = "queued"
               PROVE  /\ key[r] \in Keys
                      /\ \E i \in 1 .. Len(queue'[key[r]]) : queue'[key[r]][i] = r
    BY <1>6 DEF QueuedIsInQueue
  <2>1. r \notin P /\ status[r] = "queued"
    BY <1>5
  <2>2. key[r] \in Keys
    BY <2>1 DEF QueuedIsInQueue
  <2>3. PICK i \in 1 .. Len(queue[key[r]]) : queue[key[r]][i] = r
    BY <2>1 DEF QueuedIsInQueue
  <2>4. CASE key[r] = k
    <3>1. i \notin 1 .. n
      BY <2>1, <2>3, <2>4 DEF P
    <3>2. i - n \in 1 .. Len(queue'[k]) /\ n + (i - n) = i
      BY <1>2, <2>3, <2>4, <3>1
    <3>3. queue'[k][i - n] = queue[k][i]
      BY <1>2, <3>2
    <3> QED
      BY <2>2, <2>3, <2>4, <3>2, <3>3
  <2>5. CASE key[r] # k
    BY <1>2, <2>2, <2>3, <2>5
  <2> QED
    BY <2>4, <2>5
<1>16. PoppedBeforeQueue'
  <2> SUFFICES ASSUME NEW r \in Requests, NEW l \in Keys, NEW i \in 1 .. Len(queue'[l]),
                      key[r] = l, Popped(r)'
               PROVE  r < queue'[l][i]
    BY <1>6 DEF PoppedBeforeQueue
  <2>1. CASE r \in P
    BY <1>3, <1>8, <2>1
  <2>2. CASE r \notin P
    <3>1. Popped(r)
      BY <1>7, <2>2
    <3> QED
      BY <1>12, <3>1 DEF PoppedBeforeQueue
  <2> QED
    BY <2>1, <2>2
<1>17. BatchHolds'
  <2> SUFFICES ASSUME NEW l \in Keys, NEW r \in batch'[l]
               PROVE  key[r] = l /\ Popped(r)'
    BY <1>6 DEF BatchHolds
  <2>1. CASE l = k
    BY <1>3, <1>4, <1>7, <2>1
  <2>2. CASE l # k
    BY <1>4, <1>7, <2>2 DEF BatchHolds
  <2> QED
    BY <2>1, <2>2
<1>18. ActiveIsInBatch'
  <2> SUFFICES ASSUME NEW r \in Requests, key[r] # NoKey,
                      status'[r] \in {"ready", "running"}
               PROVE  r \in batch'[key[r]]
    BY <1>6 DEF ActiveIsInBatch
  <2>1. CASE r \in P
    BY <1>3, <1>4, <2>1
  <2>2. CASE r \notin P
    <3>1. r \in batch[key[r]] /\ key[r] \in Keys
      BY <1>5, <2>2 DEF ActiveIsInBatch
    <3>2. key[r] # k
      BY <1>6, <3>1 DEF BatchOfJoining
    <3> QED
      BY <1>4, <3>1, <3>2
  <2> QED
    BY <2>1, <2>2
<1>19. BatchShares'
  <2> SUFFICES ASSUME NEW l \in Keys, NEW r1 \in batch'[l], NEW r2 \in batch'[l], r1 # r2
               PROVE  access[r1] = "SharedRead" /\ access[r2] = "SharedRead"
    BY <1>6 DEF BatchShares
  <2>1. CASE l = k
    BY <1>4, <1>9, <2>1
  <2>2. CASE l # k
    BY <1>4, <2>2 DEF BatchShares
  <2> QED
    BY <2>1, <2>2
<1>20. BatchIsLast'
  <2> SUFFICES ASSUME NEW l \in Keys, NEW r \in batch'[l], NEW q \in Requests,
                      key[q] = l, Popped(q)', q \notin batch'[l]
               PROVE  q < r
    BY <1>6 DEF BatchIsLast
  <2>1. q \notin P /\ Popped(q)
    BY <1>3, <1>4, <1>7
  <2>2. CASE l = k
    BY <1>4, <1>10, <2>1, <2>2
  <2>3. CASE l # k
    BY <1>4, <2>1, <2>3 DEF BatchIsLast
  <2> QED
    BY <2>2, <2>3
<1>21. BatchOfJoining'
  BY <1>4, <1>6 DEF BatchOfJoining
<1>22. Drained'
  BY <1>2, <1>6 DEF Drained
<1> QED
  BY <1>11, <1>13, <1>14, <1>15, <1>16, <1>17, <1>18, <1>19, <1>20, <1>21, <1>22

\* The key leaves the map only when its queue is empty.
LEMMA QueueReturn ==
    ASSUME QueueInv, TypeOK', NEW k \in Keys, DrainReturn(k)
    PROVE  QueueInv'
<1> USE DEF QueueInv, TypeOK
<1>1. /\ UNCHANGED <<arrived, key, access, status, queue, batch>>
      /\ present' = present \ {k}
      /\ drainer[k] = "locking" /\ drainer' = [drainer EXCEPT ![k] = "none"]
      /\ k \in present => queue[k] = <<>>
  BY DEF DrainReturn, reqVars
<1>2. Arrivals' /\ QueueHolds' /\ QueueSorted' /\ QueuedIsInQueue'
  BY <1>1 DEF Arrivals, QueueHolds, QueueSorted, QueuedIsInQueue
<1>3. PoppedBeforeQueue' /\ BatchHolds' /\ ActiveIsInBatch' /\ BatchShares' /\ BatchIsLast'
  BY <1>1 DEF PoppedBeforeQueue, BatchHolds, ActiveIsInBatch, BatchShares, BatchIsLast, Popped
<1>4. BatchOfJoining' /\ Drained'
  BY <1>1 DEF BatchOfJoining, Drained
<1> QED
  BY <1>2, <1>3, <1>4

\* The batch of key k is dissolved: no member of it is ready or running after.
LEMMA QueueDissolve ==
    ASSUME QueueInv, TypeOK', NEW k \in Keys, drainer[k] = "joining",
           UNCHANGED <<arrived, key, access, queue, present>>,
           batch' = [batch EXCEPT ![k] = {}],
           NEW d \in {"locking", "unwound"},
           drainer' = [drainer EXCEPT ![k] = d],
           \A r \in Requests : r \notin batch[k] => status'[r] = status[r],
           \A r \in batch[k] : status'[r] \in Settled
    PROVE  QueueInv'
<1> USE KeysAssumption DEF QueueInv, TypeOK
<1>1. \A r \in Requests : Popped(r)' <=> Popped(r)
  BY DEF Popped, Settled, BatchHolds
<1>2. \A r \in Requests : status'[r] # status[r] =>
         Popped(r) /\ status[r] \notin {"absent", "queued"} /\ status'[r] \in Settled
  BY DEF BatchHolds, Popped
<1>3. Arrivals'
  BY <1>2 DEF Arrivals, Settled
<1>4. QueueHolds' /\ QueueSorted'
  <2>1. \A l \in Keys : \A i \in 1 .. Len(queue[l]) : status'[queue[l][i]] = "queued"
    BY <1>2 DEF QueueHolds
  <2> QED
    BY <2>1 DEF QueueHolds, QueueSorted
<1>5. QueuedIsInQueue'
  <2>1. \A r \in Requests : status'[r] = "queued" => status[r] = "queued"
    BY <1>2 DEF Settled
  <2> QED
    BY <2>1 DEF QueuedIsInQueue
<1>6. PoppedBeforeQueue'
  BY <1>1 DEF PoppedBeforeQueue
<1>7. BatchHolds'
  BY <1>1 DEF BatchHolds
<1>8. ActiveIsInBatch'
  <2> SUFFICES ASSUME NEW r \in Requests, status'[r] \in {"ready", "running"}, key[r] # NoKey
               PROVE  r \in batch'[key[r]]
    BY DEF ActiveIsInBatch
  <2>1. status'[r] = status[r] /\ r \notin batch[k]
    BY <1>2 DEF Settled
  <2>2. r \in batch[key[r]] /\ key[r] \in Keys /\ key[r] # k
    BY <2>1 DEF ActiveIsInBatch
  <2> QED
    BY <2>2
<1>9. BatchShares' /\ BatchIsLast'
  <2>1. ASSUME NEW l \in Keys, NEW r \in batch'[l] PROVE l # k /\ batch'[l] = batch[l]
    BY <2>1
  <2>2. BatchShares'
    BY <2>1 DEF BatchShares
  <2>3. BatchIsLast'
    BY <1>1, <2>1 DEF BatchIsLast
  <2> QED
    BY <2>2, <2>3
<1>10. BatchOfJoining' /\ Drained'
  BY DEF BatchOfJoining, Drained
<1> QED
  BY <1>3, <1>4, <1>5, <1>6, <1>7, <1>8, <1>9, <1>10

LEMMA QueueStep == QueueInv /\ [Next]_vars => QueueInv'
<1> SUFFICES ASSUME QueueInv, [Next]_vars PROVE QueueInv'
  OBVIOUS
<1> USE KeysAssumption
<1>1. TypeOK /\ TypeOK'
  BY TypeStep DEF QueueInv
<1>2. ASSUME NEW c \in Conns, Connect(c) \/ CleanUp(c) PROVE QueueInv'
  <2>1. UNCHANGED <<reqVars, status, mapVars>>
    BY <1>2 DEF Connect, ConnectionOpened, Initialize, ConnectionClosed,
                CleanUp, CleanUpDrained, CleanUpTimedOut
  <2> QED
    BY <1>1, <2>1, QueueFrame
<1>3. ASSUME NEW c \in Conns, DispatchSpawned(c) PROVE QueueInv'
  BY <1>1, <1>3, QueueSpawn
<1>4. ASSUME NEW c \in Conns, NEW k \in Keys, NEW a \in Access, DispatchSerialized(c, k, a)
      PROVE  QueueInv'
  BY <1>1, <1>4, QueueEnqueue DEF DispatchSerialized
<1>5. ASSUME NEW k \in Keys, NEW a \in Access, EnqueueBackground(k, a) PROVE QueueInv'
  BY <1>1, <1>5, QueueEnqueue DEF EnqueueBackground
<1>6. ASSUME NEW k \in Keys, Drain(k) PROVE QueueInv'
  <2>1. CASE DrainPop(k)
    BY <1>1, <2>1, QueuePop
  <2>2. CASE DrainReturn(k)
    BY <1>1, <2>2, QueueReturn
  <2>3. CASE JoinAll(k)
    <3>1. /\ drainer[k] = "joining" /\ UNCHANGED <<arrived, key, access, queue, present>>
          /\ batch' = [batch EXCEPT ![k] = {}]
          /\ drainer' = [drainer EXCEPT ![k] = "locking"]
          /\ status' = status /\ \A r \in batch[k] : status[r] \in Settled
      BY <2>3 DEF JoinAll, reqVars
    <3> QED
      BY <1>1, <3>1, QueueDissolve
  <2> QED
    BY <1>6, <2>1, <2>2, <2>3 DEF Drain
<1>7. ASSUME NEW r \in Requests, Running(r) PROVE QueueInv'
  <2>1. CASE Enter(r)
    BY <1>1, <2>1, QueueRun DEF Enter
  <2>2. CASE Reject(r)
    BY <1>1, <2>2, QueueRun DEF Reject, Settled
  <2>3. CASE Finish(r)
    BY <1>1, <2>3, QueueRun DEF Finish, Settled
  <2>4. CASE Unwind(r) /\ key[r] = NoKey
    BY <1>1, <2>4, QueueRun DEF Unwind, Settled
  <2>5. CASE Unwind(r) /\ key[r] # NoKey
    <3> DEFINE k == key[r]
    <3>1. k \in Keys
      BY <1>1, <2>5 DEF TypeOK
    <3>2. r \in batch[k]
      BY <2>5 DEF Unwind, QueueInv, ActiveIsInBatch
    <3>3. drainer[k] = "joining"
      BY <3>1, <3>2 DEF QueueInv, BatchOfJoining
    <3>4. /\ UNCHANGED <<arrived, key, access, queue, present>>
          /\ batch' = [batch EXCEPT ![k] = {}]
          /\ drainer' = [drainer EXCEPT ![k] = "unwound"]
      BY <2>5 DEF Unwind, reqVars
    <3>5. /\ \A q \in Requests : q \notin batch[k] => status'[q] = status[q]
          /\ \A q \in batch[k] : status'[q] \in Settled
      BY <1>1, <2>5, <3>1 DEF Unwind, Settled, TypeOK
    <3> QED
      BY <1>1, <3>1, <3>3, <3>4, <3>5, QueueDissolve
  <2>6. CASE Watch(r) \/ Unwatch(r)
    BY <1>1, <2>6, QueueFrame DEF Watch, Unwatch
  <2> QED
    BY <1>7, <2>1, <2>2, <2>3, <2>4, <2>5, <2>6 DEF Running
<1>8. ASSUME Stop PROVE QueueInv'
  <2>1. UNCHANGED <<reqVars, status, mapVars>>
    BY <1>8 DEF Stop, OnSignal, LoopExit, ShutdownGate, GatesShutdown, CleanUpsDrained
  <2> QED
    BY <1>1, <2>1, QueueFrame
<1>9. CASE UNCHANGED vars
  BY <1>1, <1>9, QueueFrame DEF vars
<1> QED
  BY <1>2, <1>3, <1>4, <1>5, <1>6, <1>7, <1>8, <1>9 DEF Next

LEMMA QueueInvariant == Spec => []QueueInv
BY QueueInit, QueueStep, PTL DEF Spec

\* For every number of requests: two handlers of one key run together only if
\* both are SharedRead, whatever connections, panics and shutdown do.
THEOREM ExclusiveRunsAloneCorrect == Spec => []ExclusiveRunsAlone
<1>1. QueueInv => ExclusiveRunsAlone
  BY DEF QueueInv, TypeOK, ExclusiveRunsAlone, ActiveIsInBatch, BatchShares
<1> QED
  BY <1>1, QueueInvariant, PTL

\* QueueInv says where the earlier requests of a popped one are: settled or
\* in the same batch.
LEMMA InOrder == QueueInv => ServedInOrder
<1> SUFFICES ASSUME QueueInv, NEW r1 \in Requests, NEW r2 \in Requests, r1 < r2,
                    key[r1] = key[r2], key[r1] # NoKey, Popped(r2),
                    status[r1] \notin Settled
             PROVE  Popped(r1) /\ access[r1] = "SharedRead" /\ access[r2] = "SharedRead"
  BY DEF ServedInOrder
<1> DEFINE k == key[r1]
<1> USE BoundAssumption DEF QueueInv
<1>1. k \in Keys
  BY DEF TypeOK
<1>2. status[r1] # "absent"
  BY DEF Arrivals, TypeOK, Popped, Requests
<1>3. status[r1] # "queued"
  <2> SUFFICES ASSUME status[r1] = "queued" PROVE FALSE
    OBVIOUS
  <2>1. PICK i \in 1 .. Len(queue[k]) : queue[k][i] = r1
    BY DEF QueuedIsInQueue
  <2>2. r2 < r1
    BY <1>1, <2>1 DEF PoppedBeforeQueue
  <2> QED
    BY <2>2 DEF Requests
<1>4. status[r1] \in {"ready", "running"}
  BY <1>2, <1>3 DEF TypeOK, Status, Settled
<1>5. r1 \in batch[k]
  BY <1>4 DEF ActiveIsInBatch
<1>6. r2 \in batch[k]
  <2> SUFFICES ASSUME r2 \notin batch[k] PROVE FALSE
    OBVIOUS
  <2>1. r2 < r1
    BY <1>1, <1>5 DEF BatchIsLast
  <2> QED
    BY <2>1 DEF Requests
<1>7. r1 # r2
  BY DEF Requests
<1> QED
  BY <1>1, <1>4, <1>5, <1>6, <1>7 DEF BatchShares, Popped

\* For every number of requests: the requests of a key leave its queue in the
\* order of their enqueue, an earlier one being over first unless both share.
THEOREM ServedInOrderCorrect == Spec => []ServedInOrder
BY InOrder, QueueInvariant, PTL

\* For every number of requests: no request sits in a queue nobody drains,
\* except behind a handler that panicked.
THEOREM QueuedHasDrainerCorrect == Spec => []QueuedHasDrainer
<1>1. QueueInv => QueuedHasDrainer
  <2> SUFFICES ASSUME QueueInv, NEW r \in Requests, status[r] = "queued"
               PROVE  key[r] \in present /\ drainer[key[r]] # "none"
    BY DEF QueuedHasDrainer
  <2>1. key[r] \in Keys /\ queue[key[r]] # <<>>
    BY DEF QueueInv, QueuedIsInQueue
  <2> QED
    BY <2>1 DEF QueueInv, Drained
<1> QED
  BY <1>1, QueueInvariant, PTL

----------------------------------------------------------------------------
(* The queues implement SerializedRequests. QueueInv supplies the one thing *)
(* a step has to show there, that a request which leaves its queue has its  *)
(* turn.                                                                   *)

\* A request that has left its queue has its turn.
LEMMA PoppedHasTurn ==
    ASSUME QueueInv, NEW r \in Requests, Popped(r)
    PROVE  Service!ItsTurn(r)
<1> SUFFICES ASSUME NEW q \in Requests, q < r, key[q] = key[r], key[r] # NoKey
             PROVE  Phase[status[q]] = "over" \/ Service!Together(q, r)
  BY DEF Service!ItsTurn
<1>1. \/ status[q] \in Settled
      \/ access[q] = "SharedRead" /\ access[r] = "SharedRead"
  BY InOrder DEF ServedInOrder
<1> QED
  BY <1>1 DEF Service!Together, Settled, Phase

\* A request that has not arrived comes.
LEMMA ServiceCome ==
    ASSUME QueueInv, NEW k \in Keys \cup {NoKey}, NEW a \in Access, NEW g,
           NEW s \in {"queued", "ready"}, Arrive(k, a, g, s)
    PROVE  Service!Next
<1>1. PICK new \in Requests : new = arrived + 1
  BY BoundAssumption DEF Arrive, QueueInv, TypeOK, Requests
<1>2. \A q \in Requests : status[q] = "absent" <=> new <= q
  BY <1>1, BoundAssumption DEF QueueInv, TypeOK, Arrivals, Requests
<1>3. \A q \in Requests : Phase[status[q]] = "absent" <=> status[q] = "absent"
  BY DEF QueueInv, TypeOK, Status, Phase
<1>4. status[new] = "absent"
  BY <1>2 DEF Requests
<1>5. /\ key' = [key EXCEPT ![new] = k]
      /\ access' = [access EXCEPT ![new] = a]
      /\ status' = [status EXCEPT ![new] = s]
  BY <1>1 DEF Arrive
<1>6. /\ Phase[status'[new]] = "waiting"
      /\ \A q \in Requests \ {new} : status'[q] = status[q]
  BY <1>5 DEF QueueInv, TypeOK, Phase
<1>7. [q \in Requests |-> Phase[status'[q]]]
        = [[q \in Requests |-> Phase[status[q]]] EXCEPT ![new] = "waiting"]
  BY <1>6
<1>8. Service!Come(new)
  BY <1>2, <1>3, <1>4, <1>5, <1>7 DEF Service!Come, Access
<1> QED
  BY <1>8 DEF Service!Next

\* Requests of one batch, or one alone, end.
LEMMA ServiceEnd ==
    ASSUME QueueInv, UNCHANGED <<key, access>>, NEW r \in Requests,
           status[r] \in {"ready", "running"}, status'[r] \in Settled,
           NEW S \in SUBSET Requests,
           \A q \in S : status[q] \in {"ready", "running"} /\ status'[q] \in Settled,
           \A q \in S : key[q] = key[r] /\ key[r] # NoKey /\ Service!Together(q, r),
           \A q \in Requests \ (S \cup {r}) : status'[q] = status[q]
    PROVE  Service!Next
<1>1. \A q \in S \cup {r} : Service!ItsTurn(q)
  BY PoppedHasTurn DEF Popped
<1>2. \A q \in S \cup {r} : Service!Active(q)
  BY DEF Service!Active, Phase
<1>3. [q \in Requests |-> Phase[status'[q]]]
        = [q \in Requests |-> IF q \in S \cup {r} THEN "over" ELSE Phase[status[q]]]
  BY DEF Phase, Settled
<1>4. Service!End(r)
  BY <1>1, <1>2, <1>3 DEF Service!End
<1> QED
  BY <1>4 DEF Service!Next

\* Every step is one SerializedRequests allows, or changes nothing there.
LEMMA ServiceStep == QueueInv /\ [Next]_vars => [Service!Next]_(Service!vars)
<1> SUFFICES ASSUME QueueInv, [Next]_vars PROVE Service!Next \/ UNCHANGED Service!vars
  OBVIOUS
<1> USE BoundAssumption, KeysAssumption
<1>1. ASSUME UNCHANGED <<key, access, status>> PROVE UNCHANGED Service!vars
  BY <1>1 DEF Service!vars
<1>2. ASSUME NEW c \in Conns, Connect(c) \/ CleanUp(c) PROVE UNCHANGED Service!vars
  BY <1>1, <1>2 DEF Connect, ConnectionOpened, Initialize, ConnectionClosed, CleanUp,
                    CleanUpDrained, CleanUpTimedOut, reqVars
<1>3. ASSUME NEW c \in Conns, DispatchSpawned(c) PROVE Service!Next
  BY <1>3, ServiceCome DEF DispatchSpawned, Access
<1>4. ASSUME NEW c \in Conns, NEW k \in Keys, NEW a \in Access, DispatchSerialized(c, k, a)
      PROVE  Service!Next
  BY <1>4, ServiceCome DEF DispatchSerialized, Enqueue
<1>5. ASSUME NEW k \in Keys, NEW a \in Access, EnqueueBackground(k, a) PROVE Service!Next
  BY <1>5, ServiceCome DEF EnqueueBackground, Enqueue
<1>6. ASSUME NEW k \in Keys, Drain(k) PROVE UNCHANGED Service!vars
  <2>1. CASE DrainPop(k)
    <3>1. UNCHANGED <<key, access>>
      BY <2>1 DEF DrainPop, reqVars
    <3>2. \A q \in Requests : status'[q] = status[q] \/ (status[q] = "queued" /\ status'[q] = "ready")
      <4>1. PICK n \in 1 .. Len(queue[k]) :
              status' = [q \in Requests |-> IF q \in {queue[k][i] : i \in 1 .. n} THEN "ready"
                                                                                 ELSE status[q]]
        BY <2>1 DEF DrainPop
      <4>2. \A i \in 1 .. n : status[queue[k][i]] = "queued"
        BY DEF QueueInv, TypeOK, QueueHolds
      <4> DEFINE popped == {queue[k][i] : i \in 1 .. n}
      <4>3. \A q \in popped : status[q] = "queued"
        BY <4>2
      <4>4. status' = [q \in Requests |-> IF q \in popped THEN "ready" ELSE status[q]]
        BY <4>1
      <4> HIDE DEF popped
      <4> QED
        BY <4>3, <4>4
    <3>3. [q \in Requests |-> Phase[status'[q]]] = [q \in Requests |-> Phase[status[q]]]
      BY <3>2 DEF Phase
    <3> QED
      BY <3>1, <3>3 DEF Service!vars
  <2>2. CASE DrainReturn(k) \/ JoinAll(k)
    BY <1>1, <2>2 DEF DrainReturn, JoinAll, reqVars
  <2> QED
    BY <1>6, <2>1, <2>2 DEF Drain
<1>7. ASSUME NEW r \in Requests, Running(r) PROVE Service!Next \/ UNCHANGED Service!vars
  <2> USE DEF reqVars
  <2>1. CASE Enter(r)
    <3>1. /\ status[r] = "ready" /\ status' = [status EXCEPT ![r] = "running"]
          /\ UNCHANGED <<key, access>>
      BY <2>1 DEF Enter
    <3>2. Service!ItsTurn(r)
      BY <3>1, PoppedHasTurn DEF Popped
    <3>3. [q \in Requests |-> Phase[status'[q]]]
            = [[q \in Requests |-> Phase[status[q]]] EXCEPT ![r] = "running"]
      BY <3>1 DEF QueueInv, TypeOK, Phase
    <3>4. Service!Begin(r)
      BY <3>1, <3>2, <3>3 DEF Service!Begin, Phase
    <3> QED
      BY <3>4 DEF Service!Next
  <2>2. ASSUME status[r] \in {"ready", "running"}, NEW s \in Settled,
               status' = [status EXCEPT ![r] = s], UNCHANGED <<key, access>>
        PROVE  Service!Next
    <3>1. status'[r] \in Settled /\ \A q \in Requests \ {r} : status'[q] = status[q]
      BY <2>2 DEF QueueInv, TypeOK
    <3> DEFINE S == {}
    <3>2. S \in SUBSET Requests /\ S \cup {r} = {r}
      OBVIOUS
    <3>3. \A q \in S : FALSE
      OBVIOUS
    <3> HIDE DEF S
    <3> QED
      BY <2>2, <3>1, <3>2, <3>3, ServiceEnd
  <2>3. CASE Reject(r) \/ Finish(r)
    BY <2>2, <2>3 DEF Reject, Finish, Settled
  <2>4. CASE Unwind(r) /\ key[r] = NoKey
    BY <2>2, <2>4 DEF Unwind, Settled
  <2>5. CASE Unwind(r) /\ key[r] # NoKey
    <3> DEFINE k == key[r]
               S == {q \in batch[k] \ {r} : status[q] \notin Settled}
    <3>1. k \in Keys /\ batch[k] \subseteq Requests /\ UNCHANGED <<key, access>>
      BY <2>5 DEF Unwind, QueueInv, TypeOK
    <3>2. r \in batch[k] /\ status[r] = "running"
      BY <2>5 DEF Unwind, QueueInv, ActiveIsInBatch
    <3>3. \A q \in S : key[q] = k /\ status[q] \in {"ready", "running"}
      BY <3>1 DEF QueueInv, TypeOK, BatchHolds, Popped, Status, Settled
    <3>4. \A q \in S : Service!Together(q, r)
      BY <3>1, <3>2 DEF QueueInv, BatchShares, Service!Together
    <3>5. /\ \A q \in S \cup {r} : status'[q] \in Settled
          /\ \A q \in Requests \ (S \cup {r}) : status'[q] = status[q]
      BY <2>5, <3>1, <3>2 DEF Unwind, Settled
    <3>6. S \in SUBSET Requests /\ k # NoKey
      BY <3>1
    <3> HIDE DEF S, k
    <3> QED
      BY <3>1, <3>2, <3>3, <3>4, <3>5, <3>6, ServiceEnd DEF k
  <2>6. CASE Watch(r) \/ Unwatch(r)
    BY <1>1, <2>6 DEF Watch, Unwatch
  <2> QED
    BY <1>7, <2>1, <2>3, <2>4, <2>5, <2>6 DEF Running
<1>8. ASSUME Stop PROVE UNCHANGED Service!vars
  BY <1>1, <1>8 DEF Stop, OnSignal, LoopExit, ShutdownGate, GatesShutdown, CleanUpsDrained, reqVars
<1>9. CASE UNCHANGED vars
  BY <1>1, <1>9 DEF vars, reqVars
<1> QED
  BY <1>2, <1>3, <1>4, <1>5, <1>6, <1>7, <1>8, <1>9 DEF Next

\* For every number of requests, keys and connections: the queues, gates and
\* drain tasks implement SerializedRequests. Panics, closed connections and
\* shutdown only end requests that have their turn, of one key at a time.
THEOREM ServicePromiseHolds == Spec => ServicePromise
<1>1. Init => Service!Init
  BY DEF Init, Service!Init, Phase
<1> QED
  BY <1>1, QueueInvariant, ServiceStep, PTL DEF Spec, ServicePromise, Service!Spec

----------------------------------------------------------------------------
(* Closing and stopping                                                    *)

LEMMA CloseInit == Init => CloseInv
<1> SUFFICES ASSUME Init PROVE CloseInv
  OBVIOUS
<1> USE ConnsAssumption DEF Init, CloseInv
<1>1. TypeOK
  BY TypeInit
<1>2. GoneIsClosed /\ QuietAfterDrain
  BY DEF GoneIsClosed, Gone, QuietAfterDrain
<1>3. StoppingIsClosed /\ GateWasOpened
  BY DEF StoppingIsClosed, GateWasOpened
<1> QED
  BY <1>1, <1>2, <1>3

\* Requests move, connections and loop do not: a handler starts only behind a
\* gate that accepts.
LEMMA CloseFrame ==
    ASSUME CloseInv, TypeOK', GateWasOpened', UNCHANGED <<connVars, loopVars>>,
           \A c \in Conns : Inflight(c)' # {} => Inflight(c) # {} \/ accepting[c]
    PROVE  CloseInv'
<1> USE DEF CloseInv, connVars, loopVars
<1>1. GoneIsClosed'
  BY DEF GoneIsClosed
<1>2. QuietAfterDrain'
  BY DEF QuietAfterDrain, GoneIsClosed, Gone
<1>3. StoppingIsClosed'
  BY DEF StoppingIsClosed
<1> QED
  BY <1>1, <1>2, <1>3

LEMMA CloseArrive ==
    ASSUME CloseInv, TypeOK', UNCHANGED <<connVars, loopVars>>,
           NEW k, NEW a, NEW g \in Conns \cup {NoGate}, NEW s \in {"queued", "ready"},
           Arrive(k, a, g, s), g \in Conns => conn[g] = "ready"
    PROVE  CloseInv'
<1> USE BoundAssumption, ConnsAssumption DEF CloseInv, TypeOK
<1>1. GateWasOpened'
  BY DEF GateWasOpened, Arrive, connVars
<1>2. \A c \in Conns : Inflight(c)' \subseteq Inflight(c)
  BY DEF Inflight, Arrive
<1> QED
  BY <1>1, <1>2, CloseFrame

LEMMA CloseStep == CloseInv /\ [Next]_vars => CloseInv'
<1> SUFFICES ASSUME CloseInv, [Next]_vars PROVE CloseInv'
  OBVIOUS
<1> USE ConnsAssumption
<1>1. TypeOK /\ TypeOK'
  BY TypeStep DEF CloseInv
<1>2. ASSUME NEW c \in Conns, ConnectionOpened(c) \/ Initialize(c) PROVE CloseInv'
  <2>1. /\ loop = "running" /\ UNCHANGED <<accepting, watching, status, gate, signal, loop>>
        /\ \E s \in {"open", "ready"} : conn' = [conn EXCEPT ![c] = s]
    BY <1>2 DEF ConnectionOpened, Initialize, reqVars, loopVars
  <2>2. \A d \in Conns : Inflight(d)' = Inflight(d)
    BY <2>1 DEF Inflight
  <2>3. GoneIsClosed' /\ QuietAfterDrain'
    BY <1>1, <2>1, <2>2 DEF CloseInv, GoneIsClosed, Gone, QuietAfterDrain, TypeOK
  <2>4. StoppingIsClosed'
    BY <1>1, <2>1 DEF CloseInv, StoppingIsClosed, TypeOK
  <2>5. GateWasOpened'
    BY <1>1, <2>1 DEF CloseInv, GateWasOpened, TypeOK
  <2> QED
    BY <1>1, <2>3, <2>4, <2>5 DEF CloseInv
<1>3. ASSUME NEW c \in Conns, ConnectionClosed(c) PROVE CloseInv'
  <2>1. /\ loop = "running" /\ UNCHANGED <<watching, status, gate, signal, loop>>
        /\ conn' = [conn EXCEPT ![c] = "closed"]
        /\ accepting' = [accepting EXCEPT ![c] = FALSE]
    BY <1>3 DEF ConnectionClosed, reqVars, loopVars
  <2>2. \A d \in Conns : Inflight(d)' = Inflight(d)
    BY <2>1 DEF Inflight
  <2>3. GoneIsClosed' /\ QuietAfterDrain'
    BY <1>1, <2>1, <2>2 DEF CloseInv, GoneIsClosed, QuietAfterDrain, TypeOK
  <2>4. StoppingIsClosed'
    BY <1>1, <2>1 DEF CloseInv, StoppingIsClosed, TypeOK
  <2>5. GateWasOpened'
    BY <1>1, <2>1 DEF CloseInv, GateWasOpened, TypeOK
  <2> QED
    BY <1>1, <2>3, <2>4, <2>5 DEF CloseInv
<1>4. ASSUME NEW c \in Conns, CleanUp(c) PROVE CloseInv'
  <2>1. /\ conn[c] = "closed" /\ UNCHANGED <<accepting, status, gate, signal, loop>>
        /\ watching' = watching \ {c}
        /\ \/ conn' = [conn EXCEPT ![c] = "drained"] /\ Inflight(c) = {}
           \/ conn' = [conn EXCEPT ![c] = "timedout"]
    BY <1>4 DEF CleanUp, CleanUpDrained, CleanUpTimedOut, reqVars, loopVars
  <2>2. \A d \in Conns : Inflight(d)' = Inflight(d)
    BY <2>1 DEF Inflight
  <2>3. GoneIsClosed'
    BY <1>1, <2>1 DEF CloseInv, GoneIsClosed, Gone, TypeOK
  <2>4. QuietAfterDrain'
    BY <1>1, <2>1, <2>2 DEF CloseInv, QuietAfterDrain, TypeOK
  <2>5. StoppingIsClosed'
    BY <1>1, <2>1, <2>2 DEF CloseInv, StoppingIsClosed, TypeOK
  <2>6. GateWasOpened'
    BY <1>1, <2>1 DEF CloseInv, GateWasOpened, TypeOK
  <2> QED
    BY <1>1, <2>3, <2>4, <2>5, <2>6 DEF CloseInv
<1>5. ASSUME NEW c \in Conns, DispatchSpawned(c) PROVE CloseInv'
  BY <1>1, <1>5, CloseArrive DEF DispatchSpawned
<1>6. ASSUME NEW c \in Conns, NEW k \in Keys, NEW a \in Access, DispatchSerialized(c, k, a)
      PROVE  CloseInv'
  BY <1>1, <1>6, CloseArrive DEF DispatchSerialized, Enqueue
<1>7. ASSUME NEW k \in Keys, NEW a \in Access, EnqueueBackground(k, a) PROVE CloseInv'
  BY <1>1, <1>7, CloseArrive DEF EnqueueBackground, Enqueue
<1>8. ASSUME UNCHANGED <<connVars, loopVars, gate>>,
             \A q \in Requests : status'[q] = "running" => status[q] = "running"
      PROVE  CloseInv'
  <2>1. GateWasOpened'
    BY <1>8 DEF CloseInv, GateWasOpened, connVars
  <2>2. \A c \in Conns : Inflight(c)' \subseteq Inflight(c)
    BY <1>8 DEF Inflight
  <2> QED
    BY <1>1, <1>8, <2>1, <2>2, CloseFrame
<1>9. ASSUME NEW k \in Keys, Drain(k) PROVE CloseInv'
  <2>1. UNCHANGED <<connVars, loopVars, gate>>
    BY <1>9 DEF Drain, DrainPop, DrainReturn, JoinAll, reqVars
  <2>2. \A q \in Requests : status'[q] = "running" => status[q] = "running"
    BY <1>9 DEF Drain, DrainPop, DrainReturn, JoinAll
  <2> QED
    BY <1>8, <2>1, <2>2
<1>10. ASSUME NEW r \in Requests, Running(r) PROVE CloseInv'
  <2>1. CASE Enter(r)
    <3>1. /\ UNCHANGED <<connVars, loopVars, gate>> /\ Open(gate[r])
          /\ status' = [status EXCEPT ![r] = "running"]
      BY <2>1 DEF Enter, reqVars
    <3>2. GateWasOpened'
      BY <3>1 DEF CloseInv, GateWasOpened, connVars
    <3>3. \A c \in Conns : Inflight(c)' # {} => Inflight(c) # {} \/ accepting[c]
      BY <1>1, <3>1 DEF Inflight, Open, TypeOK
    <3> QED
      BY <1>1, <3>1, <3>2, <3>3, CloseFrame
  <2>2. CASE Reject(r) \/ Finish(r)
    <3>1. UNCHANGED <<connVars, loopVars, gate>>
      BY <2>2 DEF Reject, Finish, reqVars
    <3>2. \A q \in Requests : status'[q] = "running" => status[q] = "running"
      BY <1>1, <2>2 DEF Reject, Finish, TypeOK
    <3> QED
      BY <1>8, <3>1, <3>2
  <2>3. CASE Unwind(r)
    <3>1. UNCHANGED <<connVars, loopVars, gate>>
      BY <2>3 DEF Unwind, reqVars
    <3>2. \A q \in Requests : status'[q] = "running" => status[q] = "running"
      BY <1>1, <2>3 DEF Unwind, TypeOK
    <3> QED
      BY <1>8, <3>1, <3>2
  <2>4. CASE Watch(r) \/ Unwatch(r)
    <3>1. /\ gate[r] \in Conns \/ watching' \subseteq watching
          /\ UNCHANGED <<accepting, conn, status, gate, signal, loop>>
          /\ r \in Inflight(gate[r])
          /\ watching' \subseteq watching \cup {gate[r]}
      BY <2>4 DEF Watch, Unwatch, reqVars, loopVars, Inflight
    <3>2. \A d \in Conns : Inflight(d)' = Inflight(d)
      BY <3>1 DEF Inflight
    <3>3. GoneIsClosed' /\ GateWasOpened'
      BY <3>1 DEF CloseInv, GoneIsClosed, GateWasOpened
    <3>4. QuietAfterDrain'
      BY <3>1, <3>2 DEF CloseInv, QuietAfterDrain
    <3>5. StoppingIsClosed'
      BY <3>1, <3>2 DEF CloseInv, StoppingIsClosed
    <3> QED
      BY <1>1, <3>3, <3>4, <3>5 DEF CloseInv
  <2> QED
    BY <1>10, <2>1, <2>2, <2>3, <2>4 DEF Running
<1>11. ASSUME Stop PROVE CloseInv'
  <2>1. UNCHANGED <<gate, status, watching>>
    BY <1>11 DEF Stop, OnSignal, LoopExit, ShutdownGate, GatesShutdown, CleanUpsDrained,
                 reqVars, connVars
  <2>2. \A d \in Conns : Inflight(d)' = Inflight(d)
    BY <2>1 DEF Inflight
  <2> USE DEF CloseInv, GoneIsClosed, QuietAfterDrain, GateWasOpened, TypeOK
  <2>3. ASSUME NEW f \in BOOLEAN, OnSignal(f) PROVE CloseInv'
    <3>1. loop = "running" /\ loop' = loop /\ UNCHANGED <<accepting, conn>>
      BY <2>3 DEF OnSignal, connVars
    <3>2. StoppingIsClosed'
      BY <3>1, <2>3, <2>2 DEF StoppingIsClosed, OnSignal
    <3> QED
      BY <1>1, <2>1, <2>2, <3>1, <3>2
  <2>4. ASSUME NEW t \in BOOLEAN, NEW n \in 0 .. 1, LoopExit(t, n) PROVE CloseInv'
    <3>1. CASE signal = "forced"
      <4>1. /\ loop' = "stopped" /\ signal' = "forced" /\ accepting' = accepting
            /\ conn' = [c \in Conns |-> IF conn[c] = "closed" THEN "aborted" ELSE conn[c]]
        BY <2>4, <3>1 DEF LoopExit
      <4>2. StoppingIsClosed'
        BY <4>1 DEF StoppingIsClosed
      <4>3. GoneIsClosed' /\ QuietAfterDrain'
        BY <2>1, <2>2, <4>1 DEF Gone
      <4>4. GateWasOpened'
        BY <2>1, <4>1
      <4> QED
        BY <1>1, <4>2, <4>3, <4>4
    <3>2. CASE signal # "forced"
      <4>1. loop' = "draining" /\ signal' = signal /\ UNCHANGED <<accepting, conn>>
        BY <2>4, <3>2 DEF LoopExit
      <4>2. StoppingIsClosed'
        BY <3>2, <4>1 DEF StoppingIsClosed
      <4> QED
        BY <1>1, <2>1, <2>2, <4>1, <4>2
    <3> QED
      BY <3>1, <3>2
  <2>5. ASSUME NEW c \in Conns, ShutdownGate(c) PROVE CloseInv'
    <3>1. /\ loop = "draining" /\ UNCHANGED <<conn, signal, loop>>
          /\ accepting' = [accepting EXCEPT ![c] = FALSE]
      BY <2>5 DEF ShutdownGate, loopVars
    <3>2. StoppingIsClosed'
      BY <3>1 DEF StoppingIsClosed
    <3>3. GoneIsClosed'
      BY <3>1
    <3> QED
      BY <1>1, <2>1, <2>2, <3>1, <3>2, <3>3
  <2>6. CASE GatesShutdown
    <3>1. /\ loop = "draining" /\ loop' = "reaping" /\ UNCHANGED <<accepting, conn, signal>>
          /\ \A c \in Conns : conn[c] \in {"open", "ready"} => ~ accepting[c] /\ Inflight(c) = {}
      BY <2>6 DEF GatesShutdown, connVars
    <3>2. StoppingIsClosed'
      BY <2>2, <3>1 DEF StoppingIsClosed
    <3> QED
      BY <1>1, <2>1, <2>2, <3>1, <3>2
  <2>7. CASE CleanUpsDrained
    <3>1. /\ loop = "reaping" /\ loop' = "stopped" /\ UNCHANGED <<accepting, conn, signal>>
          /\ \A c \in Conns : conn[c] # "closed"
      BY <2>7 DEF CleanUpsDrained, connVars
    <3>2. StoppingIsClosed'
      BY <2>2, <3>1 DEF StoppingIsClosed
    <3> QED
      BY <1>1, <2>1, <2>2, <3>1, <3>2
  <2> QED
    BY <1>11, <2>3, <2>4, <2>5, <2>6, <2>7 DEF Stop
<1>12. CASE UNCHANGED vars
  BY <1>8, <1>12 DEF vars, reqVars, connVars, loopVars
<1> QED
  BY <1>2, <1>3, <1>4, <1>5, <1>6, <1>7, <1>9, <1>10, <1>11, <1>12 DEF Next, Connect

LEMMA CloseInvariant == Spec => []CloseInv
BY CloseInit, CloseStep, PTL DEF Spec

\* For every number of connections and requests: once a clean-up has waited
\* for its gate, no handler of the connection runs again and none of its
\* watches comes back.
THEOREM QuietAfterDrainCorrect == Spec => []QuietAfterDrain
<1>1. CloseInv => QuietAfterDrain
  BY DEF CloseInv
<1> QED
  BY <1>1, CloseInvariant, PTL

\* For every number of connections and requests: a stop that was not forced
\* leaves running only the handlers whose connection's drain timed out.
THEOREM QuiescentStopCorrect == Spec => []QuiescentStop
<1>1. CloseInv => QuiescentStop
  <2> SUFFICES ASSUME CloseInv, loop = "stopped", signal # "forced",
                      NEW r \in Requests, status[r] = "running", gate[r] # NoGate
               PROVE  conn[gate[r]] = "timedout"
    BY DEF QuiescentStop
  <2>1. gate[r] \in Conns /\ conn[gate[r]] \in ConnStates
    BY DEF CloseInv, TypeOK
  <2>2. Inflight(gate[r]) # {}
    BY DEF Inflight
  <2>3. conn[gate[r]] \notin {"open", "ready", "closed", "aborted"}
    BY <2>1, <2>2 DEF CloseInv, StoppingIsClosed
  <2>4. conn[gate[r]] \notin {"absent", "drained"}
    BY <2>1, <2>2 DEF CloseInv, GateWasOpened, QuietAfterDrain
  <2> QED
    BY <2>1, <2>3, <2>4 DEF ConnStates
<1> QED
  BY <1>1, CloseInvariant, PTL
============================================================================
