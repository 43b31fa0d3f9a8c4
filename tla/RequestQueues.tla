--------------------------- MODULE RequestQueues ---------------------------
(***************************************************************************)
(* How the app server runs the JSON-RPC requests of its clients: the       *)
(* serialization queues (request_serialization.rs), the per-connection     *)
(* gate (connection_rpc_gate.rs), the clean-up of a closed connection      *)
(* (message_processor.rs, connection_cleanup.rs, fs_watch.rs) and the exit *)
(* of the processor loop (lib.rs).                                         *)
(*                                                                         *)
(* Every step is what one task does under one lock or between two awaits.  *)
(* Request numbers follow the order in which the queues' mutex was taken.  *)
(***************************************************************************)
EXTENDS Integers, Sequences

CONSTANTS
    Keys,         \* serialization queue keys
    SharedKeys,   \* the Global keys some scope reads with SharedRead
    Conns,        \* connection ids; an id is never reused
    NoKey,        \* the "key" of a request without serialization scope
    NoGate,       \* the "connection" of app-owned background work
    MaxRequests   \* bound on the number of requests of a behaviour

ASSUME KeysAssumption  == SharedKeys \subseteq Keys /\ NoKey \notin Keys
ASSUME ConnsAssumption == NoGate \notin Conns
ASSUME BoundAssumption == MaxRequests \in Nat

VARIABLES
    arrived,    \* number of requests handed over so far
    key,        \* [Requests -> key or NoKey]
    access,     \* [Requests -> Exclusive or SharedRead]
    gate,       \* [Requests -> connection or NoGate]
    status,     \* where the request's future is
    queue,      \* the VecDeque of each key present in the map
    present,    \* the keys present in the map
    batch,      \* what the key's drain task is running
    drainer,    \* the key's drain task
    accepting,  \* ConnectionRpcGate.accepting
    conn,       \* life cycle of a connection and of its clean-up task
    watching,   \* connections with an entry in FsWatchState.entries
    signal,     \* ShutdownState
    loop        \* the processor task

reqVars  == <<arrived, key, access, gate>>
mapVars  == <<queue, present, batch, drainer>>
connVars == <<accepting, conn, watching>>
loopVars == <<signal, loop>>
vars     == <<reqVars, status, mapVars, connVars, loopVars>>

Requests == 1 .. MaxRequests
Access   == {"Exclusive", "SharedRead"}

\* absent: not yet received.   queued: in a VecDeque.
\* ready: its future has been handed to QueuedInitializedRequest::run.
\* running: past the gate.  rejected: dropped by the gate unpolled.
\* dropped: lost when the task that polled it unwound.
Status  == {"absent", "queued", "ready", "running", "done", "rejected", "dropped"}
Settled == {"done", "rejected", "dropped"}

\* The clean-up task exists from "closed" on; it ends in "drained" when the
\* gate's tasks ended in time, in "timedout" when they did not, in "aborted"
\* when the loop was forced to stop.
ConnStates == {"absent", "open", "ready", "closed", "drained", "timedout", "aborted"}
Gone       == {"closed", "drained", "timedout", "aborted"}

\* The requests holding a token of the connection's TaskTracker.
Inflight(c) == {r \in Requests : status[r] = "running" /\ gate[r] = c}

TypeOK ==
    /\ arrived \in 0 .. MaxRequests
    /\ key \in [Requests -> Keys \cup {NoKey}]
    /\ access \in [Requests -> Access]
    /\ gate \in [Requests -> Conns \cup {NoGate}]
    /\ status \in [Requests -> Status]
    /\ queue \in [Keys -> Seq(Requests)]
    /\ present \in SUBSET Keys
    /\ batch \in [Keys -> SUBSET Requests]
    /\ drainer \in [Keys -> {"none", "locking", "joining", "unwound"}]
    /\ accepting \in [Conns -> BOOLEAN]
    /\ conn \in [Conns -> ConnStates]
    /\ watching \in SUBSET Conns
    /\ signal \in {"none", "requested", "forced"}
    /\ loop \in {"running", "draining", "reaping", "stopped"}

Init ==
    /\ arrived = 0
    /\ key = [r \in Requests |-> NoKey]
    /\ access = [r \in Requests |-> "Exclusive"]
    /\ gate = [r \in Requests |-> NoGate]
    /\ status = [r \in Requests |-> "absent"]
    /\ queue = [k \in Keys |-> <<>>]
    /\ present = {}
    /\ batch = [k \in Keys |-> {}]
    /\ drainer = [k \in Keys |-> "none"]
    /\ accepting = [c \in Conns |-> TRUE]
    /\ conn = [c \in Conns |-> "absent"]
    /\ watching = {}
    /\ signal = "none"
    /\ loop = "running"

----------------------------------------------------------------------------
(* Connections and requests entering the processor loop                    *)

\* TransportEvent::ConnectionOpened: a fresh session with an open gate.
ConnectionOpened(c) ==
    /\ loop = "running"
    /\ conn[c] = "absent"
    /\ conn' = [conn EXCEPT ![c] = "open"]
    /\ UNCHANGED <<reqVars, status, mapVars, accepting, watching, loopVars>>

\* The initialize request; every other request of an "open" connection is
\* answered with "Not initialized" and changes nothing.
Initialize(c) ==
    /\ loop = "running"
    /\ conn[c] = "open"
    /\ conn' = [conn EXCEPT ![c] = "ready"]
    /\ UNCHANGED <<reqVars, status, mapVars, accepting, watching, loopVars>>

\* Only the GlobalSharedRead scopes share; every other scope is exclusive.
FromScope(k) == IF k \in SharedKeys THEN Access ELSE {"Exclusive"}

\* The next request gets its attributes.
Arrive(k, a, g, s) ==
    /\ arrived < MaxRequests
    /\ arrived' = arrived + 1
    /\ key' = [key EXCEPT ![arrived + 1] = k]
    /\ access' = [access EXCEPT ![arrived + 1] = a]
    /\ gate' = [gate EXCEPT ![arrived + 1] = g]
    /\ status' = [status EXCEPT ![arrived + 1] = s]

\* Mutant of Enqueue: the request is pushed to the wrong end.
EnqueuePushFront(k, a, g) ==
    /\ Arrive(k, a, g, "queued")
    /\ queue' = [queue EXCEPT ![k] = <<arrived + 1>> \o @]
    /\ present' = present \cup {k}
    /\ drainer' = IF k \in present THEN drainer
                                   ELSE [drainer EXCEPT ![k] = "locking"]
    /\ UNCHANGED batch

\* RequestSerializationQueues::enqueue: push to the key's queue; the first
\* request of an absent key inserts the queue and spawns the drain task.
Enqueue(k, a, g) ==
    /\ Arrive(k, a, g, "queued")
    /\ queue' = [queue EXCEPT ![k] = Append(@, arrived + 1)]
    /\ present' = present \cup {k}
    /\ drainer' = IF k \in present THEN drainer
                                   ELSE [drainer EXCEPT ![k] = "locking"]
    /\ UNCHANGED batch

\* An initialized request with a serialization scope.
DispatchSerialized(c, k, a) ==
    /\ loop = "running"
    /\ conn[c] = "ready"
    /\ a \in FromScope(k)
    /\ Enqueue(k, a, c)
    /\ UNCHANGED <<connVars, loopVars>>

\* An initialized request without scope: its own task runs it at once.
DispatchSpawned(c) ==
    /\ loop = "running"
    /\ conn[c] = "ready"
    /\ Arrive(NoKey, "Exclusive", c, "ready")
    /\ UNCHANGED <<mapVars, connVars, loopVars>>

\* App-owned work queued beside the RPCs: it has no gate, and the tasks that
\* queue it do not stop with the processor loop.
EnqueueBackground(k, a) ==
    /\ a \in FromScope(k)
    /\ Enqueue(k, a, NoGate)
    /\ UNCHANGED <<connVars, loopVars>>

----------------------------------------------------------------------------
(* The drain task of a key                                                 *)

\* Mutant of IsFront: a SharedRead at the front takes the whole queue along.
IsFrontAnyAccess(q, n) ==
    \/ n = 1 /\ access[q[1]] = "Exclusive"
    \/ n = Len(q) /\ access[q[1]] = "SharedRead"

\* The first n requests of q are what one turn of the loop pops: one request,
\* or every consecutive SharedRead at the front.
IsFront(q, n) ==
    \/ n = 1 /\ access[q[1]] = "Exclusive"
    \/ /\ \A i \in 1 .. n : access[q[i]] = "SharedRead"
       /\ n < Len(q) => access[q[n + 1]] # "SharedRead"

DrainPop(k) ==
    /\ drainer[k] = "locking"
    /\ k \in present
    /\ \E n \in 1 .. Len(queue[k]) :
         LET popped == {queue[k][i] : i \in 1 .. n}
         IN  /\ IsFront(queue[k], n)
             /\ batch' = [batch EXCEPT ![k] = popped]
             /\ queue' = [queue EXCEPT ![k] = SubSeq(@, n + 1, Len(@))]
             /\ status' = [r \in Requests |-> IF r \in popped THEN "ready"
                                                              ELSE status[r]]
    /\ drainer' = [drainer EXCEPT ![k] = "joining"]
    /\ UNCHANGED <<reqVars, present, connVars, loopVars>>

\* Mutant of DrainReturn: the key is removed on an earlier look at the queue.
DrainReturnStale(k) ==
    /\ drainer[k] = "locking"
    /\ present' = present \ {k}
    /\ drainer' = [drainer EXCEPT ![k] = "none"]
    /\ UNCHANGED <<reqVars, status, queue, batch, connVars, loopVars>>

\* The queue is empty: the key is removed under the same lock.
DrainReturn(k) ==
    /\ drainer[k] = "locking"
    /\ k \in present => queue[k] = <<>>
    /\ present' = present \ {k}
    /\ drainer' = [drainer EXCEPT ![k] = "none"]
    /\ UNCHANGED <<reqVars, status, queue, batch, connVars, loopVars>>

\* Mutant of JoinAll: the first request of the batch that is over is enough.
JoinFirst(k) ==
    /\ drainer[k] = "joining"
    /\ \E r \in batch[k] : status[r] \in Settled
    /\ batch' = [batch EXCEPT ![k] = {}]
    /\ drainer' = [drainer EXCEPT ![k] = "locking"]
    /\ UNCHANGED <<reqVars, status, queue, present, connVars, loopVars>>

\* join_all returns once every request of the batch is over.
JoinAll(k) ==
    /\ drainer[k] = "joining"
    /\ \A r \in batch[k] : status[r] \in Settled
    /\ batch' = [batch EXCEPT ![k] = {}]
    /\ drainer' = [drainer EXCEPT ![k] = "locking"]
    /\ UNCHANGED <<reqVars, status, queue, present, connVars, loopVars>>

----------------------------------------------------------------------------
(* Running one request                                                     *)

\* gate.run takes a token under the accepting lock; work without gate just
\* starts.
Open(g) == g # NoGate => accepting[g]

\* Mutant of Enter: the token is taken whether or not the gate accepts.
EnterUnchecked(r) ==
    /\ status[r] = "ready"
    /\ status' = [status EXCEPT ![r] = "running"]
    /\ UNCHANGED <<reqVars, mapVars, connVars, loopVars>>

Enter(r) ==
    /\ status[r] = "ready"
    /\ Open(gate[r])
    /\ status' = [status EXCEPT ![r] = "running"]
    /\ UNCHANGED <<reqVars, mapVars, connVars, loopVars>>

\* gate.run returns without polling the future.
Reject(r) ==
    /\ status[r] = "ready"
    /\ ~ Open(gate[r])
    /\ status' = [status EXCEPT ![r] = "rejected"]
    /\ UNCHANGED <<reqVars, mapVars, connVars, loopVars>>

\* The handler is over: its token is dropped.
Finish(r) ==
    /\ status[r] = "running"
    /\ status' = [status EXCEPT ![r] = "done"]
    /\ UNCHANGED <<reqVars, mapVars, connVars, loopVars>>

\* A handler panics. The task polling it unwinds: a drain task takes its
\* whole batch along and leaves the key in the map; a request with a task of
\* its own only loses itself.
Unwind(r) ==
    /\ status[r] = "running"
    /\ IF key[r] = NoKey
         THEN /\ status' = [status EXCEPT ![r] = "dropped"]
              /\ UNCHANGED mapVars
         ELSE /\ status' = [q \in Requests |->
                              IF q \in batch[key[r]] /\ status[q] \notin Settled
                              THEN "dropped" ELSE status[q]]
              /\ batch' = [batch EXCEPT ![key[r]] = {}]
              /\ drainer' = [drainer EXCEPT ![key[r]] = "unwound"]
              /\ UNCHANGED <<queue, present>>
    /\ UNCHANGED <<reqVars, connVars, loopVars>>

\* fs/watch inserts the connection's entry, refusing a second one for the
\* same watch id (one id per connection here); fs/unwatch removes it.
Watch(r) ==
    /\ status[r] = "running"
    /\ gate[r] \in Conns \ watching
    /\ watching' = watching \cup {gate[r]}
    /\ UNCHANGED <<reqVars, status, mapVars, accepting, conn, loopVars>>

Unwatch(r) ==
    /\ status[r] = "running"
    /\ gate[r] \in watching
    /\ watching' = watching \ {gate[r]}
    /\ UNCHANGED <<reqVars, status, mapVars, accepting, conn, loopVars>>

----------------------------------------------------------------------------
(* Closing a connection                                                    *)

\* The loop forgets the connection, closes its gate and spawns the clean-up.
ConnectionClosed(c) ==
    /\ loop = "running"
    /\ conn[c] \in {"open", "ready"}
    /\ conn' = [conn EXCEPT ![c] = "closed"]
    /\ accepting' = [accepting EXCEPT ![c] = FALSE]
    /\ UNCHANGED <<reqVars, status, mapVars, watching, loopVars>>

\* connection_closed after gate.shutdown() (which closes the closed gate once
\* more) returned: what the connection owns is removed.
CleanUpDrained(c) ==
    /\ conn[c] = "closed"
    /\ Inflight(c) = {}
    /\ conn' = [conn EXCEPT ![c] = "drained"]
    /\ watching' = watching \ {c}
    /\ UNCHANGED <<reqVars, status, mapVars, accepting, loopVars>>

\* CONNECTION_RPC_DRAIN_TIMEOUT fired first: the same clean-up runs while
\* handlers of the connection are still going.
CleanUpTimedOut(c) ==
    /\ conn[c] = "closed"
    /\ Inflight(c) # {}
    /\ conn' = [conn EXCEPT ![c] = "timedout"]
    /\ watching' = watching \ {c}
    /\ UNCHANGED <<reqVars, status, mapVars, accepting, loopVars>>

----------------------------------------------------------------------------
(* Stopping the processor loop                                             *)

\* ShutdownState::on_signal: a second forceable signal forces the stop, a
\* second hangup does nothing.
OnSignal(forceable) ==
    /\ loop = "running"
    /\ signal # "forced"
    /\ signal' = IF signal = "none" THEN "requested"
                 ELSE IF forceable THEN "forced" ELSE signal
    /\ UNCHANGED <<reqVars, status, mapVars, connVars, loop>>

\* The loop breaks: the transport went away, or ShutdownState::update says
\* Finish (forced, or requested with no assistant turn running). Unless the
\* stop is forced it then drains; a forced stop aborts the clean-up tasks.
LoopExit(transportClosed, runningTurns) ==
    /\ loop = "running"
    /\ \/ transportClosed
       \/ signal = "forced"
       \/ signal = "requested" /\ runningTurns = 0
    /\ IF signal = "forced"
         THEN /\ loop' = "stopped"
              /\ conn' = [c \in Conns |-> IF conn[c] = "closed" THEN "aborted"
                                                                ELSE conn[c]]
         ELSE /\ loop' = "draining"
              /\ UNCHANGED conn
    /\ UNCHANGED <<reqVars, status, mapVars, accepting, watching, signal>>

\* join_all over the gates of the connections still open: each is closed...
ShutdownGate(c) ==
    /\ loop = "draining"
    /\ conn[c] \in {"open", "ready"}
    /\ accepting[c]
    /\ accepting' = [accepting EXCEPT ![c] = FALSE]
    /\ UNCHANGED <<reqVars, status, mapVars, conn, watching, loopVars>>

\* Mutants of GatesShutdown: closing without waiting, waiting for the clients
\* to hang up.
GatesClosedOnly ==
    /\ loop = "draining"
    /\ \A c \in Conns : conn[c] \in {"open", "ready"} => ~ accepting[c]
    /\ loop' = "reaping"
    /\ UNCHANGED <<reqVars, status, mapVars, connVars, signal>>

GatesAwaitHangup ==
    /\ loop = "draining"
    /\ \A c \in Conns : conn[c] \notin {"open", "ready"}
    /\ loop' = "reaping"
    /\ UNCHANGED <<reqVars, status, mapVars, connVars, signal>>

\* ...and waited for, without a time limit.
GatesShutdown ==
    /\ loop = "draining"
    /\ \A c \in Conns : conn[c] \in {"open", "ready"} =>
                            ~ accepting[c] /\ Inflight(c) = {}
    /\ loop' = "reaping"
    /\ UNCHANGED <<reqVars, status, mapVars, connVars, signal>>

\* connection_cleanup_tasks.drain(), then shutdown_threads().
CleanUpsDrained ==
    /\ loop = "reaping"
    /\ \A c \in Conns : conn[c] # "closed"
    /\ loop' = "stopped"
    /\ UNCHANGED <<reqVars, status, mapVars, connVars, signal>>

----------------------------------------------------------------------------

Running(r) == Enter(r) \/ Reject(r) \/ Finish(r) \/ Unwind(r) \/ Watch(r) \/ Unwatch(r)
Drain(k)   == DrainPop(k) \/ DrainReturn(k) \/ JoinAll(k)
Connect(c) == ConnectionOpened(c) \/ Initialize(c) \/ ConnectionClosed(c)
CleanUp(c) == CleanUpDrained(c) \/ CleanUpTimedOut(c)
Stop       == \/ \E f \in BOOLEAN : OnSignal(f)
              \/ \E t \in BOOLEAN, n \in 0 .. 1 : LoopExit(t, n)
              \/ \E c \in Conns : ShutdownGate(c)
              \/ GatesShutdown
              \/ CleanUpsDrained

Next ==
    \/ \E c \in Conns : Connect(c) \/ DispatchSpawned(c) \/ CleanUp(c)
    \/ \E c \in Conns, k \in Keys, a \in Access : DispatchSerialized(c, k, a)
    \/ \E k \in Keys, a \in Access : EnqueueBackground(k, a)
    \/ \E k \in Keys : Drain(k)
    \/ \E r \in Requests : Running(r)
    \/ Stop

Spec == Init /\ [][Next]_vars

\* The tasks are polled again and again, handlers end, timers fire. Nothing is
\* assumed of clients, of signals or of background work.
Fairness ==
    /\ \A k \in Keys : WF_vars(Drain(k))
    /\ \A r \in Requests : WF_vars(Enter(r) \/ Reject(r)) /\ WF_vars(Finish(r))
    /\ \A c \in Conns : WF_vars(CleanUp(c)) /\ WF_vars(ShutdownGate(c))
    /\ WF_vars(GatesShutdown) /\ WF_vars(CleanUpsDrained)

FairSpec == Spec /\ Fairness

----------------------------------------------------------------------------
(* Properties                                                              *)

Popped(r) == status[r] \notin {"absent", "queued"}

\* Two requests of one key run at the same time only if both are SharedRead:
\* what the batches of RequestSerializationQueues::drain are for.
ExclusiveRunsAlone ==
    \A r1, r2 \in Requests :
        /\ r1 # r2
        /\ key[r1] = key[r2] /\ key[r1] # NoKey
        /\ status[r1] = "running" /\ status[r2] = "running"
        => access[r1] = "SharedRead" /\ access[r2] = "SharedRead"

\* The requests of a key are served in the order of their enqueue: one leaves
\* the queue only when each earlier one is over, or has left it too and both
\* are SharedRead. In particular a read never overtakes a write.
ServedInOrder ==
    \A r1, r2 \in Requests :
        /\ r1 < r2
        /\ key[r1] = key[r2] /\ key[r1] # NoKey
        /\ Popped(r2)
        => \/ status[r1] \in Settled
           \/ Popped(r1) /\ access[r1] = "SharedRead" /\ access[r2] = "SharedRead"

\* A queued request always has a drain task that will come back for it:
\* drain removes the key and ends under the lock enqueue checks it with. Only
\* a panicking handler leaves a key without one.
QueuedHasDrainer ==
    \A r \in Requests :
        status[r] = "queued" => /\ key[r] \in present
                                /\ drainer[key[r]] # "none"

\* The refinement mapping: what SerializedRequests sees of a status.
Phase == [absent |-> "absent", queued |-> "waiting", ready |-> "waiting", running |-> "running",
          done |-> "over", rejected |-> "over", dropped |-> "over"]
Service == INSTANCE SerializedRequests WITH phase <- [r \in Requests |-> Phase[status[r]]]

\* The promise of enqueue and drain as a whole: whatever connections, panics
\* and shutdown do, every step is one SerializedRequests allows.
ServicePromise == Service!Spec

\* After a clean-up that waited for the gate, no handler of the connection
\* runs and nothing the connection owned is left, then and for ever after:
\* the gate closed before the wait, so nothing can start behind it.
QuietAfterDrain ==
    \A c \in Conns : conn[c] = "drained" => Inflight(c) = {} /\ c \notin watching

\* When the processor loop reaches shutdown_threads, the only RPC handlers
\* that may still run belong to connections whose drain timed out.
QuiescentStop ==
    loop = "stopped" /\ signal # "forced" =>
        \A r \in Requests : status[r] = "running" =>
            gate[r] = NoGate \/ conn[gate[r]] = "timedout"

\* Every queued request is run or turned away, unless a handler of its key
\* panicked and took the drain task along.
EveryRequestSettles ==
    \A r \in Requests :
        status[r] = "queued" ~> \/ status[r] \in Settled
                                \/ \E k \in Keys : key[r] = k /\ drainer[k] = "unwound"

\* A loop that was not forced to stop ends its draining.
GracefulStopEnds == loop = "draining" ~> loop = "stopped"
============================================================================
