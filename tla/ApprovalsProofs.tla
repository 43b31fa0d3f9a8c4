--------------------------- MODULE ApprovalsProofs ---------------------------
(***************************************************************************)
(* Proofs about Approvals, for any connections and any numbers of turns,    *)
(* approvals, operations and moves of connections.                          *)
(*                                                                         *)
(* Inv is inductive.  TurnInv: the task in the active turn is the one turn  *)
(* that runs, and a tool call that waits in a running turn has its sender   *)
(* in that turn's state; so only a cancelled turn's calls are aborted.      *)
(* RequestInv: a request passes each of the event queue, the callbacks, the *)
(* command queue and the submission queue once, its response task tells     *)
(* where it is, and its result is fixed when its callback is taken; so the  *)
(* decision that arrives is the one a client made.  The two meet where an   *)
(* answer is taken: a call that is still asking cannot have been answered.  *)
(***************************************************************************)
EXTENDS Approvals, SequenceTheorems, TLAPS

\* x is in the queue; at most once.
Queued(q, x) == \E i \in DOMAIN q : q[i] = x

Once(q, x) == \A i, j \in DOMAIN q : q[i] = x /\ q[j] = x => i = j

\* A queue that gets an element at its end.
LEMMA QueuedAppend ==
  ASSUME NEW S, NEW q \in Seq(S), NEW y \in S
  PROVE  /\ Append(q, y) \in Seq(S)
         /\ \A x : Queued(Append(q, y), x) <=> Queued(q, x) \/ x = y
         /\ \A x : Once(q, x) /\ (x = y => ~Queued(q, x)) => Once(Append(q, y), x)
<1>1. /\ Append(q, y) \in Seq(S) /\ Len(q) \in Nat
      /\ DOMAIN q = 1 .. Len(q) /\ DOMAIN Append(q, y) = 1 .. Len(q) + 1
      /\ \A i \in 1 .. Len(q) : Append(q, y)[i] = q[i]
      /\ Append(q, y)[Len(q) + 1] = y
  BY AppendProperties
<1>2. ASSUME NEW x PROVE Queued(Append(q, y), x) <=> Queued(q, x) \/ x = y
  BY <1>1 DEF Queued
<1>3. ASSUME NEW x, Once(q, x), x = y => ~Queued(q, x) PROVE Once(Append(q, y), x)
  BY <1>1, <1>3 DEF Queued, Once
<1> QED BY <1>1, <1>2, <1>3

\* A queue whose first element is taken.
LEMMA QueuedTail ==
  ASSUME NEW S, NEW q \in Seq(S), q # <<>>
  PROVE  /\ Tail(q) \in Seq(S) /\ Queued(q, Head(q)) /\ Head(q) \in S
         /\ \A x : Queued(Tail(q), x) => Queued(q, x)
         /\ \A x : Once(q, x) => Once(Tail(q), x)
         /\ Once(q, Head(q)) => ~Queued(Tail(q), Head(q))
<1>1. /\ Tail(q) \in Seq(S) /\ Len(q) \in Nat /\ Len(q) >= 1
      /\ DOMAIN q = 1 .. Len(q) /\ DOMAIN Tail(q) = 1 .. (Len(q) - 1)
      /\ Head(q) = q[1] /\ \A i \in 1 .. (Len(q) - 1) : Tail(q)[i] = q[i + 1]
  BY HeadTailProperties, EmptySeq
<1>2. Head(q) \in S /\ Queued(q, Head(q))
  BY <1>1 DEF Queued
<1> DEFINE t == Tail(q)
<1>3. DOMAIN t = 1 .. (Len(q) - 1) /\ \A i \in 1 .. (Len(q) - 1) : t[i] = q[i + 1]
  BY <1>1
<1> HIDE DEF t
<1>4. \A i \in DOMAIN t : i + 1 \in DOMAIN q /\ i + 1 # 1 /\ t[i] = q[i + 1] /\ i \in Nat
  BY <1>1, <1>3
<1>5. ASSUME NEW x, Queued(t, x) PROVE Queued(q, x)
  BY <1>4, <1>5 DEF Queued
<1>6. ASSUME NEW x, Once(q, x) PROVE Once(t, x)
  BY <1>4, <1>6 DEF Once
<1>7. ASSUME Once(q, Head(q)), Queued(t, Head(q)) PROVE FALSE
  BY <1>1, <1>4, <1>7 DEF Once, Queued
<1> QED BY <1>1, <1>2, <1>5, <1>6, <1>7 DEF t

-----------------------------------------------------------------------------

\* The parts of the type invariant.
CoreTypes ==
    /\ slot \in Turns \cup {0} /\ task \in {0, slot} /\ aborting \in Turns \cup {0}
    /\ phase \in [Turns -> {"none", "running", "cancelled", "aborted", "finishing", "sent", "over"}]
    /\ wait \in [Asks -> {"none", "asking", "waiting", "approved", "denied", "abort"}]
    /\ owner \in [Asks -> Turns \cup {0}] /\ waiter \in [Asks -> Turns \cup {0}]

\* The queues.
QueueTypes == ops \in Seq(Ops) /\ events \in Seq(Events) /\ cmds \in Seq(Commands)

\* The app server and the clients.
ServerTypes ==
    /\ callbacks \subseteq Asks
    /\ response \in [Asks -> {"none", "waiting", "answered", "resolving", "resolved", "done"}]
    /\ result \in [Asks -> Decisions \cup {"none", "transition"}]
    /\ subscribed \subseteq Conns /\ joined \subseteq subscribed
    /\ inbox \in [Conns -> SUBSET Asks]
    /\ inputs \in 0..MaxInputs /\ moves \in 0..MaxMoves

\* They make up the type invariant.
LEMMA TypeParts == TypeOK <=> CoreTypes /\ QueueTypes /\ ServerTypes
  BY Zenon DEF TypeOK, CoreTypes, QueueTypes, ServerTypes

\* Turns and tasks: the task in the active turn is the one that runs, and a
\* tool call of a running turn has its sender there.
Active ==
    /\ task # 0 => phase[task] = "running"
    /\ \A t \in Turns : phase[t] = "running" => task = t /\ slot = t

\* A tool call belongs to a turn that was started, and its sender is in the
\* state of that turn while the turn runs.
Waits(r) ==
    /\ wait[r] # "none" => owner[r] \in Turns /\ phase[owner[r]] # "none"
    /\ wait[r] \in {"asking", "waiting"} =>
         /\ phase[owner[r]] = "running" => waiter[r] = owner[r]
         /\ phase[owner[r]] \notin {"finishing", "sent"}

\* What is known of the turns.
TurnInv == Active /\ (\A r \in Asks : Waits(r)) /\ AbortedOnlyWithTurn

\* A request passes through event, callback, response task and submission
\* once, and its result does not change on the way.
Request(r) ==
    /\ r \in callbacks => response[r] = "waiting"
    /\ Queued(events, <<"request", r>>) => response[r] = "none" /\ wait[r] \notin {"none", "asking"}
    /\ Once(events, <<"request", r>>)
    /\ Queued(cmds, <<"resolve", r>>) => response[r] = "resolving"
    /\ Once(cmds, <<"resolve", r>>)
    /\ response[r] # "none" => wait[r] \notin {"none", "asking"}
    /\ response[r] \in {"answered", "resolving", "resolved"} => result[r] \in Decisions \cup {"transition"}
    /\ Queued(ops, <<"answer", r>>) => response[r] = "done" /\ result[r] \in Decisions
    /\ wait[r] \in {"approved", "denied"} => response[r] = "done"

\* What is known of the requests.
RequestInv == (\A r \in Asks : Request(r)) /\ DecidedByClient

\* The inductive invariant.
Inv == CoreTypes /\ QueueTypes /\ ServerTypes /\ TurnInv /\ RequestInv /\ EveryJoinedAsked

\* A thread without turns and requests.
LEMMA InvInit == Init => Inv
<1> SUFFICES ASSUME Init PROVE Inv
  OBVIOUS
<1> USE DEF Init
<1>1. CoreTypes /\ QueueTypes /\ ServerTypes
  BY ApprovalsAssumption DEF CoreTypes, QueueTypes, ServerTypes
<1>2. TurnInv
  BY DEF TurnInv, Active, Waits, AbortedOnlyWithTurn
<1>3. RequestInv
  BY DEF RequestInv, Request, DecidedByClient, Queued, Once
<1>4. EveryJoinedAsked
  BY DEF EveryJoinedAsked
<1> QED BY <1>1, <1>2, <1>3, <1>4 DEF Inv

-----------------------------------------------------------------------------
(* Steps of the turns.                                                     *)

\* The requests do not see a change of the turns.
LEMMA RequestsKept ==
  ASSUME RequestInv, UNCHANGED <<events, cmds, callbacks, response, result>>,
         \A x : Queued(ops', x) => Queued(ops, x),
         \A r \in Asks : \/ wait'[r] = wait[r]
                         \/ wait[r] \in {"none", "asking", "waiting"} /\ wait'[r] \in {"asking", "waiting", "abort"}
                            /\ (wait'[r] = "asking" => wait[r] = "none")
  PROVE  RequestInv'
  BY DEF RequestInv, Request, DecidedByClient, Queued, Once

\* The sender goes into the state of the running turn.
LEMMA AskStep ==
  ASSUME Inv, NEW t \in Turns, NEW r \in Asks, Ask(t, r)
  PROVE  Inv'
<1> USE DEF Ask, server, clients
<1>1. CoreTypes' /\ QueueTypes' /\ ServerTypes'
  BY DEF Inv, CoreTypes, QueueTypes, ServerTypes
<1>2. TurnInv'
  <2>1. Active' /\ \A q \in Asks : Waits(q)'
    <3>1. Active'
      BY DEF Inv, TurnInv, Active
    <3>2. \A q \in Asks \ {r} : wait'[q] = wait[q] /\ owner'[q] = owner[q] /\ waiter'[q] = waiter[q]
      BY DEF Inv, CoreTypes
    <3>3. \A q \in Asks \ {r} : Waits(q)'
      BY <3>2 DEF Inv, TurnInv, Waits
    <3>4. wait'[r] = "asking" /\ owner'[r] = t /\ waiter'[r] = slot /\ phase' = phase
      BY DEF Inv, CoreTypes
    <3>5. Waits(r)'
      BY <3>4 DEF Inv, TurnInv, Active, Waits, Working
    <3> QED BY <3>1, <3>3, <3>5
  <2>2. AbortedOnlyWithTurn'
    BY DEF Inv, CoreTypes, TurnInv, AbortedOnlyWithTurn, Working
  <2> QED BY <2>1, <2>2 DEF TurnInv
<1>3. RequestInv'
  <2>1. \A q \in Asks : wait'[q] = wait[q] \/ (wait[q] = "none" /\ wait'[q] = "asking")
    <3>1. wait' = [wait EXCEPT ![r] = "asking"] /\ wait[r] = "none" /\ wait = [q \in Asks |-> wait[q]]
      BY DEF Inv, CoreTypes
    <3> QED BY <3>1
  <2> QED BY <2>1, RequestsKept DEF Inv
<1>4. EveryJoinedAsked'
  BY DEF Inv, EveryJoinedAsked
<1> QED BY <1>1, <1>2, <1>3, <1>4 DEF Inv

\* The event of a request is sent once.
LEMMA SendAskStep ==
  ASSUME Inv, NEW r \in Asks, SendAsk(r)
  PROVE  Inv'
<1> USE DEF SendAsk, server, clients
<1>1. <<"request", r>> \in Events
  BY DEF Events
<1>2. /\ events' \in Seq(Events)
      /\ \A x : Queued(events', x) <=> Queued(events, x) \/ x = <<"request", r>>
      /\ \A x : Once(events, x) /\ (x = <<"request", r>> => ~Queued(events, x)) => Once(events', x)
  <2>1. events \in Seq(Events) /\ events' = Append(events, <<"request", r>>)
    BY DEF Inv, QueueTypes
  <2> DEFINE y == <<"request", r>>
  <2>2. /\ Append(events, y) \in Seq(Events)
        /\ \A x : Queued(Append(events, y), x) <=> Queued(events, x) \/ x = y
        /\ \A x : Once(events, x) /\ (x = y => ~Queued(events, x)) => Once(Append(events, y), x)
    <3>1. y \in Events
      BY <1>1
    <3> HIDE DEF y
    <3> QED BY <2>1, <3>1, QueuedAppend
  <2> QED BY <2>1, <2>2
<1>3. /\ \A q \in Asks \ {r} : wait'[q] = wait[q]
      /\ wait'[r] = IF waiter[r] = 0 THEN "abort" ELSE "waiting"
  BY DEF Inv, CoreTypes
<1>4. CoreTypes' /\ QueueTypes' /\ ServerTypes'
  BY <1>2 DEF Inv, CoreTypes, QueueTypes, ServerTypes
<1>5. TurnInv'
  <2>1. Active'
    BY DEF Inv, TurnInv, Active
  <2>2. \A q \in Asks : Waits(q)'
    BY <1>3 DEF Inv, TurnInv, Waits
  <2>3. AbortedOnlyWithTurn'
    <3>1. ASSUME waiter[r] = 0 PROVE phase[owner[r]] \in {"cancelled", "aborted", "over"}
      <4>1. owner[r] \in Turns /\ phase[owner[r]] \notin {"none", "running", "finishing", "sent"}
        BY <3>1 DEF Inv, TurnInv, Waits, Turns
      <4> QED BY <4>1 DEF Inv, CoreTypes
    <3> QED BY <1>3, <3>1 DEF Inv, TurnInv, AbortedOnlyWithTurn
  <2> QED BY <2>1, <2>2, <2>3 DEF TurnInv
<1>6. RequestInv'
  <2>1. \A q \in Asks \ {r} : <<"request", q>> # <<"request", r>>
    OBVIOUS
  <2>2. \A q \in Asks \ {r} : Request(q)'
    BY <1>2, <1>3, <2>1 DEF Inv, RequestInv, Request
  <2>3. Request(r)'
    <3>1. Request(r) /\ wait[r] = "asking" /\ UNCHANGED <<ops, cmds, callbacks, response, result>>
      BY DEF Inv, RequestInv
    <3>2. response[r] = "none" /\ ~Queued(events, <<"request", r>>) /\ wait'[r] \in {"abort", "waiting"}
      BY <1>3, <3>1 DEF Request
    <3>3. Once(events', <<"request", r>>)
      BY <1>2, <3>1, <3>2 DEF Request
    <3> QED BY <3>1, <3>2, <3>3 DEF Request
  <2>4. DecidedByClient'
    BY <1>3 DEF Inv, RequestInv, DecidedByClient
  <2> QED BY <2>2, <2>3, <2>4 DEF RequestInv
<1>7. EveryJoinedAsked'
  BY DEF Inv, EveryJoinedAsked
<1> QED BY <1>4, <1>5, <1>6, <1>7 DEF Inv

\* A turn boundary is no request.
LEMMA TurnEvent ==
  ASSUME Inv, NEW t \in Turns, events' = Append(events, <<"turn", t>>),
         UNCHANGED <<cmds, callbacks, response, result>>,
         \A x : Queued(ops', x) => Queued(ops, x),
         \A r \in Asks : wait'[r] = wait[r] \/ (wait[r] \in {"asking", "waiting"} /\ wait'[r] = "abort")
  PROVE  events' \in Seq(Events) /\ RequestInv'
<1>1. <<"turn", t>> \in Events /\ \A r \in Asks : <<"request", r>> # <<"turn", t>>
  BY DEF Events
<1>2. /\ events' \in Seq(Events)
      /\ \A x : Queued(events', x) <=> Queued(events, x) \/ x = <<"turn", t>>
      /\ \A x : Once(events, x) /\ (x = <<"turn", t>> => ~Queued(events, x)) => Once(events', x)
  <2>1. events \in Seq(Events)
    BY DEF Inv, QueueTypes
  <2> DEFINE y == <<"turn", t>>
  <2>2. /\ Append(events, y) \in Seq(Events)
        /\ \A x : Queued(Append(events, y), x) <=> Queued(events, x) \/ x = y
        /\ \A x : Once(events, x) /\ (x = y => ~Queued(events, x)) => Once(Append(events, y), x)
    <3>1. y \in Events
      BY <1>1
    <3> HIDE DEF y
    <3> QED BY <2>1, <3>1, QueuedAppend
  <2> QED BY <2>1, <2>2
<1>3. \A r \in Asks : Request(r)'
  BY <1>1, <1>2 DEF Inv, RequestInv, Request
<1>4. DecidedByClient'
  BY DEF Inv, RequestInv, DecidedByClient
<1> QED BY <1>2, <1>3, <1>4 DEF RequestInv

\* on_task_finished leaves no tool call behind, and another turn alone.
LEMMA FinishStep ==
  ASSUME Inv, NEW t \in Turns, Finishing(t)
  PROVE  Inv'
<1> USE DEF server, clients
<1>1. UNCHANGED <<aborting, wait, owner, waiter, ops, cmds, callbacks, response, result, subscribed, joined,
                  inbox, inputs, moves>>
  BY DEF Finishing, FinishTake, FinishSend, FinishClear
<1>2. EveryJoinedAsked'
  BY <1>1 DEF Inv, EveryJoinedAsked
<1>3. events' \in Seq(Events) /\ RequestInv'
  <2>1. CASE events' = events
    BY <1>1, <2>1, RequestsKept DEF Inv, QueueTypes
  <2>2. CASE events' = Append(events, <<"turn", t>>)
    <3>1. UNCHANGED <<ops, cmds, callbacks, response, result>> /\ \A r \in Asks : wait'[r] = wait[r]
      BY <1>1
    <3> QED BY <2>2, <3>1, TurnEvent
  <2> QED BY <2>1, <2>2 DEF Finishing, FinishTake, FinishSend, FinishClear
<1>4. CASE FinishTake(t)
  <2>1. /\ phase[t] = "running" /\ task = t /\ task' = 0 /\ slot' = slot
        /\ phase' = [phase EXCEPT ![t] = "finishing"]
        /\ \A r \in Asks : wait[r] \in {"asking", "waiting"} => owner[r] # t
    BY <1>4 DEF FinishTake, Waiting
  <2>2. CoreTypes' /\ QueueTypes' /\ ServerTypes'
    BY <1>1, <1>3, <2>1 DEF Inv, CoreTypes, QueueTypes, ServerTypes
  <2>3. phase'[t] = "finishing" /\ \A u \in Turns \ {t} : phase'[u] = phase[u]
    BY <2>1 DEF Inv, CoreTypes
  <2>4. Active'
    BY <2>1, <2>3 DEF Inv, TurnInv, Active
  <2>5. \A r \in Asks : Waits(r)'
    BY <1>1, <2>1, <2>3 DEF Inv, TurnInv, Waits
  <2>6. \A r \in Asks : wait[r] = "abort" => owner[r] \in Turns \ {t}
    BY <2>1 DEF Inv, TurnInv, Waits, AbortedOnlyWithTurn
  <2>7. AbortedOnlyWithTurn'
    BY <1>1, <2>3, <2>6 DEF Inv, TurnInv, AbortedOnlyWithTurn
  <2> QED BY <1>2, <1>3, <2>2, <2>4, <2>5, <2>7 DEF Inv, TurnInv
<1>5. CASE FinishSend(t) \/ FinishClear(t)
  <2>1. /\ phase[t] \in {"finishing", "sent"} /\ task' = task /\ slot' = (IF slot' = slot THEN slot ELSE 0)
        /\ (slot' = slot \/ slot = t)
        /\ \E p \in {"sent", "over"} : phase' = [phase EXCEPT ![t] = p]
    BY <1>5 DEF FinishSend, FinishClear
  <2>2. task # t /\ task' = task
    BY <2>1 DEF Inv, TurnInv, Active, Turns
  <2>3. CoreTypes' /\ QueueTypes' /\ ServerTypes'
    BY <1>1, <1>3, <2>1, <2>2 DEF Inv, CoreTypes, QueueTypes, ServerTypes
  <2>4. /\ phase'[t] \in {"sent", "over"} /\ \A u \in Turns \ {t} : phase'[u] = phase[u]
        /\ \A u \in Turns : phase'[u] = "running" => phase[u] = "running" /\ u # t
    BY <2>1 DEF Inv, CoreTypes
  <2>5. Active'
    BY <2>1, <2>2, <2>4 DEF Inv, TurnInv, Active, CoreTypes
  <2>6. \A r \in Asks : wait[r] \in {"asking", "waiting"} => owner[r] \in Turns \ {t}
    BY <2>1 DEF Inv, TurnInv, Waits
  <2>7. \A r \in Asks : Waits(r)'
    BY <1>1, <2>4, <2>6 DEF Inv, TurnInv, Waits
  <2>8. \A r \in Asks : wait[r] = "abort" => owner[r] \in Turns \ {t}
    BY <2>1 DEF Inv, TurnInv, Waits, AbortedOnlyWithTurn
  <2>9. AbortedOnlyWithTurn'
    BY <1>1, <2>4, <2>8 DEF Inv, TurnInv, AbortedOnlyWithTurn
  <2> QED BY <1>2, <1>3, <2>3, <2>5, <2>7, <2>9 DEF Inv, TurnInv
<1> QED BY <1>4, <1>5 DEF Finishing

-----------------------------------------------------------------------------
(* Steps of the submission loop.                                           *)

\* The submission loop takes the first operation.
LEMMA OpTaken ==
  ASSUME Inv, NEW op, Takes(op)
  PROVE  /\ ops' \in Seq(Ops) /\ Queued(ops, op) /\ aborting = 0
         /\ \A x : Queued(ops', x) => Queued(ops, x)
<1>1. ops \in Seq(Ops) /\ ops # <<>> /\ Head(ops) = op /\ ops' = Tail(ops) /\ aborting = 0
  BY DEF Inv, QueueTypes, Takes
<1> QED BY <1>1, QueuedTail

\* abort_all_tasks: the task is taken out and cancelled in one step.
LEMMA AbortBeginsStep ==
  ASSUME Inv, AbortBegins, ops' \in Seq(Ops), \A x : Queued(ops', x) => Queued(ops, x),
         UNCHANGED <<events, cmds, server, clients>>
  PROVE  Inv'
<1>1. /\ slot' = 0 /\ task' = 0 /\ aborting' = task /\ UNCHANGED <<wait, owner, waiter>>
      /\ phase' = IF task = 0 THEN phase ELSE [phase EXCEPT ![task] = "cancelled"]
  BY DEF AbortBegins
<1>2. task \in Turns \cup {0} /\ 0 \notin Turns
  BY DEF Inv, CoreTypes, Turns
<1>3. CoreTypes'
  BY <1>1, <1>2 DEF Inv, CoreTypes
<1>4. QueueTypes' /\ ServerTypes' /\ EveryJoinedAsked'
  BY DEF Inv, QueueTypes, ServerTypes, EveryJoinedAsked, server, clients
<1>5. \A t \in Turns : phase'[t] = IF t = task THEN "cancelled" ELSE phase[t]
  BY <1>1, <1>2 DEF Inv, CoreTypes
<1>6. \A t \in Turns : phase'[t] # "running"
  BY <1>2, <1>5 DEF Inv, TurnInv, Active
<1>7. Active'
  BY <1>1, <1>6 DEF Active
<1>8. \A r \in Asks : Waits(r)'
  BY <1>1, <1>5, <1>6 DEF Inv, TurnInv, Waits
<1>9. \A r \in Asks : wait[r] = "abort" => owner[r] \in Turns
  BY DEF Inv, TurnInv, Waits
<1>10. AbortedOnlyWithTurn'
  BY <1>1, <1>5, <1>9 DEF Inv, TurnInv, AbortedOnlyWithTurn
<1>11. RequestInv'
  BY <1>1, RequestsKept DEF Inv, server
<1> QED BY <1>3, <1>4, <1>7, <1>8, <1>10, <1>11 DEF Inv, TurnInv

\* A turn is started when none runs.
LEMMA TakeInputStep ==
  ASSUME Inv, TakeInput
  PROVE  Inv'
<1>1. ops' \in Seq(Ops) /\ (\A x : Queued(ops', x) => Queued(ops, x)) /\ UNCHANGED <<cmds, server, clients>>
  BY OpTaken DEF TakeInput
<1>2. ServerTypes' /\ EveryJoinedAsked'
  BY <1>1 DEF Inv, ServerTypes, EveryJoinedAsked, server, clients
<1>3. CASE UNCHANGED <<core, events>>
  <2>1. CoreTypes' /\ QueueTypes' /\ TurnInv'
    BY <1>1, <1>3 DEF core, Inv, CoreTypes, QueueTypes, TurnInv, Active, Waits, AbortedOnlyWithTurn
  <2>2. RequestInv'
    BY <1>1, <1>3, RequestsKept DEF Inv, core, server
  <2> QED BY <1>2, <2>1, <2>2 DEF Inv
<1>4. ASSUME task = 0, NEW t \in Turns, Fresh(t), task' = t, slot' = t,
             phase' = [phase EXCEPT ![t] = "running"], events' = Append(events, <<"turn", t>>),
             UNCHANGED <<aborting, wait, owner, waiter>>
      PROVE  Inv'
  <2>1. phase[t] = "none" /\ t # 0
    BY <1>4 DEF Fresh, Turns
  <2>2. CoreTypes'
    BY <1>4 DEF Inv, CoreTypes
  <2>3. phase'[t] = "running" /\ \A u \in Turns \ {t} : phase'[u] = phase[u]
    BY <1>4 DEF Inv, CoreTypes
  <2>4. \A u \in Turns : phase[u] # "running"
    BY <1>4 DEF Inv, TurnInv, Active, Turns
  <2>5. Active'
    BY <1>4, <2>3, <2>4 DEF Active
  <2>6. \A r \in Asks : wait[r] # "none" => owner[r] \in Turns \ {t}
    BY <2>1 DEF Inv, TurnInv, Waits
  <2>7. \A r \in Asks : Waits(r)'
    BY <1>4, <2>3, <2>6 DEF Inv, TurnInv, Waits
  <2>8. AbortedOnlyWithTurn'
    BY <1>4, <2>3, <2>6 DEF Inv, TurnInv, AbortedOnlyWithTurn
  <2>9. events' \in Seq(Events) /\ RequestInv'
    <3>1. UNCHANGED <<cmds, callbacks, response, result>> /\ \A r \in Asks : wait'[r] = wait[r]
      BY <1>1, <1>4 DEF server
    <3> QED BY <1>1, <1>4, <3>1, TurnEvent
  <2>10. QueueTypes'
    BY <1>1, <2>9 DEF Inv, QueueTypes
  <2> QED BY <1>2, <2>2, <2>5, <2>7, <2>8, <2>9, <2>10 DEF Inv, TurnInv
<1> QED BY <1>3, <1>4 DEF TakeInput

\* An interrupt aborts the turn that runs.
LEMMA TakeInterruptStep ==
  ASSUME Inv, TakeInterrupt
  PROVE  Inv'
<1>1. AbortBegins /\ UNCHANGED <<events, cmds, server, clients>>
  BY DEF TakeInterrupt
<1>2. ops' \in Seq(Ops) /\ (\A x : Queued(ops', x) => Queued(ops, x))
  BY OpTaken DEF TakeInterrupt
<1> QED BY <1>1, <1>2, AbortBeginsStep

\* handle_task_abort and clear_pending end the calls of the cancelled turn.
LEMMA AbortSendsStep ==
  ASSUME Inv, AbortSends
  PROVE  Inv'
<1> DEFINE a == aborting
<1>1. /\ a \in Turns /\ phase[a] = "cancelled" /\ phase' = [phase EXCEPT ![a] = "aborted"]
      /\ \A r \in Asks : wait'[r] = IF owner[r] = a /\ wait[r] \in {"asking", "waiting"}
                                    THEN "abort" ELSE wait[r]
      /\ events' = Append(events, <<"turn", a>>)
      /\ UNCHANGED <<task, slot, aborting, owner, waiter, ops, cmds, server, clients>>
  BY DEF Inv, CoreTypes, AbortSends, Waiting
<1>2. wait' \in [Asks -> {"none", "asking", "waiting", "approved", "denied", "abort"}]
  BY DEF AbortSends, Inv, CoreTypes
<1>3. CoreTypes'
  BY <1>1, <1>2 DEF Inv, CoreTypes
<1>4. ServerTypes' /\ EveryJoinedAsked'
  BY <1>1 DEF Inv, ServerTypes, EveryJoinedAsked, server, clients
<1>5. phase'[a] = "aborted" /\ \A u \in Turns \ {a} : phase'[u] = phase[u]
  BY <1>1 DEF Inv, CoreTypes
<1>6. Active'
  BY <1>1, <1>5 DEF Inv, TurnInv, Active
<1>7. \A r \in Asks : Waits(r)'
  BY <1>1, <1>5 DEF Inv, TurnInv, Waits
<1>8. \A r \in Asks : wait[r] = "abort" => owner[r] \in Turns
  BY DEF Inv, TurnInv, Waits
<1>9. AbortedOnlyWithTurn'
  BY <1>1, <1>5, <1>8 DEF Inv, TurnInv, AbortedOnlyWithTurn
<1>10. events' \in Seq(Events) /\ RequestInv'
  <2>1. UNCHANGED <<cmds, callbacks, response, result>> /\ (\A x : Queued(ops', x) => Queued(ops, x))
    BY <1>1 DEF server
  <2>2. \A r \in Asks : wait'[r] = wait[r] \/ (wait[r] \in {"asking", "waiting"} /\ wait'[r] = "abort")
    BY <1>1
  <2> QED BY <1>1, <2>1, <2>2, TurnEvent
<1>11. QueueTypes'
  BY <1>1, <1>10 DEF Inv, QueueTypes
<1> QED BY <1>3, <1>4, <1>6, <1>7, <1>9, <1>10, <1>11 DEF Inv, TurnInv

\* The senders that are dropped belong to no turn that runs.
LEMMA AbortClearsStep ==
  ASSUME Inv, AbortClears
  PROVE  Inv'
<1> DEFINE a == aborting
<1>1. /\ a \in Turns /\ phase[a] = "aborted" /\ phase' = [phase EXCEPT ![a] = "over"] /\ aborting' = 0
      /\ \A r \in Asks : wait'[r] = IF waiter[r] = a /\ wait[r] = "waiting" THEN "abort" ELSE wait[r]
      /\ \A r \in Asks : waiter'[r] = IF waiter[r] = a THEN 0 ELSE waiter[r]
      /\ UNCHANGED <<task, slot, owner, ops, events, cmds, server, clients>>
  BY DEF Inv, CoreTypes, AbortClears, Dropped
<1>2. /\ wait' \in [Asks -> {"none", "asking", "waiting", "approved", "denied", "abort"}]
      /\ waiter' \in [Asks -> Turns \cup {0}]
  BY DEF AbortClears, Inv, CoreTypes
<1>3. CoreTypes'
  BY <1>1, <1>2 DEF Inv, CoreTypes
<1>4. QueueTypes' /\ ServerTypes' /\ EveryJoinedAsked'
  BY <1>1 DEF Inv, QueueTypes, ServerTypes, EveryJoinedAsked, server, clients
<1>5. phase'[a] = "over" /\ \A u \in Turns \ {a} : phase'[u] = phase[u]
  BY <1>1 DEF Inv, CoreTypes
<1>6. Active'
  BY <1>1, <1>5 DEF Inv, TurnInv, Active
<1>7. \A r \in Asks : Waits(r)'
  BY <1>1, <1>5 DEF Inv, TurnInv, Waits
<1>8. ASSUME NEW r \in Asks, wait'[r] = "abort" PROVE phase'[owner[r]] \in {"cancelled", "aborted", "over"}
  <2>1. owner[r] \in Turns
    BY <1>1, <1>8 DEF Inv, TurnInv, Waits
  <2>2. CASE wait[r] = "abort"
    BY <1>5, <2>1, <2>2 DEF Inv, TurnInv, AbortedOnlyWithTurn
  <2>3. CASE waiter[r] = a /\ wait[r] = "waiting"
    <3>1. phase[owner[r]] \notin {"none", "running", "finishing", "sent"}
      BY <1>1, <2>3 DEF Inv, TurnInv, Waits
    <3> QED BY <1>5, <2>1, <3>1 DEF Inv, CoreTypes
  <2> QED BY <1>1, <1>8, <2>2, <2>3
<1>9. AbortedOnlyWithTurn'
  BY <1>1, <1>8 DEF AbortedOnlyWithTurn
<1>10. RequestInv'
  <2>1. UNCHANGED <<events, cmds, callbacks, response, result>> /\ (\A x : Queued(ops', x) => Queued(ops, x))
    BY <1>1 DEF server
  <2>2. \A r \in Asks : wait'[r] = wait[r] \/ (wait[r] = "waiting" /\ wait'[r] = "abort")
    BY <1>1
  <2> QED BY <2>1, <2>2, RequestsKept DEF Inv
<1> QED BY <1>3, <1>4, <1>6, <1>7, <1>9, <1>10 DEF Inv, TurnInv

\* exec_approval: a decision reaches the tool call that asked for it.
LEMMA TakeAnswerStep ==
  ASSUME Inv, NEW r \in Asks, TakeAnswer(r)
  PROVE  Inv'
<1>1. /\ ops' \in Seq(Ops) /\ (\A x : Queued(ops', x) => Queued(ops, x))
      /\ UNCHANGED <<events, cmds, server, clients>> /\ Queued(ops, <<"answer", r>>)
  BY OpTaken DEF TakeAnswer
<1>2. response[r] = "done" /\ result[r] \in Decisions /\ wait[r] \notin {"none", "asking"}
  BY <1>1 DEF Inv, RequestInv, Request
<1>3. CASE AbortBegins
  BY <1>1, <1>3, AbortBeginsStep
<1>4. CASE UNCHANGED core
  <2>1. CoreTypes' /\ QueueTypes' /\ ServerTypes' /\ TurnInv' /\ EveryJoinedAsked'
    BY <1>1, <1>4 DEF core, Inv, CoreTypes, QueueTypes, ServerTypes, TurnInv, Active, Waits,
       AbortedOnlyWithTurn, EveryJoinedAsked, server, clients
  <2>2. RequestInv'
    BY <1>1, <1>4, RequestsKept DEF Inv, core, server
  <2> QED BY <2>1, <2>2 DEF Inv
<1>5. ASSUME result[r] # "cancel", waiter' = [waiter EXCEPT ![r] = 0],
             wait' = [wait EXCEPT ![r] = IF @ # "waiting" THEN @
                         ELSE IF result[r] = "accept" THEN "approved" ELSE "denied"],
             UNCHANGED <<task, slot, phase, aborting, owner>>
      PROVE  Inv'
  <2>1. /\ \A q \in Asks \ {r} : wait'[q] = wait[q] /\ waiter'[q] = waiter[q]
        /\ wait'[r] = IF wait[r] # "waiting" THEN wait[r]
                      ELSE IF result[r] = "accept" THEN "approved" ELSE "denied"
    BY <1>5 DEF Inv, CoreTypes
  <2>2. wait'[r] \notin {"none", "asking", "waiting"} /\ (wait'[r] = "abort" => wait[r] = "abort")
    BY <1>2, <2>1
  <2>3. CoreTypes'
    BY <1>5, <2>1 DEF Inv, CoreTypes
  <2>4. QueueTypes' /\ ServerTypes' /\ EveryJoinedAsked'
    BY <1>1 DEF Inv, QueueTypes, ServerTypes, EveryJoinedAsked, server, clients
  <2>5. Active'
    BY <1>5 DEF Inv, TurnInv, Active
  <2>6. \A q \in Asks : Waits(q)'
    BY <1>2, <1>5, <2>1, <2>2 DEF Inv, TurnInv, Waits
  <2>7. AbortedOnlyWithTurn'
    BY <1>5, <2>1, <2>2 DEF Inv, TurnInv, AbortedOnlyWithTurn
  <2>8. UNCHANGED <<events, cmds, callbacks, response, result>>
    BY <1>1 DEF server
  <2>9. \A q \in Asks : Request(q)'
    BY <1>1, <1>2, <2>1, <2>2, <2>8 DEF Inv, RequestInv, Request
  <2>10. DecidedByClient'
    BY <1>2, <1>5, <2>1, <2>8 DEF Inv, RequestInv, DecidedByClient, Decisions
  <2> QED BY <2>3, <2>4, <2>5, <2>6, <2>7, <2>9, <2>10 DEF Inv, TurnInv, RequestInv
<1> QED BY <1>3, <1>4, <1>5 DEF TakeAnswer

-----------------------------------------------------------------------------
(* Steps of the listener, of the response tasks and of the clients.         *)

\* The turns do not see a change of the requests.
LEMMA TurnsKept ==
  ASSUME Inv, UNCHANGED core
  PROVE  CoreTypes' /\ TurnInv'
  BY DEF Inv, core, CoreTypes, TurnInv, Active, Waits, AbortedOnlyWithTurn

\* The listener takes the first event.
LEMMA EventTaken ==
  ASSUME Inv, events # <<>>, events' = Tail(events)
  PROVE  /\ events' \in Seq(Events) /\ Queued(events, Head(events))
         /\ \A x : Queued(events', x) => Queued(events, x)
         /\ \A x : Once(events, x) => Once(events', x)
         /\ Once(events, Head(events)) => ~Queued(events', Head(events))
<1>1. events \in Seq(Events)
  BY DEF Inv, QueueTypes
<1> QED BY <1>1, QueuedTail

\* The listener takes the first command.
LEMMA CommandTaken ==
  ASSUME Inv, cmds # <<>>, cmds' = Tail(cmds)
  PROVE  /\ cmds' \in Seq(Commands) /\ Queued(cmds, Head(cmds))
         /\ \A x : Queued(cmds', x) => Queued(cmds, x)
         /\ \A x : Once(cmds, x) => Once(cmds', x)
         /\ Once(cmds, Head(cmds)) => ~Queued(cmds', Head(cmds))
<1>1. cmds \in Seq(Commands)
  BY DEF Inv, QueueTypes
<1> QED BY <1>1, QueuedTail

\* A request is sent once: no callback is registered twice.
LEMMA ListenRequestStep ==
  ASSUME Inv, NEW r \in Asks, ListenRequest(r)
  PROVE  Inv'
<1>1. /\ events # <<>> /\ Head(events) = <<"request", r>> /\ events' = Tail(events)
      /\ callbacks' = callbacks \cup {r} /\ response' = [response EXCEPT ![r] = "waiting"]
      /\ inbox' = [c \in Conns |-> IF c \in subscribed THEN inbox[c] \cup {r} ELSE inbox[c]]
      /\ UNCHANGED <<core, ops, cmds, result, subscribed, joined, inputs, moves>>
  BY DEF ListenRequest
<1>2. /\ events' \in Seq(Events) /\ Queued(events, <<"request", r>>)
      /\ \A x : Queued(events', x) => Queued(events, x)
      /\ \A x : Once(events, x) => Once(events', x)
      /\ Once(events, <<"request", r>>) => ~Queued(events', <<"request", r>>)
  BY <1>1, EventTaken
<1>3. CoreTypes' /\ TurnInv' /\ UNCHANGED wait
  BY <1>1, TurnsKept DEF core
<1>4. QueueTypes' /\ ServerTypes'
  BY <1>1, <1>2 DEF Inv, QueueTypes, ServerTypes
<1>5. response'[r] = "waiting" /\ \A q \in Asks \ {r} : response'[q] = response[q]
  BY <1>1 DEF Inv, ServerTypes
<1>6. \A q \in Asks \ {r} : Request(q)'
  BY <1>1, <1>2, <1>3, <1>5 DEF Inv, RequestInv, Request
<1>7. Request(r)'
  <2>1. /\ response[r] = "none" /\ wait[r] \notin {"none", "asking"} /\ wait[r] \notin {"approved", "denied"}
        /\ ~Queued(events', <<"request", r>>) /\ ~Queued(cmds, <<"resolve", r>>)
        /\ ~Queued(ops, <<"answer", r>>)
    BY <1>2 DEF Inv, RequestInv, Request
  <2> QED BY <1>1, <1>2, <1>3, <1>5, <2>1 DEF Inv, RequestInv, Request
<1>8. DecidedByClient'
  BY <1>1, <1>3 DEF Inv, RequestInv, DecidedByClient
<1>9. EveryJoinedAsked'
  BY <1>1 DEF Inv, ServerTypes, EveryJoinedAsked
<1> QED BY <1>3, <1>4, <1>6, <1>7, <1>8, <1>9 DEF Inv, RequestInv

\* abort_pending_server_requests withdraws what has a callback.
LEMMA ListenTurnStep ==
  ASSUME Inv, NEW t \in Turns, ListenTurn(t)
  PROVE  Inv'
<1>1. /\ events # <<>> /\ events' = Tail(events) /\ callbacks' = {}
      /\ response' = [r \in Asks |-> IF r \in callbacks THEN "answered" ELSE response[r]]
      /\ result' = [r \in Asks |-> IF r \in callbacks THEN "transition" ELSE result[r]]
      /\ UNCHANGED <<core, ops, cmds, subscribed, joined, inbox, inputs, moves>>
  BY DEF ListenTurn, clients
<1>2. /\ events' \in Seq(Events)
      /\ \A x : Queued(events', x) => Queued(events, x)
      /\ \A x : Once(events, x) => Once(events', x)
  BY <1>1, EventTaken
<1>3. CoreTypes' /\ TurnInv' /\ UNCHANGED wait
  BY <1>1, TurnsKept DEF core
<1>4. QueueTypes' /\ ServerTypes'
  BY <1>1, <1>2 DEF Inv, QueueTypes, ServerTypes
<1>5. \A q \in Asks : q \in callbacks => response[q] = "waiting"
  BY DEF Inv, RequestInv, Request
<1>6. \A q \in Asks : Request(q)'
  BY <1>1, <1>2, <1>3, <1>5 DEF Inv, RequestInv, Request
<1>7. DecidedByClient'
  BY <1>1, <1>3, <1>5 DEF Inv, RequestInv, Request, DecidedByClient
<1>8. EveryJoinedAsked'
  BY <1>1 DEF EveryJoinedAsked
<1> QED BY <1>3, <1>4, <1>6, <1>7, <1>8 DEF Inv, RequestInv

\* What is announced as resolved has no callback any more.
LEMMA ListenResolveStep ==
  ASSUME Inv, NEW r \in Asks, ListenResolve(r)
  PROVE  Inv'
<1>1. /\ cmds # <<>> /\ Head(cmds) = <<"resolve", r>> /\ cmds' = Tail(cmds)
      /\ response' = [response EXCEPT ![r] = "resolved"]
      /\ inbox' = [c \in Conns |-> IF c \in subscribed THEN inbox[c] \ {r} ELSE inbox[c]]
      /\ UNCHANGED <<core, ops, events, callbacks, result, subscribed, joined, inputs, moves>>
  BY DEF ListenResolve
<1>2. /\ cmds' \in Seq(Commands) /\ Queued(cmds, <<"resolve", r>>)
      /\ \A x : Queued(cmds', x) => Queued(cmds, x)
      /\ \A x : Once(cmds, x) => Once(cmds', x)
      /\ Once(cmds, <<"resolve", r>>) => ~Queued(cmds', <<"resolve", r>>)
  BY <1>1, CommandTaken
<1>3. CoreTypes' /\ TurnInv' /\ UNCHANGED wait
  BY <1>1, TurnsKept DEF core
<1>4. QueueTypes' /\ ServerTypes'
  BY <1>1, <1>2 DEF Inv, QueueTypes, ServerTypes
<1>5. response'[r] = "resolved" /\ \A q \in Asks \ {r} : response'[q] = response[q]
  BY <1>1 DEF Inv, ServerTypes
<1>6. \A q \in Asks \ {r} : Request(q)'
  BY <1>1, <1>2, <1>3, <1>5 DEF Inv, RequestInv, Request
<1>7. response[r] = "resolving" /\ ~Queued(cmds', <<"resolve", r>>) /\ r \notin callbacks
  BY <1>2 DEF Inv, RequestInv, Request
<1>8. Request(r)'
  BY <1>1, <1>2, <1>3, <1>5, <1>7 DEF Inv, RequestInv, Request
<1>9. DecidedByClient'
  BY <1>1, <1>3 DEF Inv, RequestInv, DecidedByClient
<1>10. EveryJoinedAsked'
  BY <1>1, <1>7 DEF Inv, ServerTypes, EveryJoinedAsked
<1> QED BY <1>3, <1>4, <1>6, <1>8, <1>9, <1>10 DEF Inv, RequestInv

\* A connection that resumes gets what is pending.
LEMMA ListenResumeStep ==
  ASSUME Inv, NEW c \in Conns, ListenResume(c)
  PROVE  Inv'
<1>1. /\ cmds # <<>> /\ cmds' = Tail(cmds) /\ subscribed' = subscribed \cup {c}
      /\ joined' = joined \cup {c} /\ inbox' = [inbox EXCEPT ![c] = @ \cup callbacks]
      /\ UNCHANGED <<core, ops, events, callbacks, response, result, inputs, moves>>
  BY DEF ListenResume
<1>2. /\ cmds' \in Seq(Commands)
      /\ \A x : Queued(cmds', x) => Queued(cmds, x)
      /\ \A x : Once(cmds, x) => Once(cmds', x)
  BY <1>1, CommandTaken
<1>3. CoreTypes' /\ TurnInv' /\ UNCHANGED wait
  BY <1>1, TurnsKept DEF core
<1>4. QueueTypes' /\ ServerTypes'
  BY <1>1, <1>2 DEF Inv, QueueTypes, ServerTypes
<1>5. RequestInv'
  BY <1>1, <1>2, <1>3 DEF Inv, RequestInv, Request, DecidedByClient
<1>6. EveryJoinedAsked'
  BY <1>1 DEF Inv, ServerTypes, EveryJoinedAsked
<1> QED BY <1>3, <1>4, <1>5, <1>6 DEF Inv

\* A resume that fails may leave a subscriber behind, which has not joined.
LEMMA ListenResumeFailsStep ==
  ASSUME Inv, NEW c \in Conns, ListenResumeFails(c)
  PROVE  Inv'
<1>1. /\ cmds # <<>> /\ cmds' = Tail(cmds) /\ subscribed' \in {subscribed, subscribed \cup {c}}
      /\ UNCHANGED <<core, ops, events, callbacks, response, result, joined, inbox, inputs, moves>>
  BY DEF ListenResumeFails, clients
<1>2. /\ cmds' \in Seq(Commands)
      /\ \A x : Queued(cmds', x) => Queued(cmds, x)
      /\ \A x : Once(cmds, x) => Once(cmds', x)
  BY <1>1, CommandTaken
<1>3. CoreTypes' /\ TurnInv' /\ UNCHANGED wait
  BY <1>1, TurnsKept DEF core
<1>4. QueueTypes' /\ ServerTypes'
  BY <1>1, <1>2 DEF Inv, QueueTypes, ServerTypes
<1>5. RequestInv' /\ EveryJoinedAsked'
  BY <1>1, <1>2, <1>3 DEF Inv, RequestInv, Request, DecidedByClient, EveryJoinedAsked
<1> QED BY <1>3, <1>4, <1>5 DEF Inv

\* A response task has its request resolved once.
LEMMA SendResolveStep ==
  ASSUME Inv, NEW r \in Asks, SendResolve(r)
  PROVE  Inv'
<1> DEFINE y == <<"resolve", r>>
<1>1. /\ response[r] = "answered" /\ response' = [response EXCEPT ![r] = "resolving"]
      /\ cmds' = Append(cmds, y) /\ cmds \in Seq(Commands) /\ y \in Commands
      /\ UNCHANGED <<core, ops, events, callbacks, result, subscribed, joined, inbox, inputs, moves>>
  BY DEF SendResolve, Inv, QueueTypes, Commands, clients
<1>2. /\ cmds' \in Seq(Commands)
      /\ \A x : Queued(cmds', x) <=> Queued(cmds, x) \/ x = y
      /\ \A x : Once(cmds, x) /\ (x = y => ~Queued(cmds, x)) => Once(cmds', x)
  <2> HIDE DEF y
  <2> QED BY <1>1, QueuedAppend
<1>3. CoreTypes' /\ TurnInv' /\ UNCHANGED wait
  BY <1>1, TurnsKept DEF core
<1>4. QueueTypes' /\ ServerTypes'
  BY <1>1, <1>2 DEF Inv, QueueTypes, ServerTypes
<1>5. response'[r] = "resolving" /\ \A q \in Asks \ {r} : response'[q] = response[q] /\ <<"resolve", q>> # y
  BY <1>1 DEF Inv, ServerTypes
<1>6. \A q \in Asks \ {r} : Request(q)'
  BY <1>1, <1>2, <1>3, <1>5 DEF Inv, RequestInv, Request
<1>7. ~Queued(cmds, y) /\ r \notin callbacks /\ wait[r] \notin {"none", "asking"}
      /\ wait[r] \notin {"approved", "denied"}
  BY <1>1 DEF Inv, RequestInv, Request
<1>8. Request(r)'
  BY <1>1, <1>2, <1>3, <1>5, <1>7 DEF Inv, RequestInv, Request
<1>9. DecidedByClient' /\ EveryJoinedAsked'
  BY <1>1, <1>3 DEF Inv, RequestInv, DecidedByClient, EveryJoinedAsked
<1> QED BY <1>3, <1>4, <1>6, <1>8, <1>9 DEF Inv, RequestInv

\* A decision is submitted once, if it is one.
LEMMA SubmitDecisionStep ==
  ASSUME Inv, NEW r \in Asks, SubmitDecision(r)
  PROVE  Inv'
<1> DEFINE y == <<"answer", r>>
<1>1. /\ response[r] = "resolved" /\ response' = [response EXCEPT ![r] = "done"]
      /\ ops' = (IF result[r] = "transition" THEN ops ELSE Append(ops, y))
      /\ ops \in Seq(Ops) /\ y \in Ops
      /\ UNCHANGED <<core, events, cmds, callbacks, result, subscribed, joined, inbox, inputs, moves>>
  BY DEF SubmitDecision, Inv, QueueTypes, Ops, clients
<1>2. ops' \in Seq(Ops) /\ \A x : Queued(ops', x) => Queued(ops, x) \/ (x = y /\ result[r] # "transition")
  <2> HIDE DEF y
  <2>1. CASE result[r] = "transition"
    BY <1>1, <2>1
  <2>2. CASE result[r] # "transition"
    BY <1>1, <2>2, QueuedAppend
  <2> QED BY <2>1, <2>2
<1>3. CoreTypes' /\ TurnInv' /\ UNCHANGED wait
  BY <1>1, TurnsKept DEF core
<1>4. QueueTypes' /\ ServerTypes'
  BY <1>1, <1>2 DEF Inv, QueueTypes, ServerTypes
<1>5. response'[r] = "done" /\ \A q \in Asks \ {r} : response'[q] = response[q] /\ <<"answer", q>> # y
  BY <1>1 DEF Inv, ServerTypes
<1>6. \A q \in Asks \ {r} : Request(q)'
  BY <1>1, <1>2, <1>3, <1>5 DEF Inv, RequestInv, Request
<1>7. /\ ~Queued(cmds, <<"resolve", r>>) /\ ~Queued(events, <<"request", r>>) /\ r \notin callbacks
      /\ ~Queued(ops, y) /\ result[r] \in Decisions \cup {"transition"} /\ wait[r] \notin {"none", "asking"}
  BY <1>1 DEF Inv, RequestInv, Request
<1>8. Request(r)'
  BY <1>1, <1>2, <1>3, <1>5, <1>7 DEF Inv, RequestInv, Request
<1>9. DecidedByClient' /\ EveryJoinedAsked'
  BY <1>1, <1>3 DEF Inv, RequestInv, DecidedByClient, EveryJoinedAsked
<1> QED BY <1>3, <1>4, <1>6, <1>8, <1>9 DEF Inv, RequestInv

\* notify_client_response: only a request with a callback gets a result.
LEMMA AnswerStep ==
  ASSUME Inv, NEW c \in Conns, NEW r \in Asks, NEW d \in Decisions, Answer(c, r, d)
  PROVE  Inv'
<1>1. /\ inbox' = [inbox EXCEPT ![c] = @ \ {r}] /\ callbacks' = callbacks \ {r}
      /\ response' = (IF r \in callbacks THEN [response EXCEPT ![r] = "answered"] ELSE response)
      /\ result' = (IF r \in callbacks THEN [result EXCEPT ![r] = d] ELSE result)
      /\ UNCHANGED <<core, ops, events, cmds, subscribed, joined, inputs, moves>>
  BY DEF Answer
<1>2. CoreTypes' /\ TurnInv' /\ UNCHANGED wait
  BY <1>1, TurnsKept DEF core
<1>3. QueueTypes' /\ ServerTypes'
  BY <1>1 DEF Inv, QueueTypes, ServerTypes
<1>4. /\ \A q \in Asks \ {r} : response'[q] = response[q] /\ result'[q] = result[q]
      /\ r \in callbacks => response'[r] = "answered" /\ result'[r] = d
      /\ r \notin callbacks => response'[r] = response[r] /\ result'[r] = result[r]
  BY <1>1 DEF Inv, ServerTypes
<1>5. \A q \in Asks : q \in callbacks => response[q] = "waiting"
  BY DEF Inv, RequestInv, Request
<1>6. \A q \in Asks : Request(q)'
  BY <1>1, <1>2, <1>4, <1>5 DEF Inv, RequestInv, Request
<1>7. DecidedByClient'
  BY <1>1, <1>2, <1>4, <1>5 DEF Inv, RequestInv, Request, DecidedByClient
<1>8. EveryJoinedAsked'
  BY <1>1 DEF Inv, ServerTypes, EveryJoinedAsked
<1> QED BY <1>2, <1>3, <1>6, <1>7, <1>8 DEF Inv, RequestInv

\* Operations of clients, and connections that close, leave, attach and resume.
LEMMA ClientStep ==
  ASSUME Inv, \/ Submit(<<"input">>) \/ Submit(<<"interrupt">>)
              \/ \E c \in Conns : CloseConnection(c) \/ Unsubscribe(c) \/ Attach(c) \/ RequestResume(c)
  PROVE  Inv'
<1>1. ASSUME NEW op \in {<<"input">>, <<"interrupt">>}, Submit(op) PROVE Inv'
  <2>1. /\ op \in Ops /\ ops \in Seq(Ops) /\ ops' = Append(ops, op) /\ inputs < MaxInputs /\ inputs' = inputs + 1
        /\ UNCHANGED <<core, events, cmds, callbacks, response, result, subscribed, joined, inbox, moves>>
    BY <1>1 DEF Submit, server, Ops, Inv, QueueTypes
  <2>2. ops' \in Seq(Ops) /\ \A x : Queued(ops', x) => Queued(ops, x) \/ x = op
    BY <2>1, QueuedAppend
  <2>3. \A r \in Asks : <<"answer", r>> # op
    BY <1>1
  <2>4. CoreTypes' /\ TurnInv' /\ UNCHANGED wait
    BY <2>1, TurnsKept DEF core
  <2>5. QueueTypes' /\ ServerTypes' /\ EveryJoinedAsked'
    BY <2>1, <2>2, ApprovalsAssumption DEF Inv, QueueTypes, ServerTypes, EveryJoinedAsked
  <2>6. RequestInv'
    BY <2>1, <2>2, <2>3, <2>4 DEF Inv, RequestInv, Request, DecidedByClient
  <2> QED BY <2>4, <2>5, <2>6 DEF Inv
<1>2. ASSUME NEW c \in Conns, CloseConnection(c) PROVE Inv'
  <2>1. /\ subscribed' = subscribed \ {c} /\ joined' = joined \ {c} /\ inbox' = [inbox EXCEPT ![c] = {}]
        /\ UNCHANGED <<core, ops, events, cmds, callbacks, response, result, inputs, moves>>
    BY <1>2 DEF CloseConnection
  <2>2. CoreTypes' /\ TurnInv' /\ UNCHANGED wait
    BY <2>1, TurnsKept DEF core
  <2>3. QueueTypes' /\ ServerTypes' /\ EveryJoinedAsked'
    BY <2>1 DEF Inv, QueueTypes, ServerTypes, EveryJoinedAsked
  <2>4. RequestInv'
    BY <2>1, <2>2, RequestsKept DEF Inv
  <2> QED BY <2>2, <2>3, <2>4 DEF Inv
<1>3. ASSUME NEW c \in Conns, RequestResume(c) PROVE Inv'
  <2> DEFINE y == <<"resume", c>>
  <2>1. /\ cmds' = Append(cmds, y) /\ moves' = moves + 1 /\ moves < MaxMoves
        /\ cmds \in Seq(Commands) /\ y \in Commands
        /\ UNCHANGED <<core, ops, events, callbacks, response, result, subscribed, joined, inbox, inputs>>
    BY <1>3 DEF RequestResume, server, Inv, QueueTypes, Commands
  <2>2. \A r \in Asks : <<"resolve", r>> # y
    OBVIOUS
  <2>3. /\ cmds' \in Seq(Commands)
        /\ \A x : Queued(cmds', x) <=> Queued(cmds, x) \/ x = y
        /\ \A x : Once(cmds, x) /\ (x = y => ~Queued(cmds, x)) => Once(cmds', x)
    <3> HIDE DEF y
    <3> QED BY <2>1, QueuedAppend
  <2>4. CoreTypes' /\ TurnInv' /\ UNCHANGED wait
    BY <2>1, TurnsKept DEF core
  <2>5. QueueTypes' /\ ServerTypes' /\ EveryJoinedAsked'
    BY <2>1, <2>3, ApprovalsAssumption DEF Inv, QueueTypes, ServerTypes, EveryJoinedAsked
  <2>6. RequestInv'
    BY <2>1, <2>2, <2>3, <2>4 DEF Inv, RequestInv, Request, DecidedByClient
  <2> QED BY <2>4, <2>5, <2>6 DEF Inv
<1>4. ASSUME NEW c \in Conns, Unsubscribe(c) \/ Attach(c) PROVE Inv'
  <2>1. /\ \/ subscribed' = subscribed \ {c} /\ joined' = joined \ {c}
           \/ subscribed' = subscribed \cup {c} /\ joined' = joined
        /\ moves < MaxMoves /\ moves' = moves + 1
        /\ UNCHANGED <<core, ops, events, cmds, callbacks, response, result, inbox, inputs>>
    BY <1>4 DEF Unsubscribe, Attach
  <2>2. CoreTypes' /\ TurnInv' /\ UNCHANGED wait
    BY <2>1, TurnsKept DEF core
  <2>3. QueueTypes' /\ ServerTypes' /\ EveryJoinedAsked'
    BY <2>1, ApprovalsAssumption DEF Inv, QueueTypes, ServerTypes, EveryJoinedAsked
  <2>4. RequestInv'
    BY <2>1, <2>2, RequestsKept DEF Inv
  <2> QED BY <2>2, <2>3, <2>4 DEF Inv
<1> QED BY <1>1, <1>2, <1>3, <1>4

-----------------------------------------------------------------------------

\* Every step preserves Inv.
LEMMA InvNext == Inv /\ [Next]_vars => Inv'
<1> SUFFICES ASSUME Inv, [Next]_vars PROVE Inv'
  OBVIOUS
<1>1. CASE (\E t \in Turns, r \in Asks : Ask(t, r)) \/ (\E r \in Asks : SendAsk(r))
           \/ (\E t \in Turns : Finishing(t))
  BY <1>1, AskStep, SendAskStep, FinishStep
<1>2. CASE Loop
  BY <1>2, TakeInputStep, TakeInterruptStep, AbortSendsStep, AbortClearsStep, TakeAnswerStep DEF Loop
<1>3. CASE Listener
  BY <1>3, ListenRequestStep, ListenResolveStep, ListenTurnStep, ListenResumeStep,
     ListenResumeFailsStep DEF Listener
<1>4. CASE \E r \in Asks : Respond(r)
  BY <1>4, SendResolveStep, SubmitDecisionStep DEF Respond
<1>5. CASE \/ Submit(<<"input">>) \/ Submit(<<"interrupt">>)
           \/ \E c \in Conns : CloseConnection(c) \/ Unsubscribe(c) \/ Attach(c) \/ RequestResume(c)
  BY <1>5, ClientStep
<1>6. CASE \E c \in Conns, r \in Asks, d \in Decisions : Answer(c, r, d)
  BY <1>6, AnswerStep
<1>7. CASE UNCHANGED vars
  <2>1. UNCHANGED <<core, ops, events, cmds, callbacks, response, result, subscribed, joined, inbox, inputs, moves, wait>>
    BY <1>7 DEF vars, server, clients, core
  <2>2. CoreTypes' /\ TurnInv'
    BY <2>1, TurnsKept
  <2>3. QueueTypes' /\ ServerTypes' /\ EveryJoinedAsked' /\ RequestInv'
    BY <2>1, RequestsKept DEF Inv, QueueTypes, ServerTypes, EveryJoinedAsked
  <2> QED BY <2>2, <2>3 DEF Inv
<1> QED BY <1>1, <1>2, <1>3, <1>4, <1>5, <1>6, <1>7 DEF Next

\* Turns, queues and requests keep their types.
THEOREM TypeCorrect == Spec => []TypeOK
<1>1. Inv => TypeOK
  BY TypeParts DEF Inv
<1> QED BY InvInit, InvNext, <1>1, PTL DEF Spec

\* on_command_execution_request_approval_response, exec_approval: a tool call
\* is approved or denied only by what a client answered to its own request.
THEOREM DecidedByClientHolds == Spec => []DecidedByClient
<1>1. Inv => DecidedByClient
  BY DEF Inv, RequestInv
<1> QED BY InvInit, InvNext, <1>1, PTL DEF Spec

\* request_command_approval, abort_all_tasks: an approval ends as aborted only
\* if the turn that asked was cancelled.
THEOREM AbortedOnlyWithTurnHolds == Spec => []AbortedOnlyWithTurn
<1>1. Inv => AbortedOnlyWithTurn
  BY DEF Inv, TurnInv
<1> QED BY InvInit, InvNext, <1>1, PTL DEF Spec

\* send_request, handle_pending_thread_resume_request: a client whose start or
\* resume of the thread was answered has every pending request, until it answers
\* or leaves.
THEOREM EveryJoinedAskedHolds == Spec => []EveryJoinedAsked
<1>1. Inv => EveryJoinedAsked
  BY DEF Inv
<1> QED BY InvInit, InvNext, <1>1, PTL DEF Spec
=============================================================================
