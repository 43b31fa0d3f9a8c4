------------------------------ MODULE Approvals ------------------------------
(***************************************************************************)
(* The way of an approval from a tool call of a turn to a client and back.  *)
(*                                                                         *)
(* Core (session/mod.rs, session/handlers.rs, tasks/mod.rs): a tool call    *)
(* leaves the sender of its answer in the state of the active turn, emits   *)
(* an event and waits.  The submission loop takes one operation at a time:  *)
(* it starts turns, interrupts them and hands decisions to the waiters.     *)
(*                                                                         *)
(* App server (request_processors/thread_lifecycle.rs,                      *)
(* bespoke_event_handling.rs, outgoing_message.rs): the listener of the     *)
(* thread turns the event into a request with a callback to all subscribed  *)
(* connections, withdraws the requests of the thread when a turn starts or  *)
(* ends, and replays them to a connection that resumes the thread.  A       *)
(* response task takes the answer, has the listener announce that the       *)
(* request is resolved and submits the decision.                            *)
(***************************************************************************)
EXTENDS Naturals, Sequences, FiniteSets

CONSTANTS
    Conns,      \* connections of clients
    MaxTurns,   \* bound on the turns
    MaxAsks,    \* bound on the approvals
    MaxInputs,  \* bound on the operations clients submit themselves
    MaxMoves    \* bound on the times a connection resumes, attaches or unsubscribes

ASSUME ApprovalsAssumption ==
    /\ MaxTurns \in Nat /\ MaxAsks \in Nat /\ MaxInputs \in Nat /\ MaxMoves \in Nat

VARIABLES
    \* core
    task,       \* the turn whose task is in the active turn, or 0
    slot,       \* the turn whose state is in the active turn, or 0
    phase,      \* where each turn is
    aborting,   \* the turn the submission loop is aborting, or 0
    wait,       \* the tool call of each approval
    owner,      \* the turn that asked
    waiter,     \* the turn whose state holds the sender, or 0
    ops,        \* the submission queue
    events,     \* the events for the listener
    \* app server
    cmds,       \* the commands for the listener
    callbacks,  \* request_id_to_callback
    response,   \* the response task of each request
    result,     \* what its callback received
    subscribed, \* the connections subscribed to the thread
    joined,     \* history: the subscribed ones whose thread/start or thread/resume
                \* was answered
    \* clients
    inbox,      \* the requests a client has and has not answered
    inputs,     \* operations submitted by clients
    moves       \* resumes, attachments and unsubscribes so far

core == <<task, slot, phase, aborting, wait, owner, waiter>>
server == <<callbacks, response, result, subscribed, joined>>
clients == <<inbox, inputs, moves>>
vars == <<core, ops, events, cmds, server, clients>>

Turns == 1..MaxTurns
Asks == 1..MaxAsks
Decisions == {"accept", "decline", "cancel"}

(* What is queued: client operations and decisions for the submission loop, *)
(* turn boundaries and requests for the listener, commands for the          *)
(* listener.                                                                *)
Ops == {<<"input">>, <<"interrupt">>} \cup {<<"answer", r>> : r \in Asks}
Events == {<<"turn", t>> : t \in Turns} \cup {<<"request", r>> : r \in Asks}
Commands == {<<"resolve", r>> : r \in Asks} \cup {<<"resume", c>> : c \in Conns}

(* The type invariant; a task is in the active turn, never without it.      *)
TypeOK ==
    /\ slot \in Turns \cup {0} /\ task \in {0, slot} /\ aborting \in Turns \cup {0}
    /\ phase \in [Turns -> {"none", "running", "cancelled", "aborted", "finishing",
                            "sent", "over"}]
    /\ wait \in [Asks -> {"none", "asking", "waiting", "approved", "denied", "abort"}]
    /\ owner \in [Asks -> Turns \cup {0}] /\ waiter \in [Asks -> Turns \cup {0}]
    /\ ops \in Seq(Ops) /\ events \in Seq(Events) /\ cmds \in Seq(Commands)
    /\ callbacks \subseteq Asks
    /\ response \in [Asks -> {"none", "waiting", "answered", "resolving", "resolved", "done"}]
    /\ result \in [Asks -> Decisions \cup {"none", "transition"}]
    /\ subscribed \subseteq Conns /\ joined \subseteq subscribed
    /\ inbox \in [Conns -> SUBSET Asks]
    /\ inputs \in 0..MaxInputs /\ moves \in 0..MaxMoves

(* A thread without turns, which the connections have subscribed to.        *)
Init ==
    /\ task = 0 /\ slot = 0 /\ aborting = 0
    /\ phase = [t \in Turns |-> "none"]
    /\ wait = [r \in Asks |-> "none"]
    /\ owner = [r \in Asks |-> 0] /\ waiter = [r \in Asks |-> 0]
    /\ ops = <<>> /\ events = <<>> /\ cmds = <<>>
    /\ callbacks = {}
    /\ response = [r \in Asks |-> "none"] /\ result = [r \in Asks |-> "none"]
    /\ subscribed = Conns /\ joined = Conns
    /\ inbox = [c \in Conns |-> {}]
    /\ inputs = 0 /\ moves = 0

-----------------------------------------------------------------------------
(* Turns.                                                                   *)

Fresh(t) == phase[t] = "none" /\ \A u \in Turns : u < t => phase[u] # "none"

(* request_command_approval, request_patch_approval: the sender goes into   *)
(* the active turn of the moment, without one it is dropped; then the event *)
(* is sent and the tool call waits.                                         *)
Working(t) == phase[t] \in {"running", "cancelled"}

Ask(t, r) ==
    /\ Working(t)
    /\ wait[r] = "none" /\ \A q \in Asks : q < r => wait[q] # "none"
    /\ owner' = [owner EXCEPT ![r] = t]
    /\ waiter' = [waiter EXCEPT ![r] = slot]
    /\ wait' = [wait EXCEPT ![r] = "asking"]
    /\ UNCHANGED <<task, slot, phase, aborting, ops, events, cmds, server, clients>>

SendAsk(r) ==
    /\ wait[r] = "asking"
    /\ wait' = [wait EXCEPT ![r] = IF waiter[r] = 0 THEN "abort" ELSE "waiting"]
    /\ events' = Append(events, <<"request", r>>)
    /\ UNCHANGED <<task, slot, phase, aborting, owner, waiter, ops, cmds, server, clients>>

Waiting(t) == {r \in Asks : owner[r] = t /\ wait[r] \in {"asking", "waiting"}}

(* on_task_finished: the task is taken out of the active turn, the terminal *)
(* event is sent, the active turn is cleared if it is still this one.       *)
FinishTake(t) ==
    /\ phase[t] = "running" /\ task = t /\ Waiting(t) = {}
    /\ phase' = [phase EXCEPT ![t] = "finishing"]
    /\ task' = 0
    /\ UNCHANGED <<slot, aborting, wait, owner, waiter, ops, events, cmds, server, clients>>

FinishSend(t) ==
    /\ phase[t] = "finishing"
    /\ phase' = [phase EXCEPT ![t] = "sent"]
    /\ events' = Append(events, <<"turn", t>>)
    /\ UNCHANGED <<task, slot, aborting, wait, owner, waiter, ops, cmds, server, clients>>

(* Mutant of FinishClear: whatever turn is active is cleared.              *)
FinishClearAny(t) ==
    /\ phase[t] = "sent"
    /\ phase' = [phase EXCEPT ![t] = "over"]
    /\ slot' = 0
    /\ UNCHANGED <<task, aborting, wait, owner, waiter, ops, events, cmds, server, clients>>

FinishClear(t) ==
    /\ phase[t] = "sent"
    /\ phase' = [phase EXCEPT ![t] = "over"]
    /\ slot' = IF slot = t THEN 0 ELSE slot
    /\ UNCHANGED <<task, aborting, wait, owner, waiter, ops, events, cmds, server, clients>>

-----------------------------------------------------------------------------
(* The submission loop.                                                     *)

Takes(op) == aborting = 0 /\ ops # <<>> /\ Head(ops) = op /\ ops' = Tail(ops)

(* Mutant of AbortBegins: the task is not told of its abort.               *)
AbortBeginsQuietly ==
    /\ slot' = 0 /\ task' = 0 /\ aborting' = task
    /\ UNCHANGED <<phase, wait, owner, waiter>>

(* abort_all_tasks takes the active turn; a turn without task is dropped.   *)
AbortBegins ==
    /\ slot' = 0 /\ task' = 0 /\ aborting' = task
    /\ phase' = IF task = 0 THEN phase ELSE [phase EXCEPT ![task] = "cancelled"]
    /\ UNCHANGED <<wait, owner, waiter>>

(* Input is steered into the running task, or takes the place of the active *)
(* turn and starts one.                                                     *)
TakeInput ==
    /\ Takes(<<"input">>)
    /\ \/ task # 0 /\ UNCHANGED <<core, events>>
       \/ /\ task = 0
          /\ \E t \in Turns :
                /\ Fresh(t)
                /\ task' = t /\ slot' = t
                /\ phase' = [phase EXCEPT ![t] = "running"]
                /\ events' = Append(events, <<"turn", t>>)
          /\ UNCHANGED <<aborting, wait, owner, waiter>>
    /\ UNCHANGED <<cmds, server, clients>>

TakeInterrupt ==
    /\ Takes(<<"interrupt">>)
    /\ AbortBegins
    /\ UNCHANGED <<events, cmds, server, clients>>

(* handle_task_abort: the task is gone, and with it the tool calls that     *)
(* waited; then TurnAborted is sent.                                        *)
AbortSends ==
    /\ aborting # 0 /\ phase[aborting] = "cancelled"
    /\ phase' = [phase EXCEPT ![aborting] = "aborted"]
    /\ wait' = [r \in Asks |-> IF r \in Waiting(aborting) THEN "abort" ELSE wait[r]]
    /\ events' = Append(events, <<"turn", aborting>>)
    /\ UNCHANGED <<task, slot, aborting, owner, waiter, ops, cmds, server, clients>>

(* clear_pending: the senders in the state of the turn are dropped.         *)
Dropped(t) == {r \in Asks : waiter[r] = t}

AbortClears ==
    /\ aborting # 0 /\ phase[aborting] = "aborted"
    /\ phase' = [phase EXCEPT ![aborting] = "over"]
    /\ wait' = [r \in Asks |-> IF r \in Dropped(aborting) /\ wait[r] = "waiting"
                               THEN "abort" ELSE wait[r]]
    /\ waiter' = [r \in Asks |-> IF r \in Dropped(aborting) THEN 0 ELSE waiter[r]]
    /\ aborting' = 0
    /\ UNCHANGED <<task, slot, owner, ops, events, cmds, server, clients>>

(* exec_approval, patch_approval: a decision to abort interrupts the        *)
(* session, any other goes to the waiter in the active turn, if it is there.*)
TakeAnswer(r) ==
    /\ Takes(<<"answer", r>>)
    /\ \/ result[r] = "cancel" /\ AbortBegins
       \/ /\ result[r] # "cancel" /\ slot # 0 /\ waiter[r] = slot
          /\ waiter' = [waiter EXCEPT ![r] = 0]
          /\ wait' = [wait EXCEPT ![r] = IF @ # "waiting" THEN @
                         ELSE IF result[r] = "accept" THEN "approved" ELSE "denied"]
          /\ UNCHANGED <<task, slot, phase, aborting, owner>>
       \/ /\ result[r] # "cancel" /\ (slot = 0 \/ waiter[r] # slot)
          /\ UNCHANGED core
    /\ UNCHANGED <<events, cmds, server, clients>>

-----------------------------------------------------------------------------
(* The listener of the thread.                                              *)

(* send_request: the callback is registered, then the request is sent to    *)
(* the subscribed connections.                                              *)
ListenRequest(r) ==
    /\ events # <<>> /\ Head(events) = <<"request", r>> /\ events' = Tail(events)
    /\ callbacks' = callbacks \cup {r}
    /\ response' = [response EXCEPT ![r] = "waiting"]
    /\ inbox' = [c \in Conns |-> IF c \in subscribed THEN inbox[c] \cup {r} ELSE inbox[c]]
    /\ UNCHANGED <<core, ops, cmds, result, subscribed, joined, inputs, moves>>

(* TurnStarted, TurnComplete and TurnAborted: abort_pending_server_requests.*)
ListenTurn(t) ==
    /\ events # <<>> /\ Head(events) = <<"turn", t>> /\ events' = Tail(events)
    /\ callbacks' = {}
    /\ response' = [r \in Asks |-> IF r \in callbacks THEN "answered" ELSE response[r]]
    /\ result' = [r \in Asks |-> IF r \in callbacks THEN "transition" ELSE result[r]]
    /\ UNCHANGED <<core, ops, cmds, subscribed, joined, clients>>

(* ResolveServerRequest: the clients are told, the response task goes on.   *)
ListenResolve(r) ==
    /\ cmds # <<>> /\ Head(cmds) = <<"resolve", r>> /\ cmds' = Tail(cmds)
    /\ response' = [response EXCEPT ![r] = "resolved"]
    /\ inbox' = [c \in Conns |-> IF c \in subscribed THEN inbox[c] \ {r} ELSE inbox[c]]
    /\ UNCHANGED <<core, ops, events, callbacks, result, subscribed, joined, inputs, moves>>

(* Mutant of ListenResume: nothing is replayed.                            *)
ListenResumeOnly(c) ==
    /\ cmds # <<>> /\ Head(cmds) = <<"resume", c>> /\ cmds' = Tail(cmds)
    /\ subscribed' = subscribed \cup {c} /\ joined' = joined \cup {c}
    /\ UNCHANGED <<core, ops, events, callbacks, response, result, clients>>

(* handle_pending_thread_resume_request: the connection is subscribed, the  *)
(* resume answered and the pending requests are replayed to it.             *)
ListenResume(c) ==
    /\ cmds # <<>> /\ Head(cmds) = <<"resume", c>> /\ cmds' = Tail(cmds)
    /\ subscribed' = subscribed \cup {c} /\ joined' = joined \cup {c}
    /\ inbox' = [inbox EXCEPT ![c] = @ \cup callbacks]
    /\ UNCHANGED <<core, ops, events, callbacks, response, result, inputs, moves>>

(* ... or it ends with an error: before the subscription (the page of turns *)
(* cannot be built, the connection has closed), or behind it (the cursors   *)
(* cannot be read), and then nothing is replayed to a subscriber.           *)
ListenResumeFails(c) ==
    /\ cmds # <<>> /\ Head(cmds) = <<"resume", c>> /\ cmds' = Tail(cmds)
    /\ subscribed' \in {subscribed, subscribed \cup {c}}
    /\ UNCHANGED <<core, ops, events, callbacks, response, result, joined, clients>>

-----------------------------------------------------------------------------
(* Clients and response tasks.                                              *)

(* An operation of a client's own: turn/start, turn/interrupt.              *)
Submit(op) ==
    /\ inputs < MaxInputs /\ inputs' = inputs + 1
    /\ ops' = Append(ops, op)
    /\ UNCHANGED <<core, events, cmds, server, inbox, moves>>

(* notify_client_response: only the first answer finds the callback.  An    *)
(* error or an unreadable answer counts as a refusal.                       *)
Answer(c, r, d) ==
    /\ r \in inbox[c]
    /\ inbox' = [inbox EXCEPT ![c] = @ \ {r}]
    /\ callbacks' = callbacks \ {r}
    /\ response' = IF r \in callbacks THEN [response EXCEPT ![r] = "answered"] ELSE response
    /\ result' = IF r \in callbacks THEN [result EXCEPT ![r] = d] ELSE result
    /\ UNCHANGED <<core, ops, events, cmds, subscribed, joined, inputs, moves>>

(* A connection is closed; what it had not answered stays pending.  A resume *)
(* of it that is still queued would be skipped: ListenResumeFails comes first. *)
CloseConnection(c) ==
    /\ c \in subscribed \/ inbox[c] # {}
    /\ \A i \in DOMAIN cmds : cmds[i] # <<"resume", c>>
    /\ subscribed' = subscribed \ {c} /\ joined' = joined \ {c}
    /\ inbox' = [inbox EXCEPT ![c] = {}]
    /\ UNCHANGED <<core, ops, events, cmds, callbacks, response, result, inputs, moves>>

(* thread/unsubscribe: the client keeps what it was asked and may answer.   *)
Unsubscribe(c) ==
    /\ c \in subscribed /\ moves < MaxMoves
    /\ moves' = moves + 1
    /\ subscribed' = subscribed \ {c} /\ joined' = joined \ {c}
    /\ UNCHANGED <<core, ops, events, cmds, callbacks, response, result, inbox, inputs>>

(* ensure_conversation_listener, by a thread/realtime call or when a thread *)
(* is announced: the connection is subscribed beside the listener, and      *)
(* nothing is replayed to it.                                               *)
Attach(c) ==
    /\ c \notin subscribed /\ moves < MaxMoves
    /\ moves' = moves + 1
    /\ subscribed' = subscribed \cup {c}
    /\ UNCHANGED <<core, ops, events, cmds, callbacks, response, result, joined, inbox, inputs>>

RequestResume(c) ==
    /\ c \notin joined /\ moves < MaxMoves
    /\ \A i \in DOMAIN cmds : cmds[i] # <<"resume", c>>
    /\ moves' = moves + 1
    /\ cmds' = Append(cmds, <<"resume", c>>)
    /\ UNCHANGED <<core, ops, events, server, inbox, inputs>>

(* resolve_server_request_on_thread_listener                                *)
SendResolve(r) ==
    /\ response[r] = "answered"
    /\ response' = [response EXCEPT ![r] = "resolving"]
    /\ cmds' = Append(cmds, <<"resolve", r>>)
    /\ UNCHANGED <<core, ops, events, callbacks, result, subscribed, joined, clients>>

(* Mutant of SubmitDecision: a withdrawn request is decided, too.          *)
SubmitAlways(r) ==
    /\ response[r] = "resolved"
    /\ response' = [response EXCEPT ![r] = "done"]
    /\ ops' = Append(ops, <<"answer", r>>)
    /\ UNCHANGED <<core, events, cmds, callbacks, result, subscribed, joined, clients>>

(* Mutant of SubmitDecision: only an acceptance is passed on.              *)
SubmitAccepted(r) ==
    /\ response[r] = "resolved"
    /\ response' = [response EXCEPT ![r] = "done"]
    /\ ops' = IF result[r] = "accept" THEN Append(ops, <<"answer", r>>) ELSE ops
    /\ UNCHANGED <<core, events, cmds, callbacks, result, subscribed, joined, clients>>

(* on_command_execution_request_approval_response: a request that was       *)
(* withdrawn with its turn needs no decision, any other is submitted.       *)
SubmitDecision(r) ==
    /\ response[r] = "resolved"
    /\ response' = [response EXCEPT ![r] = "done"]
    /\ ops' = IF result[r] = "transition" THEN ops ELSE Append(ops, <<"answer", r>>)
    /\ UNCHANGED <<core, events, cmds, callbacks, result, subscribed, joined, clients>>

-----------------------------------------------------------------------------
Finishing(t) == FinishTake(t) \/ FinishSend(t) \/ FinishClear(t)

Loop == TakeInput \/ TakeInterrupt \/ AbortSends \/ AbortClears \/ \E r \in Asks : TakeAnswer(r)

Listener ==
    \/ \E r \in Asks : ListenRequest(r) \/ ListenResolve(r)
    \/ \E t \in Turns : ListenTurn(t)
    \/ \E c \in Conns : ListenResume(c) \/ ListenResumeFails(c)

Respond(r) == SendResolve(r) \/ SubmitDecision(r)

Next ==
    \/ \E t \in Turns, r \in Asks : Ask(t, r)
    \/ \E r \in Asks : SendAsk(r)
    \/ \E t \in Turns : Finishing(t)
    \/ Loop \/ Listener
    \/ \E r \in Asks : Respond(r)
    \/ Submit(<<"input">>) \/ Submit(<<"interrupt">>)
    \/ \E c \in Conns : \/ CloseConnection(c) \/ Unsubscribe(c)
                        \/ RequestResume(c) \/ Attach(c)
    \/ \E c \in Conns, r \in Asks, d \in Decisions : Answer(c, r, d)

Spec == Init /\ [][Next]_vars

(* The loop, the listener and the response tasks go on, the listener takes  *)
(* both events and commands, and a client that has joined the thread        *)
(* answers what it is asked.                                                *)
FairSpec ==
    /\ Spec
    /\ WF_vars(Loop)
    /\ WF_vars(\E r \in Asks : ListenRequest(r) \/ \E t \in Turns : ListenTurn(t))
    /\ WF_vars(\/ \E r \in Asks : ListenResolve(r)
               \/ \E c \in Conns : ListenResume(c) \/ ListenResumeFails(c))
    /\ \A r \in Asks : WF_vars(Respond(r))
    /\ \A c \in Conns, r \in Asks : WF_vars(c \in joined /\ \E d \in Decisions : Answer(c, r, d))

-----------------------------------------------------------------------------
(* A tool call gets the decision a client made about this very request, and *)
(* runs only if a client accepted it: not by another request's answer, a    *)
(* late one, or one that was withdrawn.                                     *)
DecidedByClient ==
    \A r \in Asks :
        /\ wait[r] = "approved" => result[r] = "accept"
        /\ wait[r] = "denied" => result[r] = "decline"

(* The approval of a turn that is not cancelled is never aborted: a tool    *)
(* call does not report a rejection to a model that goes on (abort_all_tasks*)
(* drops the senders only after the task has seen its cancellation).        *)
AbortedOnlyWithTurn ==
    \A r \in Asks : wait[r] = "abort" => phase[owner[r]] \in {"cancelled", "aborted", "over"}

(* Every client whose thread/start or thread/resume was answered and that   *)
(* did not leave since has every pending request, also one that was sent    *)
(* before it came, while events and answers come in.  (A subscriber that    *)
(* only attached, or whose resume failed behind the subscription, need not.) *)
EveryJoinedAsked == \A c \in joined : callbacks \subseteq inbox[c]

(* A tool call does not wait for ever while there is someone who was asked: *)
(* its wait ends, unless all clients that joined leave or the request is    *)
(* withdrawn.                                                               *)
EveryAskEnds ==
    \A r \in Asks :
        wait[r] = "waiting" ~> \/ wait[r] # "waiting"
                               \/ joined = {}
                               \/ result[r] = "transition"

(* A request is withdrawn only when the turn it is bound to is over: the    *)
(* tool call of a running turn is never left waiting for an answer that     *)
(* nobody can give any more.                                                *)
WithdrawnWithItsTurn ==
    \A r \in Asks : wait[r] = "waiting" /\ phase[owner[r]] = "running" => result[r] # "transition"
=============================================================================
