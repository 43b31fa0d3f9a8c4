----------------------------- MODULE ExecRecovery -----------------------------
(***************************************************************************)
(* A process of an exec server and the client session that follows it over  *)
(* connections that break.                                                  *)
(*                                                                         *)
(* Server (local_process.rs, session_registry.rs): two stream tasks and an  *)
(* exit watcher give the events of the process their sequence numbers under *)
(* one lock and send each as a notification after releasing it; output is   *)
(* retained up to a limit for reads by sequence number.  A broken           *)
(* connection is detached when the server notices it, and a session that    *)
(* stays detached expires with its processes.                               *)
(*                                                                         *)
(* Client (client.rs, client_recovery.rs): notifications are put in order   *)
(* and published to the consumer; after a disconnect the client reconnects, *)
(* resumes the session, reads what it missed and fills the gaps, while      *)
(* notifications of the new connection already come in.                     *)
(*                                                                         *)
(* One process is modelled; the sessions of a client share only the         *)
(* connection.  "The link" is the connection the client uses at the moment, *)
(* the current one or, during a recovery, the candidate: those before it    *)
(* are dropped together with what they still had queued.                    *)
(***************************************************************************)
EXTENDS Naturals, Sequences, FiniteSets

CONSTANTS
    MaxOutput,   \* bound on the output events of the process
    Retained,    \* RETAINED_OUTPUT_CHUNKS_PER_PROCESS (and its bytes)
    MaxPending,  \* MAX_PENDING_PROCESS_EVENTS (and its bytes)
    Writes       \* whether the consumer writes to the process

ASSUME RecoveryAssumption ==
    MaxOutput \in Nat /\ Retained \in Nat /\ MaxPending \in Nat /\ Writes \in BOOLEAN

VARIABLES
    \* server
    proc,        \* the entry of the process table
    log,         \* the events so far: event i has sequence number i
    retained,    \* sequence numbers of the retained output
    task,        \* where the tasks of the process are
    held,        \* the event a task has numbered and not yet sent, or 0
    killed,      \* the process was told to terminate
    attached,    \* which connection the session is attached to
    expired,     \* the session is gone from the registry
    exec,        \* the exec request, on the server and back
    \* connection
    link,        \* "up" or "down"
    wire,        \* notifications received or under way on the link
    \* client
    status,      \* ConnectionStatus
    rec,         \* where the recovery task is
    start,       \* where start_process is
    cleanup,     \* a cleanup_process_start task is at work
    session,     \* the entry of the session table
    published,   \* the events given to the consumer
    pending,     \* sequence numbers waiting for earlier ones
    failure,     \* the consumer was told that the stream failed
    response,    \* the answer to a recovery's process/read
    \* stdin
    pipe,        \* the process has a stdin: tty or pipe_stdin
    write,       \* where Session::write is, for one write id
    wreq,        \* the process/write request, on the server and back
    remembered,  \* the write id is among the accepted ones
    stdin        \* how often the chunk was handed to the process

processVars == <<proc, log, retained, task, held, killed>>
serverVars == <<attached, expired, exec>>
linkVars == <<link, wire>>
eventVars == <<published, pending, failure, session>>
clientVars == <<status, rec, start, cleanup, response>>
writeVars == <<pipe, write, wreq, remembered, stdin>>
vars == <<processVars, serverVars, linkVars, eventVars, clientVars, writeVars>>

Streams == {"stdout", "stderr"}
Tasks == Streams \cup {"watcher"}
Kinds == {"out", "exit", "closed"}

Has(s, kind) == \E i \in DOMAIN s : s[i] = kind

\* No answer, or the answer that the process is unknown.
NoResponse == [known |-> FALSE, chunks |-> {}, last |-> 0, exited |-> FALSE, closed |-> FALSE]

Init ==
    /\ proc = "none" /\ log = <<>> /\ retained = {} /\ killed = FALSE
    /\ task = [t \in Tasks |-> "run"] /\ held = [t \in Tasks |-> 0]
    /\ attached = "link" /\ expired = FALSE /\ exec = "none"
    /\ link = "up" /\ wire = <<>>
    /\ status = "connected" /\ rec = "none" /\ start = "idle" /\ cleanup = FALSE
    /\ session = "none" /\ published = <<>> /\ pending = {} /\ failure = FALSE
    /\ response = NoResponse
    /\ pipe \in {FALSE, Writes} /\ write = "idle" /\ wreq = "none" /\ remembered = FALSE /\ stdin = 0

-----------------------------------------------------------------------------
(* The process on the server.                                              *)

\* exec: the entry is reserved as Starting while the process is spawned, and
\* becomes Running only if it still is.  Requests of a connection are handled
\* one after the other, and dropped when it is detached.
ExecReserve ==
    /\ exec = "asked" /\ attached # "none" /\ proc = "none"
    /\ proc' = "starting"
    /\ UNCHANGED <<log, retained, task, held, killed, serverVars, linkVars, eventVars, clientVars, writeVars>>

ExecSpawn ==
    /\ exec = "asked" /\ attached # "none" /\ proc = "starting"
    /\ \/ proc' = "running" /\ exec' = "answered"
       \/ proc' = "none" /\ exec' = "refused"
    /\ UNCHANGED <<log, retained, task, held, killed, attached, expired, linkVars, eventVars, clientVars, writeVars>>

\* A task gives an event the next sequence number, and holds it for sending.
Number(t, kind) ==
    /\ log' = Append(log, kind)
    /\ held' = [held EXCEPT ![t] = Len(log) + 1]

\* The newest chunks that stay within the limit.
Newest(chunks) == {i \in chunks : Cardinality({j \in chunks : j > i}) < Retained}

StreamOutput(s) ==
    /\ proc = "running" /\ task[s] = "run" /\ held[s] = 0
    /\ Cardinality({i \in DOMAIN log : log[i] = "out"}) < MaxOutput
    /\ Number(s, "out")
    /\ retained' = Newest(retained \cup {Len(log) + 1})
    /\ UNCHANGED <<proc, task, killed, serverVars, linkVars, eventVars, clientVars, writeVars>>

\* The pipe is at its end: one stream less is open.
FinishOutputStream(s) ==
    /\ proc = "running" /\ task[s] = "run" /\ held[s] = 0
    /\ task' = [task EXCEPT ![s] = "check"]
    /\ UNCHANGED <<proc, log, retained, held, killed, serverVars, linkVars, eventVars, clientVars, writeVars>>

WatchExit ==
    /\ proc = "running" /\ task["watcher"] = "run"
    /\ Number("watcher", "exit")
    /\ task' = [task EXCEPT !["watcher"] = "check"]
    /\ UNCHANGED <<proc, retained, killed, serverVars, linkVars, eventVars, clientVars, writeVars>>

\* notification_sender is read after the lock: the notification goes to the
\* connection attached by then, and is lost if there is none or it is broken.
SendNotification(t) ==
    /\ held[t] # 0
    /\ held' = [held EXCEPT ![t] = 0]
    /\ wire' = IF attached = "link" /\ link = "up" THEN Append(wire, held[t]) ELSE wire
    /\ UNCHANGED <<proc, log, retained, task, killed, serverVars, link, eventVars, clientVars, writeVars>>

MaybeEmitClosed(t) ==
    /\ proc = "running" /\ task[t] = "check" /\ held[t] = 0
    /\ task' = [task EXCEPT ![t] = "done"]
    /\ IF ~Has(log, "closed") /\ Has(log, "exit") /\ \A s \in Streams : task[s] # "run"
       THEN Number(t, "closed")
       ELSE UNCHANGED <<log, held>>
    /\ UNCHANGED <<proc, retained, killed, serverVars, linkVars, eventVars, clientVars, writeVars>>

\* A closed process is forgotten after EXITED_PROCESS_RETENTION.
Forget ==
    /\ proc = "running" /\ Has(log, "closed")
    /\ proc' = "gone"
    /\ UNCHANGED <<log, retained, task, held, killed, serverVars, linkVars, eventVars, clientVars, writeVars>>

\* terminate: a running process is told to end, a start under way is cancelled.
Terminate ==
    /\ killed' = (killed \/ (proc = "running" /\ ~Has(log, "exit")))
    /\ proc' = IF proc = "starting" THEN "none" ELSE proc
    /\ UNCHANGED <<log, retained, task, held>>

-----------------------------------------------------------------------------
(* The connection.                                                         *)

\* The link breaks; of the notifications under way the client has received some.
Disconnect ==
    /\ link = "up"
    /\ link' = "down"
    /\ \E n \in 0 .. Len(wire) : wire' = SubSeq(wire, 1, n)
    /\ UNCHANGED <<processVars, serverVars, eventVars, clientVars, writeVars>>

\* The server notices: the request being handled is dropped, and the
\* session has no notification sender.
Detach ==
    /\ \/ attached = "link" /\ link = "down"
       \/ attached = "earlier"
    /\ attached' = "none"
    /\ exec' = IF exec = "asked" THEN "none" ELSE exec
    /\ wreq' = IF wreq \in {"asked", "reserving"} THEN "none" ELSE wreq
    /\ UNCHANGED <<processVars, expired, linkVars, eventVars, clientVars, pipe, write, remembered, stdin>>

\* DETACHED_SESSION_TTL has passed: the session and its processes are dropped.
ExpireIfDetached ==
    /\ attached = "none" /\ ~expired
    /\ expired' = TRUE
    /\ proc' = "gone"
    /\ UNCHANGED <<log, retained, task, held, killed, attached, exec, linkVars, eventVars, clientVars, writeVars>>

-----------------------------------------------------------------------------
(* Ordered publishing on the client.                                       *)

InTable == session \in {"starting", "live"}

ClosedPublished == Has(published, "closed")

\* publish_ready: everything up to n, the last event before the first gap
\* among the known events; the events in exits are published as an exit.
PublishReady(known, exits) ==
    \E n \in Len(published) .. Len(log) :
        /\ (Len(published) + 1) .. n \subseteq known
        /\ n + 1 \notin known
        /\ published' = [i \in 1 .. n |-> IF i <= Len(published) THEN published[i]
                                          ELSE IF i \in exits THEN "exit" ELSE log[i]]
        /\ pending' = {i \in known : i > n}

\* Mutant of SetFailure: a stream that is complete is failed all the same.
SetFailureAlways ==
    /\ failure' = TRUE
    /\ pending' = {}
    /\ published' = published
    /\ session' = "removed"

\* set_failure, after the session has left the table.
SetFailure ==
    /\ failure' = (failure \/ ~ClosedPublished)
    /\ pending' = IF failure \/ ClosedPublished THEN pending ELSE {}
    /\ published' = published
    /\ session' = "removed"

\* The session leaves the table when its closed event is published.
RouteUntilClosed == session' = IF Has(published', "closed") THEN "removed" ELSE session

\* insert_pending refuses an event that closes no gap when the buffer is full.
Overflows(seq) ==
    /\ seq \notin pending
    /\ seq # Len(published) + 1
    /\ Cardinality(pending) >= MaxPending

\* handle_server_notification and publish_ordered_event.
HandleNotification ==
    /\ wire # <<>>
    /\ wire' = Tail(wire)
    /\ LET seq == Head(wire)
           ignored == ~InTable \/ failure \/ ClosedPublished \/ seq <= Len(published) IN
       \/ ignored /\ UNCHANGED eventVars
       \/ ~ignored /\ Overflows(seq) /\ SetFailure
       \/ /\ ~ignored /\ ~Overflows(seq)
          /\ PublishReady(pending \cup {seq}, {})
          /\ RouteUntilClosed
          /\ failure' = failure
    /\ UNCHANGED <<processVars, serverVars, link, clientVars, writeVars>>

-----------------------------------------------------------------------------
(* start_process.                                                          *)

Begun == start \in {"begun", "calling"}

BeginProcessStart ==
    /\ start = "idle" /\ status = "connected" /\ link = "up"
    /\ start' = "begun"
    /\ UNCHANGED <<processVars, serverVars, linkVars, eventVars, status, rec, cleanup, response, writeVars>>

\* Mutant of InsertSession: the client's failure is not looked at.
InsertSessionUnchecked ==
    /\ start = "begun"
    /\ start' = "calling"
    /\ session' = "starting"
    /\ exec' = IF link = "up" THEN "asked" ELSE exec
    /\ UNCHANGED <<processVars, attached, expired, linkVars, published, pending, failure, status, rec, cleanup, response, writeVars>>

\* insert_session refuses a failed client; the request goes out on the
\* connection chosen before, unless that is broken by now.
InsertSession ==
    /\ start = "begun"
    /\ IF status = "failed"
       THEN start' = "done" /\ UNCHANGED <<session, exec>>
       ELSE /\ start' = "calling"
            /\ session' = "starting"
            /\ exec' = IF link = "up" THEN "asked" ELSE exec
    /\ UNCHANGED <<processVars, attached, expired, linkVars, published, pending, failure, status, rec, cleanup, response, writeVars>>

\* The answer makes the session recoverable and is handed to the caller; if
\* the caller has gone, the session is removed and the process cleaned up.
StartAnswered ==
    /\ start = "calling" /\ exec = "answered"
    /\ start' = "done"
    /\ \/ /\ session' = IF session = "starting" THEN "live" ELSE session
          /\ UNCHANGED cleanup
       \/ /\ session' = "removed"
          /\ cleanup' = TRUE
    /\ UNCHANGED <<processVars, serverVars, linkVars, published, pending, failure, status, rec, response, writeVars>>

StartRefused ==
    /\ start = "calling" /\ exec = "refused"
    /\ start' = "done"
    /\ session' = "removed"
    /\ UNCHANGED <<processVars, serverVars, linkVars, published, pending, failure, status, rec, cleanup, response, writeVars>>

\* Mutant of StartLost: the start is given up without a clean-up.
StartLostOnly ==
    /\ start = "calling" /\ link = "down"
    /\ start' = "done"
    /\ session' = "removed"
    /\ UNCHANGED <<processVars, serverVars, linkVars, published, pending, failure, status, rec, cleanup, response, writeVars>>

\* The connection closed before an answer came: whether the process was
\* started is unknown, so it is cleaned up.
StartLost ==
    /\ start = "calling" /\ link = "down"
    /\ start' = "done"
    /\ session' = "removed"
    /\ cleanup' = TRUE
    /\ UNCHANGED <<processVars, serverVars, linkVars, published, pending, failure, status, rec, response, writeVars>>

\* cleanup_process_start: terminate, again after every recovery, until it is
\* answered or the client has failed.
CleanupTerminate ==
    /\ cleanup /\ status = "connected" /\ link = "up" /\ attached = "link"
    /\ cleanup' = FALSE
    /\ Terminate
    /\ UNCHANGED <<serverVars, linkVars, eventVars, status, rec, start, response, writeVars>>

CleanupGivesUp ==
    /\ cleanup /\ status = "failed"
    /\ cleanup' = FALSE
    /\ UNCHANGED <<processVars, serverVars, linkVars, eventVars, status, rec, start, response, writeVars>>

-----------------------------------------------------------------------------
(* Recovery.                                                               *)

\* The reader of the current connection meets the disconnect after all the
\* notifications before it.
RequestRecovery ==
    /\ status = "connected" /\ link = "down" /\ wire = <<>>
    /\ status' = "recovering"
    /\ rec' = "starts"
    /\ UNCHANGED <<processVars, serverVars, linkVars, eventVars, start, cleanup, response, writeVars>>

\* Mutant of WaitForProcessStarts: the starts under way are not waited for.
WaitForNothing ==
    /\ rec = "starts"
    /\ rec' = "resume"
    /\ UNCHANGED <<processVars, serverVars, linkVars, eventVars, status, start, cleanup, response, writeVars>>

\* Starts under way end first, so that their sessions are recoverable or gone.
WaitForProcessStarts ==
    /\ rec = "starts" /\ ~Begun
    /\ rec' = "resume"
    /\ UNCHANGED <<processVars, serverVars, linkVars, eventVars, status, start, cleanup, response, writeVars>>

\* resume_once opens a candidate connection.
Reconnect ==
    /\ rec = "resume"
    /\ rec' = "attach"
    /\ link' = "up" /\ wire' = <<>>
    /\ attached' = IF attached = "link" THEN "earlier" ELSE attached
    /\ UNCHANGED <<processVars, expired, exec, eventVars, status, start, cleanup, response, writeVars>>

\* fail: the status first, the sessions in a step of their own.
Fail ==
    /\ status' = "failed"
    /\ rec' = "failing"
    /\ link' = "down" /\ wire' = <<>>

\* initialize with the session id.
Attach ==
    /\ rec = "attach" /\ link = "up"
    /\ \/ /\ ~expired /\ attached = "none"
          /\ attached' = "link"
          /\ rec' = "read"
          /\ UNCHANGED <<status, linkVars>>
       \/ /\ ~expired /\ attached # "none"          \* already attached: retry
          /\ rec' = "resume"
          /\ link' = "down" /\ wire' = <<>>
          /\ UNCHANGED <<status, attached>>
       \/ /\ expired
          /\ Fail
          /\ UNCHANGED attached
    /\ UNCHANGED <<processVars, expired, exec, eventVars, start, cleanup, response, writeVars>>

\* A candidate that breaks is dropped, with what it had received.
Retry ==
    /\ rec \in {"attach", "read", "apply", "terminate", "install"} /\ link = "down"
    /\ rec' = "resume"
    /\ wire' = <<>>
    /\ response' = NoResponse
    /\ UNCHANGED <<processVars, serverVars, link, eventVars, status, start, cleanup, writeVars>>

\* exec_read of everything after the last published event, for a session in
\* the table that is recoverable.
ReadProcess ==
    /\ rec = "read" /\ link = "up" /\ attached = "link"
    /\ IF session = "live"
       THEN /\ rec' = "apply"
            /\ response' = IF proc = "running"
                           THEN [known |-> TRUE,
                                 chunks |-> {i \in retained : i > Len(published)},
                                 last |-> Len(log),
                                 exited |-> Has(log, "exit"),
                                 closed |-> Has(log, "closed")]
                           ELSE NoResponse
       ELSE rec' = "install" /\ UNCHANGED response
    /\ UNCHANGED <<processVars, serverVars, linkVars, eventVars, status, start, cleanup, writeVars>>

\* recover_events, for an answer r through sequence number r.last.  Exits
\* are not retained and the closed event is the last one, so the events that
\* are missing are an exit the client has not heard of, and evicted output.
Missing(r) ==
    ((Len(published) + 1) .. r.last)
        \ (pending \cup r.chunks \cup (IF r.closed THEN {r.last} ELSE {}))

ExitSought(r) ==
    /\ r.exited
    /\ ~Has(published, "exit")
    /\ ~\E i \in pending : i <= r.last /\ log[i] = "exit"

\* The exit sought is put into the first gap as soon as output behind it is
\* met; without such output it is put into the only gap.
ExitBeforeChunk(r) ==
    {i \in Missing(r) : /\ ExitSought(r)
                        /\ \A j \in Missing(r) : i <= j
                        /\ \E c \in r.chunks : c > i}
Gaps(r) == Missing(r) \ ExitBeforeChunk(r)
ExitInGap(r) ==
    IF ExitSought(r) /\ ExitBeforeChunk(r) = {} /\ Cardinality(Gaps(r)) = 1 THEN Gaps(r) ELSE {}

\* The chunks behind a gap go to the reorder buffer one by one, as far as it
\* takes them; then the closed event.
BehindGap(events, r) == {i \in events : \E j \in Gaps(r) : j < i}
Late(r) == BehindGap(r.chunks \ pending, r)
Waiting(r) == BehindGap(pending, r)
Fits(r) ==
    {i \in Late(r) : Cardinality(Waiting(r)) + Cardinality({j \in Late(r) : j <= i}) <= MaxPending}
ClosedFits(r) ==
    r.last \in pending \/ Gaps(r) = {} \/ Cardinality(Waiting(r) \cup Fits(r)) < MaxPending

ChunksInserted(r) == Fits(r) = Late(r)
RecoveredClosed(r) == IF r.closed /\ ChunksInserted(r) /\ ClosedFits(r) THEN {r.last} ELSE {}
RecoverySucceeds(r) ==
    /\ ChunksInserted(r)
    /\ r.closed => ClosedFits(r)
    /\ Gaps(r) = ExitInGap(r)
    /\ ExitSought(r) => ExitBeforeChunk(r) \cup ExitInGap(r) # {}

\* What is known afterwards: all through r.last, or on an error what was
\* inserted before it.
Recovered(r) ==
    pending \cup (r.chunks \ Late(r)) \cup Fits(r) \cup RecoveredClosed(r) \cup ExitBeforeChunk(r)
        \cup (IF RecoverySucceeds(r) THEN ExitInGap(r) ELSE {})

RecoverEvents ==
    /\ rec = "apply"
    /\ LET r == response
           stale == failure \/ ClosedPublished \/ r.last <= Len(published) IN
       \/ ~r.known /\ rec' = "terminate" /\ UNCHANGED eventVars
       \/ r.known /\ stale /\ rec' = "install" /\ UNCHANGED eventVars
       \/ /\ r.known /\ ~stale
          /\ PublishReady(Recovered(r), ExitBeforeChunk(r) \cup ExitInGap(r))
          /\ RouteUntilClosed
          /\ failure' = failure
          /\ rec' = IF RecoverySucceeds(r) THEN "install" ELSE "terminate"
    /\ response' = NoResponse
    /\ UNCHANGED <<processVars, serverVars, linkVars, status, start, cleanup, writeVars>>

\* A process that cannot be recovered is terminated and its session failed;
\* notifications of the new connection may come between the two.
GiveUpProcess ==
    /\ rec = "terminate" /\ link = "up" /\ attached = "link"
    /\ rec' = "install"
    /\ Terminate
    /\ SetFailure
    /\ UNCHANGED <<serverVars, linkVars, status, start, cleanup, response, writeVars>>

InstallRecoveredClient ==
    /\ rec = "install" /\ link = "up"
    /\ status' = "connected"
    /\ rec' = "none"
    /\ UNCHANGED <<processVars, serverVars, linkVars, eventVars, start, cleanup, response, writeVars>>

\* SESSION_RECOVERY_TIMEOUT, at any point of the recovery.
RecoveryTimesOut ==
    /\ status = "recovering"
    /\ Fail
    /\ response' = NoResponse
    /\ UNCHANGED <<processVars, serverVars, eventVars, start, cleanup, writeVars>>

FailAllSessions ==
    /\ rec = "failing"
    /\ rec' = "none"
    /\ IF InTable THEN SetFailure ELSE UNCHANGED eventVars
    /\ UNCHANGED <<processVars, serverVars, linkVars, status, start, cleanup, response, writeVars>>

-----------------------------------------------------------------------------
(* Stdin: Session::write and exec_write, for one write id.                 *)

\* The request goes out on a connection that works, the first time or again.
SendWrite ==
    /\ write = "idle" => Writes /\ session = "live"
    /\ write \in {"idle", "again"} /\ status = "connected" /\ link = "up" /\ attached = "link"
    /\ write' = "calling"
    /\ wreq' = "asked"
    /\ UNCHANGED <<processVars, serverVars, linkVars, eventVars, clientVars, pipe, remembered, stdin>>

\* Refused are a process that is unknown, still starting or without stdin; a
\* remembered id is accepted at once.  Otherwise the handler waits for room in
\* the channel to the process.
WriteLooksUp ==
    /\ wreq = "asked" /\ attached # "none"
    /\ wreq' = IF proc # "running" \/ ~pipe THEN "refused"
               ELSE IF remembered THEN "accepted" ELSE "reserving"
    /\ UNCHANGED <<processVars, serverVars, linkVars, eventVars, clientVars, pipe, write, remembered, stdin>>

\* Mutant of WriteAccepts: the id is not remembered.
WriteAcceptsForgetful ==
    /\ wreq = "reserving" /\ attached # "none"
    /\ wreq' = "accepted"
    /\ stdin' = stdin + 1
    /\ UNCHANGED <<processVars, serverVars, linkVars, eventVars, clientVars, pipe, write, remembered>>

\* Handing over the chunk and remembering the id are one step, after the wait.
WriteAccepts ==
    /\ wreq = "reserving" /\ attached # "none"
    /\ wreq' = "accepted"
    /\ stdin' = IF remembered THEN stdin ELSE stdin + 1
    /\ remembered' = TRUE
    /\ UNCHANGED <<processVars, serverVars, linkVars, eventVars, clientVars, pipe, write>>

\* The task that reads the channel is gone: aborted by a terminate, dropped with
\* the process or ended with it.  The wait fails, and nothing is handed over.
WriteReserveFails ==
    /\ wreq = "reserving" /\ attached # "none"
    /\ killed \/ Has(log, "exit") \/ proc = "gone"
    /\ wreq' = "refused"
    /\ UNCHANGED <<processVars, serverVars, linkVars, eventVars, clientVars, pipe, write, remembered, stdin>>

WriteReturns ==
    /\ write = "calling" /\ wreq \in {"accepted", "refused"}
    /\ write' = wreq
    /\ UNCHANGED <<processVars, serverVars, linkVars, eventVars, clientVars, pipe, wreq, remembered, stdin>>

\* The connection closed before the answer came: again with the same id,
\* unless the client has failed.
WriteLost ==
    /\ write = "calling" /\ (link = "down" \/ wreq = "none")
    /\ write' = IF status = "failed" THEN "failed" ELSE "again"
    /\ UNCHANGED <<processVars, serverVars, linkVars, eventVars, clientVars, pipe, wreq, remembered, stdin>>

WriteFails ==
    /\ write = "again" /\ status = "failed"
    /\ write' = "failed"
    /\ UNCHANGED <<processVars, serverVars, linkVars, eventVars, clientVars, pipe, wreq, remembered, stdin>>
-----------------------------------------------------------------------------

ServerStep ==
    \/ ExecReserve \/ ExecSpawn \/ WatchExit \/ Forget
    \/ \E s \in Streams : StreamOutput(s) \/ FinishOutputStream(s)
    \/ \E t \in Tasks : SendNotification(t) \/ MaybeEmitClosed(t)
    \/ Detach \/ ExpireIfDetached

ClientStep ==
    \/ HandleNotification
    \/ BeginProcessStart \/ InsertSession \/ StartAnswered \/ StartRefused \/ StartLost
    \/ CleanupTerminate \/ CleanupGivesUp
    \/ RequestRecovery \/ WaitForProcessStarts \/ Reconnect \/ Attach \/ Retry
    \/ ReadProcess \/ RecoverEvents \/ GiveUpProcess \/ InstallRecoveredClient
    \/ RecoveryTimesOut \/ FailAllSessions

WriteStep ==
    \/ SendWrite \/ WriteLooksUp \/ WriteAccepts \/ WriteReserveFails \/ WriteReturns \/ WriteLost \/ WriteFails

Next == ServerStep \/ ClientStep \/ WriteStep \/ Disconnect

Spec == Init /\ [][Next]_vars

\* Every task of the server and of the client goes on, and timers run out.
\* A process need not exit unless it is terminated, a pipe need not end
\* before the exit, and connections may break again and again; a terminate
\* is only assumed to get through if the client is connected again and again.
Fairness ==
    /\ WF_vars(ExecReserve) /\ WF_vars(ExecSpawn)
    /\ WF_vars(killed /\ WatchExit)
    /\ \A s \in Streams : WF_vars(Has(log, "exit") /\ FinishOutputStream(s))
    /\ \A t \in Tasks : WF_vars(SendNotification(t)) /\ WF_vars(MaybeEmitClosed(t))
    /\ WF_vars(Detach) /\ WF_vars(ExpireIfDetached)
    /\ WF_vars(HandleNotification)
    /\ WF_vars(InsertSession)
    /\ WF_vars(StartAnswered) /\ WF_vars(StartRefused) /\ WF_vars(StartLost)
    /\ SF_vars(CleanupTerminate) /\ WF_vars(CleanupGivesUp)
    /\ WF_vars(RequestRecovery) /\ WF_vars(RecoveryTimesOut) /\ WF_vars(FailAllSessions)

FairSpec == Spec /\ Fairness

-----------------------------------------------------------------------------
(* Properties.                                                             *)

TypeOK ==
    /\ proc \in {"none", "starting", "running", "gone"}
    /\ log \in Seq(Kinds)
    /\ retained \subseteq DOMAIN log
    /\ task \in [Tasks -> {"run", "check", "done"}]
    /\ held \in [Tasks -> Nat]
    /\ killed \in BOOLEAN /\ expired \in BOOLEAN /\ cleanup \in BOOLEAN
    /\ attached \in {"link", "earlier", "none"}
    /\ exec \in {"none", "asked", "answered", "refused"}
    /\ link \in {"up", "down"}
    /\ wire \in Seq(DOMAIN log)
    /\ status \in {"connected", "recovering", "failed"}
    /\ rec \in {"none", "starts", "resume", "attach", "read", "apply", "terminate", "install", "failing"}
    /\ start \in {"idle", "begun", "calling", "done"}
    /\ session \in {"none", "starting", "live", "removed"}
    /\ published \in Seq(Kinds)
    /\ pending \subseteq DOMAIN log
    /\ failure \in BOOLEAN
    /\ response \in [known : BOOLEAN, chunks : SUBSET DOMAIN log, last : Nat,
                     exited : BOOLEAN, closed : BOOLEAN]
    /\ write \in {"idle", "calling", "again", "accepted", "refused", "failed"}
    /\ wreq \in {"none", "asked", "reserving", "accepted", "refused"}
    /\ pipe \in BOOLEAN /\ remembered \in BOOLEAN
    /\ stdin \in Nat

\* publish_ordered_event: "Publishes a process event only when all earlier
\* sequenced events have already been published."  Once the closed event is
\* published, the consumer has got every event of the process.
ClosedIsComplete == ClosedPublished => published = log

\* The promise of the whole: an ordered stream that is complete or failed.
Stream == INSTANCE ProcessStream WITH seen <- published, failed <- failure
StreamPromise == Stream!Spec

\* insert_session: "Do not register a process session that can never receive
\* environment notifications."  A failed client keeps no session once its
\* sessions have been failed.
NoDeadSession == status = "failed" /\ rec # "failing" => ~InTable

\* AcceptedStdinWriteIds: a write that is repeated after a reconnect is handed
\* to the process at most once, and one that is answered as accepted was.
WrittenOnce ==
    /\ stdin <= 1
    /\ write = "accepted" => stdin = 1

\* A consumer that follows a process that has exited is told its end, closed
\* or failed, however often the connection breaks.
SessionSettles == session = "live" /\ Has(log, "exit") ~> ClosedPublished \/ failure

\* A process whose session is dropped without telling the consumer (its
\* start was lost or abandoned, or it is closed) does not go on running.
OrphanEnds == session = "removed" /\ ~failure ~> proc # "running" \/ Has(log, "exit")
=============================================================================
