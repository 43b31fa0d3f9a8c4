------------------------- MODULE ExecRecoveryProofs -------------------------
(***************************************************************************)
(* Proofs about ExecRecovery, for every bound on output, retention and      *)
(* reordering.                                                              *)
(*                                                                         *)
(* Numbers, Controls and Flags are inductive together and give TypeOK.      *)
(*                                                                         *)
(* Safe is inductive: where the recovery is agrees with the connection      *)
(* status, a failed client has no session, and an answer of the server      *)
(* tells something of the process and of the write.  From it follow         *)
(* NoDeadSession and WrittenOnce.                                           *)
(*                                                                         *)
(* StreamInv is inductive while the retained output is enough for all the   *)
(* output of the process: the log is ordered, all its output is kept, the   *)
(* consumer has a prefix of it, and a recovery's answer is true.  Under it  *)
(* every step is a step of ProcessStream or leaves its variables alone.     *)
(* Without the assumption the refinement is false: an evicted chunk may be  *)
(* taken for the exit (run exec_lost).                                      *)
(***************************************************************************)
EXTENDS ExecRecovery, SequenceTheorems, FiniteSetTheorems, TLAPS

\* A process that was started stays in one of these.
Started == {"running", "gone"}

\* The recovery task works under the status it set.
Places ==
    /\ proc \in {"none", "starting", "running", "gone"}
    /\ rec \in {"starts", "resume", "attach", "read", "apply", "terminate", "install"}
         => status = "recovering"
    /\ rec = "failing" => status = "failed"

\* An answer was given by a process that had started; a write is accepted only
\* after its id is remembered.
Answers ==
    /\ exec = "answered" => proc \in Started
    /\ session = "live" => proc \in Started
    /\ write # "idle" => proc \in Started
    /\ wreq # "none" => proc \in Started
    /\ wreq = "accepted" => remembered = TRUE
    /\ write = "accepted" => wreq = "accepted"
    /\ remembered \in BOOLEAN
    /\ stdin \in {0, 1} /\ (remembered = TRUE <=> stdin = 1)

\* The inductive invariant for the sessions and the writes.
Safe == Places /\ NoDeadSession /\ Answers

\* Safe holds before the process is started.
LEMMA SafeInit == Init => Safe
<1> SUFFICES ASSUME Init PROVE Safe
  OBVIOUS
<1>1. proc = "none" /\ exec = "none" /\ status = "connected" /\ rec = "none" /\ session = "none"
  BY DEF Init
<1>2. write = "idle" /\ wreq = "none" /\ remembered = FALSE /\ stdin = 0
  BY DEF Init
<1>3. remembered \in BOOLEAN /\ remembered # TRUE
  BY <1>2
<1> QED BY <1>1, <1>2, <1>3 DEF Safe, Places, NoDeadSession, Answers, Started, InTable

\* Every step of server, client, writer and connection preserves Safe.
LEMMA SafeNext == Safe /\ [Next]_vars => Safe'
<1> SUFFICES ASSUME Safe, [Next]_vars PROVE Safe'
  OBVIOUS
<1> USE DEF Safe, Places, NoDeadSession, Answers, Started, InTable
<1>1. CASE ServerStep
  <2> USE DEF processVars, serverVars, linkVars, eventVars, clientVars, writeVars
  <2>1. CASE ExecReserve \/ ExecSpawn \/ WatchExit \/ Forget
    BY <2>1 DEF ExecReserve, ExecSpawn, WatchExit, Forget
  <2>2. ASSUME NEW s \in Streams, StreamOutput(s) \/ FinishOutputStream(s) PROVE Safe'
    BY <2>2 DEF StreamOutput, FinishOutputStream
  <2>3. ASSUME NEW t \in Tasks, SendNotification(t) \/ MaybeEmitClosed(t) PROVE Safe'
    BY <2>3 DEF SendNotification, MaybeEmitClosed
  <2>4. CASE Detach \/ ExpireIfDetached
    BY <2>4 DEF Detach, ExpireIfDetached
  <2> QED BY <1>1, <2>1, <2>2, <2>3, <2>4 DEF ServerStep
<1>2. CASE ClientStep
  <2> USE DEF processVars, serverVars, linkVars, eventVars, clientVars, writeVars
  <2>1. CASE HandleNotification
    BY <2>1 DEF HandleNotification, SetFailure, RouteUntilClosed
  <2>2. CASE BeginProcessStart \/ InsertSession \/ StartAnswered \/ StartRefused \/ StartLost
    BY <2>2 DEF BeginProcessStart, InsertSession, StartAnswered, StartRefused, StartLost
  <2>3. CASE CleanupTerminate \/ CleanupGivesUp
    BY <2>3 DEF CleanupTerminate, CleanupGivesUp, Terminate
  <2>4. CASE RequestRecovery \/ WaitForProcessStarts \/ Reconnect \/ Attach \/ Retry
             \/ ReadProcess \/ InstallRecoveredClient \/ RecoveryTimesOut
    BY <2>4 DEF RequestRecovery, WaitForProcessStarts, Reconnect, Attach, Retry,
       ReadProcess, InstallRecoveredClient, RecoveryTimesOut, Fail
  <2>5. CASE RecoverEvents
    BY <2>5 DEF RecoverEvents, RouteUntilClosed
  <2>6. CASE GiveUpProcess
    BY <2>6 DEF GiveUpProcess, Terminate, SetFailure
  <2>7. CASE FailAllSessions
    BY <2>7 DEF FailAllSessions, SetFailure
  <2> QED BY <1>2, <2>1, <2>2, <2>3, <2>4, <2>5, <2>6, <2>7 DEF ClientStep
<1>3. CASE WriteStep
  <2> USE DEF processVars, serverVars, linkVars, eventVars, clientVars
  <2>1. CASE SendWrite BY <2>1 DEF SendWrite
  <2>2. CASE WriteLooksUp BY <2>2 DEF WriteLooksUp
  <2>3. CASE WriteAccepts BY <2>3 DEF WriteAccepts
  <2>4. CASE WriteReserveFails \/ WriteReturns BY <2>4 DEF WriteReserveFails, WriteReturns
  <2>5. CASE WriteLost \/ WriteFails BY <2>5 DEF WriteLost, WriteFails
  <2> QED BY <1>3, <2>1, <2>2, <2>3, <2>4, <2>5 DEF WriteStep
<1>4. CASE Disconnect
  BY <1>4 DEF Disconnect, processVars, serverVars, eventVars, clientVars, writeVars
<1>5. CASE UNCHANGED vars
  BY <1>5 DEF vars, processVars, serverVars, linkVars, eventVars, clientVars, writeVars
<1> QED BY <1>1, <1>2, <1>3, <1>4, <1>5 DEF Next

-----------------------------------------------------------------------------

\* The output events of the process.
Outs == {i \in DOMAIN log : log[i] = "out"}

\* The tasks number one exit, then one closed event and nothing after it.
Ordered ==
    /\ log \in Seq(Kinds)
    /\ task \in [Tasks -> {"run", "check", "done"}]
    /\ \A i \in DOMAIN log : log[i] = "closed" => i = Len(log)
    /\ task["watcher"] = "run" => ~Has(log, "exit")
    /\ Has(log, "closed") => Has(log, "exit") /\ \A s \in Streams : task[s] # "run"

\* No output is evicted.
Kept ==
    /\ retained = Outs
    /\ IsFiniteSet(Outs)
    /\ Cardinality(Outs) <= MaxOutput

\* The consumer has the first events of the log.
Prefix ==
    /\ published \in Seq(Kinds) /\ failure \in BOOLEAN
    /\ Len(published) <= Len(log)
    /\ \A i \in 1 .. Len(published) : published[i] = log[i]

\* The answer a recovery works with: the output through its last event that
\* the consumer does not have, and whether that event closes the stream.
Truthful ==
    response.known =>
        /\ response.last \in 0 .. Len(log)
        /\ response.chunks \subseteq Outs
        /\ \A i \in Outs : i > Len(published) /\ i <= response.last => i \in response.chunks
        /\ \A i \in 1 .. response.last : log[i] = "closed" => response.closed

\* The inductive invariant for the stream.
StreamInv == Ordered /\ Kept /\ Prefix /\ Truthful

\* What is to be shown of a step.
Simulated == StreamInv' /\ [Stream!Next]_(Stream!vars)

\* The stream starts empty, here and in ProcessStream.
LEMMA StreamInit == Init => StreamInv /\ Stream!Init
<1> SUFFICES ASSUME Init PROVE StreamInv /\ Stream!Init
  OBVIOUS
<1>1. log = <<>> /\ retained = {} /\ published = <<>> /\ failure = FALSE
      /\ task = [t \in Tasks |-> "run"] /\ response = NoResponse
  BY DEF Init
<1>2. Outs = {}
  BY <1>1 DEF Outs
<1>3. Ordered
  BY <1>1 DEF Ordered, Has
<1>4. Kept
  BY <1>1, <1>2, FS_EmptySet, RecoveryAssumption DEF Kept
<1>5. failure \in BOOLEAN
  BY <1>1
<1>6. Prefix /\ Truthful
  BY <1>1, <1>5 DEF Prefix, Truthful, NoResponse
<1> QED BY <1>1, <1>3, <1>4, <1>6 DEF StreamInv, Stream!Init

\* An event is numbered.
LEMMA Appended ==
  ASSUME Ordered, NEW k \in Kinds, log' = Append(log, k)
  PROVE  /\ log' \in Seq(Kinds)
         /\ Len(log') = Len(log) + 1 /\ Len(log) \in Nat
         /\ DOMAIN log = 1 .. Len(log) /\ DOMAIN log' = 1 .. Len(log) + 1
         /\ \A i \in 1 .. Len(log) : log'[i] = log[i]
         /\ log'[Len(log) + 1] = k
  BY AppendProperties DEF Ordered

\* A numbered event adds to the output if it is output.
LEMMA OutsAppended ==
  ASSUME Ordered, NEW k \in Kinds, log' = Append(log, k)
  PROVE  Outs' = IF k = "out" THEN Outs \cup {Len(log) + 1} ELSE Outs
  BY Appended DEF Outs

\* Prefix and response are about what is there already.
LEMMA LogGrows ==
  ASSUME StreamInv, NEW k \in Kinds, log' = Append(log, k),
         UNCHANGED <<published, failure, response>>
  PROVE  Prefix' /\ Truthful'
<1>1. Prefix'
  BY Appended DEF StreamInv, Prefix
<1>2. ASSUME response.known PROVE Truthful'
  <2>1. response.last \in 0 .. Len(log) /\ response.chunks \subseteq Outs
    BY <1>2 DEF StreamInv, Truthful
  <2>2. Outs \subseteq Outs' /\ \A i \in Outs' : i \in Outs \/ i = Len(log) + 1
    BY OutsAppended DEF StreamInv
  <2>3. Len(log') = Len(log) + 1 /\ Len(log) \in Nat
        /\ \A i \in 1 .. Len(log) : log'[i] = log[i]
    BY Appended DEF StreamInv
  <2> QED BY <1>2, <2>1, <2>2, <2>3 DEF StreamInv, Truthful
<1>3. ASSUME ~response.known PROVE Truthful'
  BY <1>3 DEF Truthful
<1> QED BY <1>1, <1>2, <1>3

\* Nothing is evicted while the limit is not reached.
LEMMA NothingEvicted ==
  ASSUME Retained >= MaxOutput, NEW S \in SUBSET Nat, IsFiniteSet(S), Cardinality(S) <= MaxOutput
  PROVE  Newest(S) = S
<1> SUFFICES ASSUME NEW i \in S PROVE Cardinality({j \in S : j > i}) < Retained
  BY DEF Newest
<1>1. {j \in S : j > i} \in SUBSET (S \ {i})
  OBVIOUS
<1>2. IsFiniteSet(S \ {i}) /\ Cardinality(S \ {i}) = Cardinality(S) - 1
  BY FS_RemoveElement
<1>3. Cardinality({j \in S : j > i}) <= Cardinality(S \ {i}) /\ IsFiniteSet({j \in S : j > i})
  BY <1>1, <1>2, FS_Subset
<1> QED BY <1>2, <1>3, FS_CardinalityType, RecoveryAssumption

\* publish_ready publishes the next events of the log.
LEMMA Published ==
  ASSUME Ordered, Prefix, NEW known, NEW exits, PublishReady(known, exits),
         \A i \in exits : i \in DOMAIN log => log[i] = "exit"
  PROVE  /\ published' \in Seq(Kinds)
         /\ Len(published') \in Len(published) .. Len(log)
         /\ published' = SubSeq(log, 1, Len(published'))
         /\ \A i \in 1 .. Len(published') : published'[i] = log[i]
<1>1. PICK n \in Len(published) .. Len(log) :
        published' = [i \in 1 .. n |-> IF i <= Len(published) THEN published[i]
                                        ELSE IF i \in exits THEN "exit" ELSE log[i]]
  BY DEF PublishReady
<1>2. n \in Nat /\ Len(published) \in Nat /\ Len(log) \in Nat /\ n <= Len(log)
      /\ DOMAIN log = 1 .. Len(log)
  BY DEF Ordered, Prefix
<1>3. \A i \in 1 .. n : published'[i] = log[i]
  BY <1>1, <1>2 DEF Prefix
<1> DEFINE sub == SubSeq(log, 1, n)
<1>4. \A i \in 1 .. n : log[i] \in Kinds
  BY <1>2 DEF Ordered
<1>5. sub \in Seq(Kinds) /\ Len(sub) = n /\ \A i \in 1 .. n : sub[i] = log[i]
  BY <1>2, <1>4, SubSeqProperties
<1> HIDE DEF sub
<1>6. DOMAIN sub = 1 .. n /\ sub = [i \in DOMAIN sub |-> sub[i]]
  BY <1>5
<1>7. published' = sub
  BY <1>1, <1>3, <1>5, <1>6
<1> QED BY <1>1, <1>2, <1>5, <1>7 DEF sub

\* The events a recovery takes for the exit are the exit.
LEMMA ExitsAreExits ==
  ASSUME StreamInv, response.known
  PROVE  \A i \in ExitBeforeChunk(response) \cup ExitInGap(response) : log[i] = "exit"
<1> DEFINE r == response
<1>1. ASSUME NEW i \in Missing(r) PROVE log[i] = "exit"
  <2>1. i \in (Len(published) + 1) .. r.last /\ i \notin r.chunks /\ (r.closed => i # r.last)
    BY <1>1 DEF Missing
  <2>2. Len(published) \in Nat /\ r.last \in 0 .. Len(log) /\ DOMAIN log = 1 .. Len(log)
        /\ Len(log) \in Nat
    BY DEF StreamInv, Ordered, Prefix, Truthful
  <2>3. i \in DOMAIN log /\ i > Len(published) /\ i <= r.last
    BY <2>1, <2>2
  <2>4. log[i] # "out"
    BY <2>1, <2>3 DEF StreamInv, Truthful, Outs
  <2>5. log[i] # "closed"
    BY <2>1, <2>2, <2>3 DEF StreamInv, Truthful, Ordered
  <2> QED BY <2>3, <2>4, <2>5 DEF StreamInv, Ordered, Kinds
<1>2. ExitBeforeChunk(r) \subseteq Missing(r) /\ ExitInGap(r) \subseteq Missing(r)
  BY DEF ExitBeforeChunk, ExitInGap, Gaps
<1> QED BY <1>1, <1>2

\* Published events only make a recovery's answer easier to live up to.
LEMMA StillTruthful ==
  ASSUME StreamInv, UNCHANGED log, Len(published') \in Nat, Len(published') >= Len(published),
         response' \in {response, NoResponse}
  PROVE  Truthful'
<1>1. CASE response' = NoResponse
  BY <1>1 DEF Truthful, NoResponse
<1>2. CASE response' = response
  <2>1. Outs' = Outs /\ Len(published) \in Nat
    BY DEF Outs, StreamInv, Prefix
  <2> QED BY <1>2, <2>1 DEF StreamInv, Truthful, Outs
<1> QED BY <1>1, <1>2

\* A step that leaves the stream alone is a stutter of ProcessStream.
LEMMA QuietStep ==
  ASSUME StreamInv, UNCHANGED <<log, retained, task, published, failure>>,
         response' \in {response, NoResponse}
  PROVE  StreamInv' /\ UNCHANGED Stream!vars
<1>1. Ordered' /\ Kept' /\ Prefix'
  BY DEF StreamInv, Ordered, Kept, Prefix, Outs, Has
<1>2. Truthful'
  BY StillTruthful DEF StreamInv, Prefix
<1> QED BY <1>1, <1>2 DEF StreamInv, Stream!vars

\* publish_ready delivers the next events, or none.
LEMMA DeliveryStep ==
  ASSUME StreamInv, NEW known, NEW exits, PublishReady(known, exits),
         \A i \in exits : i \in DOMAIN log => log[i] = "exit",
         ~failure, UNCHANGED <<log, retained, task, failure>>,
         response' \in {response, NoResponse}
  PROVE  StreamInv' /\ [Stream!Next]_(Stream!vars)
<1>1. /\ published' \in Seq(Kinds)
      /\ Len(published') \in Len(published) .. Len(log)
      /\ published' = SubSeq(log, 1, Len(published'))
      /\ \A i \in 1 .. Len(published') : published'[i] = log[i]
  BY Published DEF StreamInv
<1>2. Len(published) \in Nat /\ Len(log) \in Nat /\ Len(published') \in Nat
  BY <1>1 DEF StreamInv, Prefix, Ordered
<1>3. Ordered' /\ Kept'
  BY DEF StreamInv, Ordered, Kept, Outs, Has
<1>4. Prefix'
  BY <1>1, <1>2 DEF StreamInv, Prefix
<1>5. Truthful'
  BY <1>1, <1>2, StillTruthful
<1>6. CASE Len(published') = Len(published)
  <2>1. published' = published
    BY <1>1, <1>2, <1>6, SeqEqual DEF StreamInv, Prefix
  <2> QED BY <2>1, <1>3, <1>4, <1>5 DEF StreamInv, Stream!vars
<1>7. CASE Len(published') # Len(published)
  <2>1. Len(published') \in (Len(published) + 1) .. Len(log)
    BY <1>1, <1>2, <1>7
  <2>2. Stream!Deliver
    BY <1>1, <2>1 DEF Stream!Deliver
  <2> QED BY <2>2, <1>3, <1>4, <1>5 DEF StreamInv, Stream!Next
<1> QED BY <1>6, <1>7

\* set_failure gives up a stream that is neither complete nor given up.
LEMMA FailureStep ==
  ASSUME StreamInv, SetFailure, UNCHANGED <<log, retained, task>>,
         response' \in {response, NoResponse}
  PROVE  StreamInv' /\ [Stream!Next]_(Stream!vars)
<1>1. published' = published /\ failure' = (failure \/ ~ClosedPublished)
  BY DEF SetFailure
<1>2. failure \in BOOLEAN /\ failure' \in BOOLEAN
  BY <1>1 DEF StreamInv, Prefix
<1>3. Ordered' /\ Kept' /\ Prefix'
  BY <1>1, <1>2 DEF StreamInv, Ordered, Kept, Prefix, Outs, Has
<1>4. Truthful'
  BY <1>1, StillTruthful DEF StreamInv, Prefix
<1>5. CASE failure \/ ClosedPublished
  <2>1. failure' = failure
    BY <1>1, <1>2, <1>5, Zenon
  <2> QED BY <1>1, <1>3, <1>4, <2>1 DEF StreamInv, Stream!vars
<1>6. CASE ~failure /\ ~ClosedPublished
  <2>1. failure' = TRUE
    BY <1>1, <1>6
  <2>2. Stream!GiveUp
    BY <1>1, <1>6, <2>1 DEF Stream!GiveUp, Stream!Complete, Stream!Has, ClosedPublished, Has
  <2> QED BY <1>3, <1>4, <2>2 DEF StreamInv, Stream!Next
<1> QED BY <1>5, <1>6

\* The process goes on: its tasks number the events the promise allows.
LEMMA ProcessStep ==
  ASSUME Retained >= MaxOutput, StreamInv, NEW s \in Streams, NEW t \in Tasks,
         StreamOutput(s) \/ WatchExit \/ FinishOutputStream(s) \/ MaybeEmitClosed(t)
  PROVE  StreamInv' /\ [Stream!Next]_(Stream!vars)
<1> USE DEF eventVars, clientVars
<1>1. CASE StreamOutput(s)
  <2>1. /\ task[s] = "run" /\ log' = Append(log, "out")
        /\ Cardinality(Outs) < MaxOutput
        /\ retained' = Newest(retained \cup {Len(log) + 1})
        /\ UNCHANGED <<task, published, failure, response>>
    BY <1>1 DEF StreamOutput, Number, Outs
  <2>2. "out" \in Kinds /\ ~Has(log, "closed")
    BY <2>1 DEF StreamInv, Ordered, Kinds
  <2>3. Prefix' /\ Truthful'
    BY <2>1, <2>2, LogGrows
  <2>4. /\ log' \in Seq(Kinds) /\ Len(log) \in Nat
        /\ DOMAIN log = 1 .. Len(log) /\ DOMAIN log' = 1 .. Len(log) + 1
        /\ \A i \in 1 .. Len(log) : log'[i] = log[i]
        /\ log'[Len(log) + 1] = "out"
    BY <2>1, <2>2, Appended DEF StreamInv
  <2>5. Ordered'
    BY <2>1, <2>2, <2>4 DEF StreamInv, Ordered, Has
  <2>6. Outs' = Outs \cup {Len(log) + 1}
    BY <2>1, <2>2, OutsAppended DEF StreamInv
  <2>7. IsFiniteSet(Outs) /\ retained = Outs /\ Len(log) + 1 \notin Outs
    BY <2>4 DEF StreamInv, Kept, Outs
  <2>8. IsFiniteSet(Outs') /\ Cardinality(Outs') = Cardinality(Outs) + 1
    BY <2>6, <2>7, FS_AddElement
  <2>9. Cardinality(Outs') <= MaxOutput
    BY <2>1, <2>7, <2>8, FS_CardinalityType, RecoveryAssumption
  <2>10. Outs' \in SUBSET Nat
    BY <2>4 DEF Outs
  <2>11. Newest(Outs') = Outs'
    BY <2>8, <2>9, <2>10, NothingEvicted
  <2>12. Kept'
    BY <2>1, <2>6, <2>7, <2>8, <2>9, <2>11 DEF Kept
  <2>13. Stream!Happens("out")
    BY <2>1, <2>2 DEF Stream!Happens, Stream!Has, Has
  <2> QED BY <2>2, <2>3, <2>5, <2>12, <2>13 DEF StreamInv, Stream!Next, Stream!Kinds
<1>2. CASE WatchExit
  <2>1. /\ task["watcher"] = "run" /\ log' = Append(log, "exit")
        /\ task' = [task EXCEPT !["watcher"] = "check"]
        /\ UNCHANGED <<retained, published, failure, response>>
    BY <1>2 DEF WatchExit, Number
  <2>2. "exit" \in Kinds /\ ~Has(log, "exit") /\ ~Has(log, "closed")
    BY <2>1 DEF StreamInv, Ordered, Kinds
  <2>3. Prefix' /\ Truthful'
    BY <2>1, <2>2, LogGrows
  <2>4. /\ log' \in Seq(Kinds) /\ Len(log) \in Nat
        /\ DOMAIN log = 1 .. Len(log) /\ DOMAIN log' = 1 .. Len(log) + 1
        /\ \A i \in 1 .. Len(log) : log'[i] = log[i]
        /\ log'[Len(log) + 1] = "exit"
    BY <2>1, <2>2, Appended DEF StreamInv
  <2>5. task' \in [Tasks -> {"run", "check", "done"}] /\ task'["watcher"] = "check"
    BY <2>1 DEF StreamInv, Ordered, Tasks
  <2>6. Ordered'
    BY <2>2, <2>4, <2>5 DEF StreamInv, Ordered, Has
  <2>7. Outs' = Outs
    BY <2>1, <2>2, OutsAppended DEF StreamInv
  <2>8. Kept'
    BY <2>1, <2>7 DEF StreamInv, Kept
  <2>9. Stream!Happens("exit")
    BY <2>1, <2>2 DEF Stream!Happens, Stream!Has, Has
  <2> QED BY <2>2, <2>3, <2>6, <2>8, <2>9 DEF StreamInv, Stream!Next, Stream!Kinds
<1>3. CASE FinishOutputStream(s)
  <2>1. task' = [task EXCEPT ![s] = "check"] /\ UNCHANGED <<log, retained, published, failure, response>>
    BY <1>3 DEF FinishOutputStream
  <2>2. Kept' /\ Prefix'
    BY <2>1 DEF StreamInv, Kept, Prefix, Outs
  <2>3. Truthful'
    BY <2>1, StillTruthful DEF StreamInv, Prefix
  <2>4. Ordered'
    BY <2>1 DEF StreamInv, Ordered, Has, Tasks, Streams
  <2> QED BY <2>1, <2>2, <2>3, <2>4 DEF StreamInv, Stream!vars
<1>4. CASE MaybeEmitClosed(t)
  <2>1. /\ task[t] = "check" /\ task' = [task EXCEPT ![t] = "done"]
        /\ UNCHANGED <<retained, published, failure, response>>
    BY <1>4 DEF MaybeEmitClosed
  <2>2. /\ task' \in [Tasks -> {"run", "check", "done"}]
        /\ \A u \in Tasks : task[u] # "run" => task'[u] # "run"
        /\ task'["watcher"] = "run" => task["watcher"] = "run"
    BY <2>1 DEF StreamInv, Ordered, Tasks
  <2>3. CASE log' = log
    <3>1. Kept' /\ Prefix'
      BY <2>1, <2>3 DEF StreamInv, Kept, Prefix, Outs
    <3>2. Truthful'
      BY <2>1, <2>3, StillTruthful DEF StreamInv, Prefix
    <3>3. Ordered'
      BY <2>2, <2>3 DEF StreamInv, Ordered, Has, Tasks
    <3> QED BY <2>1, <2>3, <3>1, <3>2, <3>3 DEF StreamInv, Stream!vars
  <2>4. CASE /\ ~Has(log, "closed") /\ Has(log, "exit") /\ \A u \in Streams : task[u] # "run"
             /\ log' = Append(log, "closed")
    <3>1. "closed" \in Kinds
      BY DEF Kinds
    <3>2. Prefix' /\ Truthful'
      BY <2>1, <2>4, <3>1, LogGrows
    <3>3. /\ log' \in Seq(Kinds) /\ Len(log) \in Nat /\ Len(log') = Len(log) + 1
          /\ DOMAIN log = 1 .. Len(log) /\ DOMAIN log' = 1 .. Len(log) + 1
          /\ \A i \in 1 .. Len(log) : log'[i] = log[i]
      BY <2>4, <3>1, Appended DEF StreamInv
    <3>4. task["watcher"] # "run"
      BY <2>4 DEF StreamInv, Ordered
    <3>5. Ordered'
      BY <2>2, <2>4, <3>3, <3>4 DEF StreamInv, Ordered, Has, Tasks
    <3>6. Outs' = Outs
      BY <2>4, <3>1, OutsAppended DEF StreamInv
    <3>7. Kept'
      BY <2>1, <3>6 DEF StreamInv, Kept
    <3>8. Stream!Happens("closed")
      BY <2>1, <2>4 DEF Stream!Happens, Stream!Has, Has
    <3> QED BY <3>1, <3>2, <3>5, <3>7, <3>8 DEF StreamInv, Stream!Next, Stream!Kinds
  <2> QED BY <1>4, <2>3, <2>4 DEF MaybeEmitClosed, Number
<1> QED BY <1>1, <1>2, <1>3, <1>4

\* A recovery's read answers what is true of the process.
LEMMA ReadStep ==
  ASSUME StreamInv, ReadProcess
  PROVE  StreamInv' /\ UNCHANGED Stream!vars
<1>1. UNCHANGED <<log, retained, task, published, failure>>
  BY DEF ReadProcess, processVars, eventVars
<1>2. CASE response' = response \/ response' = NoResponse
  BY <1>1, <1>2, QuietStep
<1>3. CASE response' = [known |-> TRUE, chunks |-> {i \in retained : i > Len(published)},
                        last |-> Len(log), exited |-> Has(log, "exit"), closed |-> Has(log, "closed")]
  <2>1. Ordered' /\ Kept' /\ Prefix'
    BY <1>1 DEF StreamInv, Ordered, Kept, Prefix, Outs, Has
  <2>2. Len(log) \in Nat /\ DOMAIN log = 1 .. Len(log) /\ retained = Outs /\ Outs' = Outs
    BY <1>1 DEF StreamInv, Ordered, Kept, Outs
  <2>3. Truthful'
    BY <1>1, <1>3, <2>2 DEF Truthful, Has
  <2> QED BY <1>1, <2>1, <2>3 DEF StreamInv, Stream!vars
<1> QED BY <1>2, <1>3 DEF ReadProcess

\* Every step preserves StreamInv and is a step or a stutter of ProcessStream.
LEMMA StreamNext ==
  ASSUME Retained >= MaxOutput, StreamInv, [Next]_vars
  PROVE  Simulated
<1>1. ASSUME UNCHANGED <<log, retained, task, published, failure>>, response' \in {response, NoResponse}
      PROVE  Simulated
  BY <1>1, QuietStep DEF Simulated
<1>2. CASE ServerStep
  <2> USE DEF processVars, eventVars, clientVars
  <2>1. CASE ExecReserve \/ ExecSpawn \/ Forget \/ Detach \/ ExpireIfDetached
    BY <1>1, <2>1 DEF ExecReserve, ExecSpawn, Forget, Detach, ExpireIfDetached
  <2>2. ASSUME NEW t \in Tasks, SendNotification(t) PROVE Simulated
    BY <1>1, <2>2 DEF SendNotification
  <2>3. "stdout" \in Streams /\ "watcher" \in Tasks
    BY DEF Streams, Tasks
  <2>4. ASSUME NEW s \in Streams, NEW t \in Tasks,
               StreamOutput(s) \/ WatchExit \/ FinishOutputStream(s) \/ MaybeEmitClosed(t)
        PROVE  Simulated
    BY <2>4, ProcessStep DEF Simulated
  <2> QED BY <1>2, <2>1, <2>2, <2>3, <2>4 DEF ServerStep
<1>3. CASE ClientStep
  <2> USE DEF processVars, eventVars, clientVars
  <2>1. CASE HandleNotification
    <3>1. UNCHANGED <<log, retained, task, response>>
      BY <2>1 DEF HandleNotification
    <3>2. CASE UNCHANGED eventVars
      BY <1>1, <3>1, <3>2
    <3>3. CASE SetFailure
      BY <3>1, <3>3, FailureStep DEF Simulated
    <3>4. ASSUME NEW known, PublishReady(known, {}), ~failure, failure' = failure
          PROVE  Simulated
      BY <3>1, <3>4, DeliveryStep DEF Simulated
    <3> QED BY <2>1, <3>2, <3>3, <3>4 DEF HandleNotification
  <2>2. CASE BeginProcessStart \/ InsertSession \/ StartAnswered \/ StartRefused \/ StartLost
             \/ CleanupTerminate \/ CleanupGivesUp
    BY <1>1, <2>2 DEF BeginProcessStart, InsertSession, StartAnswered, StartRefused, StartLost,
       CleanupTerminate, CleanupGivesUp, Terminate
  <2>3. CASE RequestRecovery \/ WaitForProcessStarts \/ Reconnect \/ Attach \/ Retry
             \/ InstallRecoveredClient \/ RecoveryTimesOut
    BY <1>1, <2>3 DEF RequestRecovery, WaitForProcessStarts, Reconnect, Attach, Retry,
       InstallRecoveredClient, RecoveryTimesOut
  <2>4. CASE ReadProcess
    BY <2>4, ReadStep DEF Simulated
  <2>5. CASE RecoverEvents
    <3>1. UNCHANGED <<log, retained, task>> /\ response' = NoResponse
      BY <2>5 DEF RecoverEvents
    <3>2. CASE UNCHANGED eventVars
      BY <1>1, <3>1, <3>2
    <3>3. ASSUME response.known, ~failure, failure' = failure,
                 PublishReady(Recovered(response), ExitBeforeChunk(response) \cup ExitInGap(response))
          PROVE  Simulated
      BY <3>1, <3>3, ExitsAreExits, DeliveryStep DEF Simulated
    <3> QED BY <2>5, <3>2, <3>3 DEF RecoverEvents
  <2>6. CASE GiveUpProcess
    BY <2>6, FailureStep DEF GiveUpProcess, Terminate, Simulated
  <2>7. CASE FailAllSessions
    <3>1. CASE UNCHANGED eventVars
      BY <1>1, <2>7, <3>1 DEF FailAllSessions
    <3>2. CASE SetFailure
      BY <2>7, <3>2, FailureStep DEF FailAllSessions, Simulated
    <3> QED BY <2>7, <3>1, <3>2 DEF FailAllSessions
  <2> QED BY <1>3, <2>1, <2>2, <2>3, <2>4, <2>5, <2>6, <2>7 DEF ClientStep
<1>4. CASE WriteStep
  BY <1>1, <1>4 DEF WriteStep, SendWrite, WriteLooksUp, WriteAccepts, WriteReserveFails,
     WriteReturns, WriteLost,
     WriteFails, processVars, eventVars, clientVars
<1>5. CASE Disconnect
  BY <1>1, <1>5 DEF Disconnect, processVars, eventVars, clientVars
<1>6. CASE UNCHANGED vars
  BY <1>1, <1>6 DEF vars, processVars, eventVars, clientVars
<1> QED BY <1>2, <1>3, <1>4, <1>5, <1>6 DEF Next

-----------------------------------------------------------------------------
(***************************************************************************)
(* Types.  Sequence numbers are those of events that happened: Numbers is   *)
(* TypeOK's part about them, with the bound on what a task holds and on     *)
(* what a recovery's answer reaches, which TypeOK leaves open.              *)
(***************************************************************************)

\* Every sequence number in use is one the server gave.
Numbers ==
    /\ log \in Seq(Kinds)
    /\ retained \subseteq 1 .. Len(log)
    /\ held \in [Tasks -> 0 .. Len(log)]
    /\ wire \in Seq(1 .. Len(log))
    /\ published \in Seq(Kinds)
    /\ pending \subseteq 1 .. Len(log)
    /\ response.last <= Len(log)
    /\ response \in [known : BOOLEAN, chunks : SUBSET (1 .. Len(log)), last : Nat,
                     exited : BOOLEAN, closed : BOOLEAN]

\* Where the tasks, the connection and the requests are.
Controls ==
    /\ proc \in {"none", "starting", "running", "gone"}
    /\ task \in [Tasks -> {"run", "check", "done"}]
    /\ attached \in {"link", "earlier", "none"}
    /\ exec \in {"none", "asked", "answered", "refused"}
    /\ link \in {"up", "down"}
    /\ status \in {"connected", "recovering", "failed"}
    /\ rec \in {"none", "starts", "resume", "attach", "read", "apply", "terminate", "install", "failing"}
    /\ start \in {"idle", "begun", "calling", "done"}
    /\ session \in {"none", "starting", "live", "removed"}
    /\ write \in {"idle", "calling", "again", "accepted", "refused", "failed"}
    /\ wreq \in {"none", "asked", "reserving", "accepted", "refused"}
    /\ stdin \in Nat

\* The flags.
Flags ==
    /\ killed \in BOOLEAN /\ expired \in BOOLEAN /\ cleanup \in BOOLEAN
    /\ failure \in BOOLEAN /\ remembered \in BOOLEAN /\ pipe \in BOOLEAN

\* Numbers, Controls and Flags hold at the start.
LEMMA TypesInit == Init => Numbers /\ Controls /\ Flags
<1> SUFFICES ASSUME Init PROVE Numbers /\ Controls /\ Flags
  OBVIOUS
<1>1. Controls
  BY DEF Init, Controls
<1>2. killed = FALSE /\ expired = FALSE /\ cleanup = FALSE /\ failure = FALSE /\ remembered = FALSE
      /\ pipe \in BOOLEAN
  BY RecoveryAssumption DEF Init
<1>3. Flags
  BY <1>2, Zenon DEF Flags
<1>4. log = <<>> /\ retained = {} /\ wire = <<>> /\ published = <<>> /\ pending = {}
      /\ held = [t \in Tasks |-> 0] /\ response = NoResponse
  BY DEF Init
<1>5. Numbers
  BY <1>4 DEF Numbers, NoResponse
<1> QED BY <1>1, <1>3, <1>5

\* Every step keeps the tasks, the connection and the requests in their places.
LEMMA ControlsNext == Controls /\ [Next]_vars => Controls'
<1> SUFFICES ASSUME Controls, [Next]_vars PROVE Controls'
  OBVIOUS
<1> USE DEF Controls
<1>1. CASE ServerStep
  <2> USE DEF processVars, serverVars, linkVars, eventVars, clientVars, writeVars
  <2>1. CASE ExecReserve \/ ExecSpawn \/ WatchExit \/ Forget
    BY <2>1 DEF ExecReserve, ExecSpawn, WatchExit, Forget
  <2>2. ASSUME NEW s \in Streams, StreamOutput(s) \/ FinishOutputStream(s) PROVE Controls'
    BY <2>2 DEF StreamOutput, FinishOutputStream
  <2>3. ASSUME NEW t \in Tasks, SendNotification(t) \/ MaybeEmitClosed(t) PROVE Controls'
    BY <2>3 DEF SendNotification, MaybeEmitClosed
  <2>4. CASE Detach \/ ExpireIfDetached
    BY <2>4 DEF Detach, ExpireIfDetached
  <2> QED BY <1>1, <2>1, <2>2, <2>3, <2>4 DEF ServerStep
<1>2. CASE ClientStep
  <2> USE DEF processVars, serverVars, linkVars, eventVars, clientVars, writeVars
  <2>1. CASE HandleNotification
    BY <2>1 DEF HandleNotification, SetFailure, RouteUntilClosed
  <2>2. CASE BeginProcessStart \/ InsertSession \/ StartAnswered \/ StartRefused \/ StartLost
    BY <2>2 DEF BeginProcessStart, InsertSession, StartAnswered, StartRefused, StartLost
  <2>3. CASE CleanupTerminate \/ CleanupGivesUp
    BY <2>3 DEF CleanupTerminate, CleanupGivesUp, Terminate
  <2>4. CASE RequestRecovery \/ WaitForProcessStarts \/ Reconnect \/ Retry
             \/ ReadProcess \/ InstallRecoveredClient \/ RecoveryTimesOut
    BY <2>4 DEF RequestRecovery, WaitForProcessStarts, Reconnect, Retry,
       ReadProcess, InstallRecoveredClient, RecoveryTimesOut, Fail
  <2>5. CASE Attach
    BY <2>5 DEF Attach, Fail
  <2>6. CASE RecoverEvents
    BY <2>6 DEF RecoverEvents, RouteUntilClosed
  <2>7. CASE GiveUpProcess
    BY <2>7 DEF GiveUpProcess, Terminate, SetFailure
  <2>8. CASE FailAllSessions
    BY <2>8 DEF FailAllSessions, SetFailure
  <2> QED BY <1>2, <2>1, <2>2, <2>3, <2>4, <2>5, <2>6, <2>7, <2>8 DEF ClientStep
<1>3. CASE WriteStep
  BY <1>3 DEF WriteStep, SendWrite, WriteLooksUp, WriteAccepts, WriteReserveFails,
     WriteReturns, WriteLost,
     WriteFails, processVars, serverVars, linkVars, eventVars, clientVars
<1>4. CASE Disconnect
  BY <1>4 DEF Disconnect, processVars, serverVars, eventVars, clientVars, writeVars
<1>5. CASE UNCHANGED vars
  BY <1>5 DEF vars, processVars, serverVars, linkVars, eventVars, clientVars, writeVars
<1> QED BY <1>1, <1>2, <1>3, <1>4, <1>5 DEF Next

\* Every step keeps the flags Boolean.
LEMMA FlagsNext == Flags /\ [Next]_vars => Flags'
<1> SUFFICES ASSUME Flags, [Next]_vars PROVE Flags'
  OBVIOUS
<1> USE DEF processVars, serverVars, linkVars, eventVars, clientVars, writeVars
<1> DEFINE ended == proc = "running" /\ ~Has(log, "exit")
<1> HIDE DEF ended
<1>1. /\ killed' = killed \/ killed' = (killed \/ ended)
      /\ expired' = expired \/ expired' = TRUE
      /\ cleanup' = cleanup \/ cleanup' = TRUE \/ cleanup' = FALSE
      /\ failure' = failure \/ failure' = (failure \/ ~ClosedPublished)
      /\ remembered' = remembered \/ remembered' = TRUE
      /\ pipe' = pipe
  <2>1. CASE ServerStep
    BY <2>1 DEF ServerStep, ExecReserve, ExecSpawn, WatchExit, Forget, StreamOutput,
       FinishOutputStream, SendNotification, MaybeEmitClosed, Detach, ExpireIfDetached
  <2>2. CASE HandleNotification \/ RecoverEvents
    BY <2>2 DEF HandleNotification, SetFailure, RecoverEvents
  <2>3. CASE BeginProcessStart \/ InsertSession \/ StartAnswered \/ StartRefused \/ StartLost
    BY <2>3 DEF BeginProcessStart, InsertSession, StartAnswered, StartRefused, StartLost
  <2>4. CASE CleanupTerminate \/ CleanupGivesUp
    BY <2>4 DEF CleanupTerminate, CleanupGivesUp, Terminate, ended
  <2>5. CASE RequestRecovery \/ WaitForProcessStarts \/ Reconnect \/ Attach \/ Retry
             \/ ReadProcess \/ InstallRecoveredClient \/ RecoveryTimesOut
    BY <2>5 DEF RequestRecovery, WaitForProcessStarts, Reconnect, Attach, Retry,
       ReadProcess, InstallRecoveredClient, RecoveryTimesOut
  <2>6. CASE GiveUpProcess \/ FailAllSessions
    BY <2>6 DEF GiveUpProcess, FailAllSessions, Terminate, SetFailure, ended
  <2>7. CASE WriteStep
    BY <2>7 DEF WriteStep, SendWrite, WriteLooksUp, WriteAccepts, WriteReserveFails,
     WriteReturns, WriteLost, WriteFails
  <2>8. CASE Disconnect \/ UNCHANGED vars
    BY <2>8 DEF Disconnect, vars
  <2> QED BY <2>1, <2>2, <2>3, <2>4, <2>5, <2>6, <2>7, <2>8 DEF Next, ClientStep
<1> QED BY <1>1, Zenon DEF Flags

\* An event that is numbered leaves the numbers given before in use.
LEMMA NumbersGrow ==
  ASSUME Numbers, NEW k \in Kinds, NEW t \in Tasks, log' = Append(log, k),
         held' = [held EXCEPT ![t] = Len(log) + 1],
         retained' \subseteq retained \cup {Len(log) + 1},
         UNCHANGED <<wire, published, pending, response>>
  PROVE  Numbers'
<1>1. log' \in Seq(Kinds) /\ Len(log') = Len(log) + 1 /\ Len(log) \in Nat
  BY AppendProperties DEF Numbers
<1>2. 1 .. Len(log) \subseteq 1 .. Len(log') /\ 0 .. Len(log) \subseteq 0 .. Len(log')
  BY <1>1
<1>3. wire' \in Seq(1 .. Len(log'))
  BY <1>2 DEF Numbers
<1>4. held' \in [Tasks -> 0 .. Len(log')]
  BY <1>1, <1>2 DEF Numbers
<1>5. /\ response'.last <= Len(log')
      /\ response' \in [known : BOOLEAN, chunks : SUBSET (1 .. Len(log')), last : Nat,
                        exited : BOOLEAN, closed : BOOLEAN]
  BY <1>1, <1>2 DEF Numbers
<1> QED BY <1>1, <1>2, <1>3, <1>4, <1>5 DEF Numbers

\* The newest chunks are chunks.
LEMMA NewestOf == ASSUME NEW S PROVE Newest(S) \subseteq S
  BY DEF Newest

\* publish_ready publishes events of the log and leaves known ones pending.
LEMMA NumbersPublished ==
  ASSUME Numbers, NEW known \in SUBSET (1 .. Len(log)), NEW exits, PublishReady(known, exits)
  PROVE  published' \in Seq(Kinds) /\ pending' \subseteq 1 .. Len(log)
<1>1. PICK n \in Len(published) .. Len(log) :
        /\ published' = [i \in 1 .. n |-> IF i <= Len(published) THEN published[i]
                                           ELSE IF i \in exits THEN "exit" ELSE log[i]]
        /\ pending' = {i \in known : i > n}
  BY DEF PublishReady
<1>2. n \in Nat /\ n <= Len(log) /\ Len(published) \in Nat /\ Len(log) \in Nat
  BY DEF Numbers
<1>3. \A i \in 1 .. n : published'[i] \in Kinds
  <2> TAKE i \in 1 .. n
  <2>1. CASE i <= Len(published)
    BY <1>1, <1>2, <2>1 DEF Numbers
  <2>2. CASE i > Len(published)
    BY <1>1, <1>2, <2>2 DEF Numbers, Kinds
  <2> QED BY <1>2, <2>1, <2>2
<1>4. published' \in [1 .. n -> Kinds]
  BY <1>1, <1>3
<1>5. published' \in Seq(Kinds)
  BY <1>2, <1>4, SeqDef
<1>6. pending' \subseteq 1 .. Len(log)
  BY <1>1
<1> QED BY <1>5, <1>6

\* A recovery knows events through the last one of its answer, beside those
\* that wait already.
LEMMA RecoveredNumbers ==
  ASSUME Numbers, response.last > Len(published)
  PROVE  Recovered(response) \in SUBSET (1 .. Len(log))
<1> DEFINE r == response
<1>1. /\ Len(published) \in Nat /\ Len(log) \in Nat /\ r.last \in Nat /\ r.last <= Len(log)
      /\ r.chunks \subseteq 1 .. Len(log) /\ pending \subseteq 1 .. Len(log)
  BY DEF Numbers
<1>2. Missing(r) \subseteq 1 .. Len(log)
  BY <1>1 DEF Missing
<1>3. ExitBeforeChunk(r) \subseteq Missing(r) /\ ExitInGap(r) \subseteq Missing(r)
  BY DEF ExitBeforeChunk, ExitInGap, Gaps
<1>4. Fits(r) \subseteq r.chunks
  BY DEF Fits, Late, BehindGap
<1>5. RecoveredClosed(r) \subseteq 1 .. Len(log)
  BY <1>1 DEF RecoveredClosed
<1> HIDE DEF r
<1> QED BY <1>1, <1>2, <1>3, <1>4, <1>5 DEF Recovered, r

\* A step that numbers and publishes nothing, and leaves no more on the wire.
LEMMA NumbersQuiet ==
  ASSUME Numbers, UNCHANGED <<log, retained, held, published, pending>>,
         wire' \in Seq(1 .. Len(log)), response' \in {response, NoResponse}
  PROVE  Numbers'
<1>1. Len(log) \in Nat
  BY DEF Numbers
<1>2. CASE response' = response
  BY <1>2 DEF Numbers
<1>3. CASE response' = NoResponse
  BY <1>1, <1>3 DEF Numbers, NoResponse
<1> QED BY <1>2, <1>3

\* set_failure forgets the events that wait, or leaves them.
LEMMA NumbersFailure ==
  ASSUME Numbers, SetFailure, UNCHANGED <<log, retained, held, response>>,
         wire' \in Seq(1 .. Len(log))
  PROVE  Numbers'
  BY DEF Numbers, SetFailure

\* What is on the wire stays so when it is taken, cut off or dropped.
LEMMA NumbersOnWire ==
  ASSUME Numbers
  PROVE  /\ <<>> \in Seq(1 .. Len(log))
         /\ wire # <<>> => Head(wire) \in 1 .. Len(log) /\ Tail(wire) \in Seq(1 .. Len(log))
         /\ \A n \in 0 .. Len(wire) : SubSeq(wire, 1, n) \in Seq(1 .. Len(log))
         /\ \A t \in Tasks : held[t] # 0 => Append(wire, held[t]) \in Seq(1 .. Len(log))
<1>1. wire \in Seq(1 .. Len(log)) /\ Len(log) \in Nat /\ Len(wire) \in Nat
  BY DEF Numbers
<1>2. wire # <<>> => Head(wire) \in 1 .. Len(log) /\ Tail(wire) \in Seq(1 .. Len(log))
  BY <1>1
<1>3. ASSUME NEW n \in 0 .. Len(wire) PROVE SubSeq(wire, 1, n) \in Seq(1 .. Len(log))
  <2>1. \A i \in 1 .. n : wire[i] \in 1 .. Len(log)
    BY <1>1
  <2> QED BY <1>1, <2>1, SubSeqProperties
<1>4. ASSUME NEW t \in Tasks, held[t] # 0 PROVE Append(wire, held[t]) \in Seq(1 .. Len(log))
  <2>1. held[t] \in 1 .. Len(log)
    BY <1>1, <1>4 DEF Numbers
  <2> QED BY <1>1, <2>1
<1> QED BY <1>2, <1>3, <1>4

\* A recovery's read answers with numbers of events that happened.
LEMMA NumbersRead == ASSUME Numbers, ReadProcess PROVE Numbers'
<1>1. UNCHANGED <<log, retained, held, published, pending, wire>>
  BY DEF ReadProcess, processVars, eventVars, linkVars
<1>2. CASE response' = response \/ response' = NoResponse
  BY <1>1, <1>2, NumbersQuiet DEF Numbers
<1>3. CASE response' = [known |-> TRUE, chunks |-> {i \in retained : i > Len(published)},
                        last |-> Len(log), exited |-> Has(log, "exit"), closed |-> Has(log, "closed")]
  <2>1. Len(log) \in Nat /\ retained \subseteq 1 .. Len(log)
    BY DEF Numbers
  <2>2. Has(log, "exit") \in BOOLEAN /\ Has(log, "closed") \in BOOLEAN
    BY DEF Has
  <2>3. response'.last <= Len(log)
    BY <1>3, <2>1
  <2> DEFINE chunks == {i \in retained : i > Len(published)}
             exited == Has(log, "exit")
             closed == Has(log, "closed")
  <2>4. chunks \in SUBSET (1 .. Len(log))
    BY <2>1
  <2>5. response' = [known |-> TRUE, chunks |-> chunks, last |-> Len(log),
                     exited |-> exited, closed |-> closed]
    BY <1>3
  <2>6. exited \in BOOLEAN /\ closed \in BOOLEAN
    BY <2>2
  <2> HIDE DEF chunks, exited, closed
  <2>7. response' \in [known : BOOLEAN, chunks : SUBSET (1 .. Len(log)), last : Nat,
                       exited : BOOLEAN, closed : BOOLEAN]
    BY <2>1, <2>4, <2>5, <2>6
  <2> QED BY <1>1, <2>3, <2>7 DEF Numbers
<1> QED BY <1>2, <1>3 DEF ReadProcess

\* Every step keeps to numbers of events that happened.
LEMMA NumbersNext == Numbers /\ [Next]_vars => Numbers'
<1> SUFFICES ASSUME Numbers, [Next]_vars PROVE Numbers'
  OBVIOUS
<1> USE DEF processVars, linkVars, eventVars, clientVars
<1>1. ASSUME UNCHANGED <<log, retained, held, published, pending>>,
             wire' \in {wire, <<>>}, response' \in {response, NoResponse}
      PROVE  Numbers'
  <2>1. <<>> \in Seq(1 .. Len(log)) /\ wire \in Seq(1 .. Len(log))
    BY NumbersOnWire DEF Numbers
  <2>2. wire' \in Seq(1 .. Len(log))
    BY <1>1, <2>1
  <2> QED BY <1>1, <2>2, NumbersQuiet
<1>2. CASE ServerStep
  <2>1. CASE ExecReserve \/ ExecSpawn \/ Forget \/ Detach \/ ExpireIfDetached
    BY <1>1, <2>1 DEF ExecReserve, ExecSpawn, Forget, Detach, ExpireIfDetached
  <2>2. ASSUME NEW s \in Streams, FinishOutputStream(s) PROVE Numbers'
    BY <1>1, <2>2 DEF FinishOutputStream
  <2>3. ASSUME NEW s \in Streams, StreamOutput(s) PROVE Numbers'
    <3>1. "out" \in Kinds /\ s \in Tasks
      BY DEF Kinds, Tasks
    <3>2. retained' \subseteq retained \cup {Len(log) + 1}
      BY <2>3, NewestOf DEF StreamOutput
    <3> QED BY <2>3, <3>1, <3>2, NumbersGrow DEF StreamOutput, Number
  <2>4. CASE WatchExit
    <3>1. "exit" \in Kinds /\ "watcher" \in Tasks
      BY DEF Kinds, Tasks
    <3> QED BY <2>4, <3>1, NumbersGrow DEF WatchExit, Number
  <2>5. ASSUME NEW t \in Tasks, MaybeEmitClosed(t) PROVE Numbers'
    <3>1. "closed" \in Kinds
      BY DEF Kinds
    <3>2. CASE Number(t, "closed")
      BY <2>5, <3>1, <3>2, NumbersGrow DEF MaybeEmitClosed, Number
    <3>3. CASE UNCHANGED <<log, held>>
      BY <1>1, <2>5, <3>3 DEF MaybeEmitClosed
    <3> QED BY <2>5, <3>2, <3>3 DEF MaybeEmitClosed
  <2>6. ASSUME NEW t \in Tasks, SendNotification(t) PROVE Numbers'
    <3>1. /\ held[t] # 0 /\ held' = [held EXCEPT ![t] = 0]
          /\ wire' = wire \/ wire' = Append(wire, held[t])
          /\ UNCHANGED <<log, retained, published, pending, response>>
      BY <2>6 DEF SendNotification
    <3>2. wire' \in Seq(1 .. Len(log))
      BY <3>1, NumbersOnWire DEF Numbers
    <3>3. Len(log) \in Nat /\ held' \in [Tasks -> 0 .. Len(log)]
      BY <3>1 DEF Numbers
    <3> QED BY <3>1, <3>2, <3>3 DEF Numbers
  <2> QED BY <1>2, <2>1, <2>2, <2>3, <2>4, <2>5, <2>6 DEF ServerStep
<1>3. CASE ClientStep
  <2>1. CASE HandleNotification
    <3>1. wire # <<>> /\ wire' = Tail(wire) /\ UNCHANGED <<log, retained, held, response>>
      BY <2>1 DEF HandleNotification
    <3>2. Head(wire) \in 1 .. Len(log) /\ wire' \in Seq(1 .. Len(log))
      BY <3>1, NumbersOnWire
    <3>3. CASE UNCHANGED eventVars
      BY <3>1, <3>2, <3>3, NumbersQuiet
    <3>4. CASE SetFailure
      BY <3>1, <3>2, <3>4, NumbersFailure
    <3>5. CASE PublishReady(pending \cup {Head(wire)}, {})
      <4>1. pending \cup {Head(wire)} \in SUBSET (1 .. Len(log))
        BY <3>2 DEF Numbers
      <4>2. published' \in Seq(Kinds) /\ pending' \subseteq 1 .. Len(log)
        BY <3>5, <4>1, NumbersPublished
      <4> QED BY <3>1, <3>2, <4>2 DEF Numbers
    <3> QED BY <2>1, <3>3, <3>4, <3>5 DEF HandleNotification
  <2>2. CASE BeginProcessStart \/ InsertSession \/ StartAnswered \/ StartRefused \/ StartLost
             \/ CleanupTerminate \/ CleanupGivesUp
    BY <1>1, <2>2 DEF BeginProcessStart, InsertSession, StartAnswered, StartRefused, StartLost,
       CleanupTerminate, CleanupGivesUp, Terminate
  <2>3. CASE RequestRecovery \/ WaitForProcessStarts \/ Reconnect \/ Attach \/ Retry
             \/ InstallRecoveredClient \/ RecoveryTimesOut
    BY <1>1, <2>3 DEF RequestRecovery, WaitForProcessStarts, Reconnect, Attach, Retry,
       InstallRecoveredClient, RecoveryTimesOut, Fail
  <2>4. CASE ReadProcess
    BY <2>4, NumbersRead
  <2>5. CASE RecoverEvents
    <3>1. UNCHANGED <<log, retained, held, wire>> /\ response' = NoResponse
      BY <2>5 DEF RecoverEvents
    <3>2. CASE UNCHANGED eventVars
      BY <1>1, <3>1, <3>2
    <3>3. ASSUME NEW exits, ~(response.last <= Len(published)),
                 PublishReady(Recovered(response), exits)
          PROVE  Numbers'
      <4>1. response.last \in Nat /\ Len(published) \in Nat /\ Len(log) \in Nat
        BY DEF Numbers
      <4>2. Recovered(response) \in SUBSET (1 .. Len(log))
        BY <3>3, <4>1, RecoveredNumbers
      <4>3. published' \in Seq(Kinds) /\ pending' \subseteq 1 .. Len(log)
        BY <3>3, <4>2, NumbersPublished
      <4> QED BY <3>1, <4>1, <4>3 DEF Numbers, NoResponse
    <3> QED BY <2>5, <3>2, <3>3 DEF RecoverEvents
  <2>6. CASE GiveUpProcess
    BY <2>6, NumbersFailure DEF GiveUpProcess, Terminate, Numbers
  <2>7. CASE FailAllSessions
    <3>1. CASE UNCHANGED eventVars
      BY <1>1, <2>7, <3>1 DEF FailAllSessions
    <3>2. CASE SetFailure
      BY <2>7, <3>2, NumbersFailure DEF FailAllSessions, Numbers
    <3> QED BY <2>7, <3>1, <3>2 DEF FailAllSessions
  <2> QED BY <1>3, <2>1, <2>2, <2>3, <2>4, <2>5, <2>6, <2>7 DEF ClientStep
<1>4. CASE WriteStep
  BY <1>1, <1>4 DEF WriteStep, SendWrite, WriteLooksUp, WriteAccepts, WriteReserveFails,
     WriteReturns, WriteLost,
     WriteFails
<1>5. CASE Disconnect
  <2>1. PICK n \in 0 .. Len(wire) : wire' = SubSeq(wire, 1, n)
    BY <1>5 DEF Disconnect
  <2>2. wire' \in Seq(1 .. Len(log))
    BY <2>1, NumbersOnWire
  <2> QED BY <1>5, <2>2, NumbersQuiet DEF Disconnect
<1>6. CASE UNCHANGED vars
  BY <1>1, <1>6 DEF vars
<1> QED BY <1>2, <1>3, <1>4, <1>5, <1>6 DEF Next

-----------------------------------------------------------------------------

\* The states are well formed; in particular every sequence number the server
\* keeps or sends, and every one the client waits for, is that of an event.
THEOREM TypeCorrect == Spec => []TypeOK
<1>1. Numbers /\ Controls /\ Flags => TypeOK
  <2> SUFFICES ASSUME Numbers, Controls, Flags PROVE TypeOK
    OBVIOUS
  <2>1. DOMAIN log = 1 .. Len(log) /\ Len(log) \in Nat
    BY DEF Numbers
  <2>2. held \in [Tasks -> Nat]
    BY <2>1 DEF Numbers
  <2> QED BY <2>1, <2>2 DEF Numbers, Controls, Flags, TypeOK
<1> QED BY TypesInit, NumbersNext, ControlsNext, FlagsNext, <1>1, PTL DEF Spec

\* insert_session: a client that has failed keeps no session in its table, so
\* no consumer waits for a stream that nobody feeds.
THEOREM NoDeadSessionHolds == Spec => []NoDeadSession
<1>1. Safe => NoDeadSession
  BY DEF Safe
<1> QED BY SafeInit, SafeNext, <1>1, PTL DEF Spec

\* exec_write: a write that is repeated after reconnects is handed to the process
\* at most once, and exactly once if the answer that reached the writer accepts it.
THEOREM WrittenOnceHolds == Spec => []WrittenOnce
<1>1. Safe => WrittenOnce
  BY DEF Safe, Answers, WrittenOnce
<1> QED BY SafeInit, SafeNext, <1>1, PTL DEF Spec

\* publish_ordered_event: as long as no output was evicted, the closed event is
\* the last the consumer gets, after every other event of the process.  An
\* eviction is thus the only way to the loss that the run exec_lost shows.
THEOREM ClosedIsCompleteHolds ==
  ASSUME Retained >= MaxOutput
  PROVE  Spec => []ClosedIsComplete
<1>1. StreamInv /\ [Next]_vars => StreamInv'
  BY StreamNext DEF Simulated
<1>2. StreamInv => ClosedIsComplete
  <2> SUFFICES ASSUME StreamInv, NEW i \in DOMAIN published, published[i] = "closed"
               PROVE  published = log
    BY DEF ClosedIsComplete, ClosedPublished, Has
  <2>1. /\ published \in Seq(Kinds) /\ log \in Seq(Kinds)
        /\ Len(published) \in Nat /\ Len(log) \in Nat /\ Len(published) <= Len(log)
        /\ i \in 1 .. Len(published) /\ DOMAIN log = 1 .. Len(log)
        /\ \A j \in 1 .. Len(published) : published[j] = log[j]
    BY DEF StreamInv, Ordered, Prefix
  <2>2. i = Len(log)
    BY <2>1 DEF StreamInv, Ordered
  <2>3. Len(published) = Len(log)
    BY <2>1, <2>2
  <2> QED BY <2>1, <2>3, SeqEqual
<1> QED BY StreamInit, <1>1, <1>2, PTL DEF Spec

\* The events of a process that stays within the retained output are given to
\* the consumer in order, without gap or repetition, until they are complete
\* or the stream is failed: the recovery implements ProcessStream.
THEOREM StreamPromiseHolds ==
  ASSUME Retained >= MaxOutput
  PROVE  Spec => StreamPromise
<1>1. StreamInv /\ [Next]_vars => StreamInv' /\ [Stream!Next]_(Stream!vars)
  BY StreamNext DEF Simulated
<1> QED BY StreamInit, <1>1, PTL DEF Spec, StreamPromise, Stream!Spec
=============================================================================
