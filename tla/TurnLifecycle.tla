--------------------------- MODULE TurnLifecycle ---------------------------
(***************************************************************************)
(* One session's turns: the active-turn slot and everyone who fills it,    *)
(* empties it or puts input into it (core/src/tasks/mod.rs,                *)
(* session/handlers.rs, session/inject.rs, session/input_queue.rs).        *)
(*                                                                         *)
(* The slot is Mutex<Option<ActiveTurn>>; an ActiveTurn has a turn state   *)
(* (an Arc, here a number that is never reused) and perhaps a task. Three  *)
(* kinds of process share it: the submission loop, which runs one          *)
(* operation at a time; the task of each turn, which finishes itself; and  *)
(* callers outside both (an extension that starts idle work, the guardian  *)
(* that aborts a turn, RPCs that steer or inject). A step is what happens  *)
(* between two awaits; awaits that only separate steps that commute with   *)
(* everybody else's are merged.                                            *)
(***************************************************************************)
EXTENDS Integers, FiniteSets

CONSTANTS
    Inputs,     \* user messages, sent as Op::UserInput or turn/steer
    Injects,    \* response items injected by extensions
    IdleItems,  \* response items an extension starts an idle turn with
    Triggers,   \* inter-agent mail with trigger_turn
    Mails,      \* inter-agent mail without
    Features,   \* the operations of this instance
    MaxOps,     \* bound on the operations submitted and idle turns asked for
    MaxTurns,   \* bound on the number of turns
    MaxStates   \* bound on the number of turn states

AllFeatures ==
    {"input", "command", "interrupt", "shutdown", "mail", "steer", "inject",
     "idlework", "guardian", "defer", "sleep"}

ASSUME FeaturesAssumption == Features \subseteq AllFeatures
ASSUME BoundsAssumption ==
    MaxOps \in Nat /\ MaxTurns \in Nat \ {0} /\ MaxStates \in Nat \ {0}

Items  == Inputs \cup Injects \cup IdleItems \cup Triggers \cup Mails
Turns  == 1 .. MaxTurns
States == 1 .. MaxStates
None   == 0

Sub    == -1                     \* submission_loop
Ext    == -2                     \* a caller of try_start_turn_if_idle
Guard  == -3                     \* a caller of abort_turn_if_active
Procs  == {Sub, Ext, Guard} \cup Turns   \* a turn's task has its turn's number

VARIABLES
    slot,       \* the active turn's state, or None
    task,       \* the turn whose RunningTask is in the slot, or None
    pend,       \* [States -> pending_input.items]
    nextTurn,   \* the states whose mailbox phase is NextTurn
    mailbox,    \* mailbox_pending_mails
    history,    \* items recorded into the conversation
    cleared,    \* items thrown away with an aborted turn
    pc,         \* where each process is
    mine,       \* the turn state a process works on, or None
    carry,      \* items a process took from the queues and still holds
    victim,     \* the turn a process is aborting, or None
    reason,     \* TurnAbortReason of the submission loop's abort
    fresh,      \* the input of the operation being submitted
    steerable,  \* turns whose task kind is Regular
    kind,       \* is the task the submission loop spawns steerable
    cancelled,  \* turns whose cancellation token is cancelled
    ends,       \* terminal events sent per turn
    asserted,   \* a debug_assert of start_task failed
    closing,    \* the submission loop is in Op::Shutdown
    lastTurn, lastState, ops   \* counters

slotVars  == <<slot, task>>
inputVars == <<pend, nextTurn, mailbox, history, cleared>>
procVars  == <<pc, mine, carry, victim>>
subVars   == <<reason, fresh, kind, closing, ops>>
turnVars  == <<steerable, cancelled, ends, asserted>>
vars == <<slotVars, inputVars, procVars, subVars, turnVars, lastTurn, lastState>>

PCs == {"absent", "idle", "abort", "grace", "maybe", "reserve", "start1",
        "start2", "start3", "recheck", "confirm", "running", "finishing", "event",
        "clear", "over", "killed", "closed"}

TypeOK ==
    /\ slot \in States \cup {None}
    /\ task \in Turns \cup {None}
    /\ slot = None => task = None
    /\ pend \in [States -> SUBSET Items]
    /\ nextTurn \in SUBSET States
    /\ mailbox \in SUBSET (Triggers \cup Mails)
    /\ history \in SUBSET Items
    /\ cleared \in SUBSET Items
    /\ pc \in [Procs -> PCs]
    /\ mine \in [Procs -> States \cup {None}]
    /\ carry \in [Procs -> SUBSET Items]
    /\ victim \in [Procs -> Turns \cup {None}]
    /\ reason \in {"Replaced", "Interrupted"}
    /\ fresh \in SUBSET Inputs
    /\ steerable \in SUBSET Turns
    /\ kind \in BOOLEAN
    /\ cancelled \in SUBSET Turns
    /\ ends \in [Turns -> Nat]
    /\ asserted \in BOOLEAN
    /\ closing \in BOOLEAN
    /\ lastTurn \in 0 .. MaxTurns
    /\ lastState \in 0 .. MaxStates
    /\ ops \in 0 .. MaxOps

Init ==
    /\ slot = None /\ task = None
    /\ pend = [s \in States |-> {}]
    /\ nextTurn = {}
    /\ mailbox = {} /\ history = {} /\ cleared = {}
    /\ pc = [p \in Procs |-> IF p \in Turns THEN "absent" ELSE "idle"]
    /\ mine = [p \in Procs |-> None]
    /\ carry = [p \in Procs |-> {}]
    /\ victim = [p \in Procs |-> None]
    /\ reason = "Replaced" /\ fresh = {} /\ kind = TRUE
    /\ steerable = {} /\ cancelled = {}
    /\ ends = [n \in Turns |-> 0]
    /\ asserted = FALSE /\ closing = FALSE
    /\ lastTurn = 0 /\ lastState = 0 /\ ops = 0

\* The items handed over so far.
Sent == mailbox \cup history \cup cleared \cup fresh
          \cup UNION {carry[p] : p \in Procs} \cup UNION {pend[s] : s \in States}

HasTrigger == mailbox \cap Triggers # {}
\* Mail that may start a turn: while the thread is durably asleep, any.
Waking     == IF "sleep" \in Features THEN Triggers \cup Mails ELSE Triggers
Go(p, l)   == pc' = [pc EXCEPT ![p] = l]
\* Where a process goes when its call returns.
Return(p)  == IF p \in Turns THEN "over"
              ELSE IF p = Sub /\ closing THEN "closed" ELSE "idle"

----------------------------------------------------------------------------
(* start_task, in its three critical sections                              *)

\* get_pending_input: the active turn's items and the mailbox, unless the
\* active turn has left its mail to the next turn.
PendingInput ==
    IF slot = None THEN mailbox
    ELSE IF slot \in nextTurn THEN {} ELSE pend[slot] \cup mailbox

TakePendingInput ==
    /\ pend' = IF slot # None /\ slot \notin nextTurn
               THEN [pend EXCEPT ![slot] = {}] ELSE pend
    /\ mailbox' = IF slot # None /\ slot \in nextTurn THEN mailbox ELSE {}

StartTaskDrain(p) ==
    /\ pc[p] = "start1"
    /\ carry' = [carry EXCEPT ![p] = PendingInput]
    /\ TakePendingInput
    /\ Go(p, "start2")
    /\ UNCHANGED <<slotVars, nextTurn, history, cleared, mine, victim, subVars,
                   turnVars, lastTurn, lastState>>

\* active.get_or_insert_with(ActiveTurn::default)
GetOrInsert ==
    IF slot # None
    THEN UNCHANGED <<slot, lastState>>
    ELSE /\ lastState < MaxStates
         /\ lastState' = lastState + 1
         /\ slot' = lastState + 1

StartTaskExtend(p) ==
    /\ pc[p] = "start2"
    /\ GetOrInsert
    /\ asserted' = (asserted \/ task # None)
    /\ pend' = [pend EXCEPT ![slot'] = @ \cup carry[p]]
    /\ carry' = [carry EXCEPT ![p] = {}]
    /\ Go(p, "start3")
    /\ UNCHANGED <<task, nextTurn, mailbox, history, cleared, mine, victim, subVars,
                   steerable, cancelled, ends, lastTurn>>

\* The task is spawned and put into the slot. A RunningTask it replaces is
\* dropped, and its AbortOnDropHandle aborts that task.
StartTaskInstall(p) ==
    /\ pc[p] = "start3"
    /\ GetOrInsert
    /\ asserted' = (asserted \/ task # None)
    /\ lastTurn < MaxTurns
    /\ lastTurn' = lastTurn + 1
    /\ task' = lastTurn + 1
    /\ steerable' = IF p # Sub \/ kind THEN steerable \cup {lastTurn + 1} ELSE steerable
    /\ pc' = [q \in Procs |-> IF q = p THEN Return(p)
                              ELSE IF q = lastTurn + 1 THEN "running"
                              ELSE IF q = task /\ pc[q] # "over" THEN "killed"
                              ELSE pc[q]]
    /\ history' = IF p = Sub THEN history \cup fresh ELSE history
    /\ fresh' = IF p = Sub THEN {} ELSE fresh
    /\ UNCHANGED <<pend, nextTurn, mailbox, cleared, mine, carry, victim, reason, kind,
                   closing, ops, cancelled, ends>>

----------------------------------------------------------------------------
(* maybe_start_turn_for_pending_work                                       *)

MaybeStart(p) ==
    /\ pc[p] = "maybe"
    /\ Go(p, IF mailbox \cap Waking # {} THEN "reserve" ELSE Return(p))
    /\ UNCHANGED <<slotVars, inputVars, mine, carry, victim, subVars, turnVars,
                   lastTurn, lastState>>

\* Mutant of Reserve: an occupied slot is taken for a reservation.
ReserveOccupied(p) ==
    /\ pc[p] = "reserve"
    /\ GetOrInsert
    /\ Go(p, "start1")
    /\ UNCHANGED <<task, inputVars, mine, carry, victim, subVars, turnVars, lastTurn>>

\* The slot is reserved with an ActiveTurn that has no task yet.
Reserve(p) ==
    /\ pc[p] = "reserve"
    /\ GetOrInsert
    /\ Go(p, IF slot = None THEN "start1" ELSE Return(p))
    /\ UNCHANGED <<task, inputVars, mine, carry, victim, subVars, turnVars, lastTurn>>

----------------------------------------------------------------------------
(* abort_all_tasks and abort_turn_if_active                                *)

\* The slot is emptied; a task found there is cancelled and given time.
TakeActiveTurn(p) ==
    /\ slot' = None /\ task' = None
    /\ mine' = [mine EXCEPT ![p] = slot]
    /\ victim' = [victim EXCEPT ![p] = task]
    /\ cancelled' = cancelled \cup ({task} \ {None})

AbortAllTasks ==
    /\ pc[Sub] = "abort"
    /\ TakeActiveTurn(Sub)
    /\ Go(Sub, IF task # None THEN "grace"
               ELSE IF reason = "Replaced" THEN "start1" ELSE Return(Sub))
    /\ UNCHANGED <<inputVars, carry, subVars, steerable, ends, asserted, lastTurn, lastState>>

\* Mutant of AbortTurnIfActive: the task is cancelled where it is.
AbortTurnIfActiveKeeps(n) ==
    /\ "guardian" \in Features
    /\ pc[Guard] = "idle"
    /\ task = n
    /\ mine' = [mine EXCEPT ![Guard] = slot]
    /\ victim' = [victim EXCEPT ![Guard] = n]
    /\ cancelled' = cancelled \cup {n}
    /\ Go(Guard, "grace")
    /\ UNCHANGED <<slotVars, inputVars, carry, subVars, steerable, ends, asserted,
                   lastTurn, lastState>>

\* The guardian names the turn it wants to interrupt; another one is spared.
AbortTurnIfActive(n) ==
    /\ "guardian" \in Features
    /\ pc[Guard] = "idle"
    /\ task = n
    /\ TakeActiveTurn(Guard)
    /\ Go(Guard, "grace")
    /\ UNCHANGED <<inputVars, carry, subVars, steerable, ends, asserted, lastTurn, lastState>>

Interrupted(p) == p = Guard \/ reason = "Interrupted"

\* Mutant of HandleTaskAbort: a replaced turn gets no TurnAborted.
HandleTaskAbortSilent(p) ==
    /\ pc[p] = "grace"
    /\ ends' = IF Interrupted(p) THEN [ends EXCEPT ![victim[p]] = @ + 1] ELSE ends
    /\ cleared' = cleared \cup pend[mine[p]]
    /\ pend' = [pend EXCEPT ![mine[p]] = {}]
    /\ pc' = [q \in Procs |-> IF q = p THEN IF Interrupted(p) THEN "maybe" ELSE "start1"
                              ELSE IF q = victim[p] /\ pc[q] # "over" THEN "killed"
                              ELSE pc[q]]
    /\ victim' = [victim EXCEPT ![p] = None]
    /\ mine' = [mine EXCEPT ![p] = None]
    /\ UNCHANGED <<slotVars, nextTurn, mailbox, history, carry, subVars, steerable,
                   cancelled, asserted, lastTurn, lastState>>

\* handle_task_abort after the grace period: the task is killed wherever it
\* is, TurnAborted is sent, and what was pending for the turn is cleared.
HandleTaskAbort(p) ==
    /\ pc[p] = "grace"
    /\ ends' = [ends EXCEPT ![victim[p]] = @ + 1]
    /\ cleared' = cleared \cup pend[mine[p]]
    /\ pend' = [pend EXCEPT ![mine[p]] = {}]
    /\ pc' = [q \in Procs |-> IF q = p THEN IF Interrupted(p) THEN "maybe" ELSE "start1"
                              ELSE IF q = victim[p] /\ pc[q] # "over" THEN "killed"
                              ELSE pc[q]]
    /\ victim' = [victim EXCEPT ![p] = None]
    /\ mine' = [mine EXCEPT ![p] = None]
    /\ UNCHANGED <<slotVars, nextTurn, mailbox, history, carry, subVars, steerable,
                   cancelled, asserted, lastTurn, lastState>>

----------------------------------------------------------------------------
(* The submission loop                                                     *)

\* steer_input: only an active turn of a Regular task takes input, and taking
\* it reopens its mailbox.
CanSteer == task # None /\ task \in steerable

Deliver(i) ==
    /\ pend' = [pend EXCEPT ![slot] = @ \cup {i}]
    /\ nextTurn' = nextTurn \ {slot}

Submit(f) ==
    /\ f \in Features
    /\ pc[Sub] = "idle"
    /\ ops < MaxOps
    /\ ops' = ops + 1

\* Op::UserInput: steer the active turn, or else start a new one. A turn that
\* cannot be steered turns the message down.
UserInputSteered(i) ==
    /\ Submit("input")
    /\ i \notin Sent
    /\ CanSteer
    /\ Deliver(i)
    /\ UNCHANGED <<slotVars, mailbox, history, cleared, procVars, reason, fresh, kind,
                   closing, turnVars, lastTurn, lastState>>

UserInputStarts(i) ==
    /\ Submit("input")
    /\ i \notin Sent
    /\ task = None
    /\ fresh' = {i}
    /\ kind' = TRUE
    /\ reason' = "Replaced"
    /\ Go(Sub, "abort")
    /\ UNCHANGED <<slotVars, inputVars, mine, carry, victim, closing, turnVars,
                   lastTurn, lastState>>

\* Mutant of Command: the task is started without abort_all_tasks.
CommandNoAbort(regular) ==
    /\ Submit("command")
    /\ regular => task = None
    /\ kind' = regular
    /\ reason' = "Replaced"
    /\ Go(Sub, "start1")
    /\ UNCHANGED <<slotVars, inputVars, mine, carry, victim, fresh, closing, turnVars,
                   lastTurn, lastState>>

\* Op::Compact and Op::Review replace the turn by a task that cannot be
\* steered; Op::RunUserShellCommand does it with one that can, and only when no
\* task is active (else it runs inside that turn).
Command(regular) ==
    /\ Submit("command")
    /\ regular => task = None
    /\ kind' = regular
    /\ reason' = "Replaced"
    /\ Go(Sub, "abort")
    /\ UNCHANGED <<slotVars, inputVars, mine, carry, victim, fresh, closing, turnVars,
                   lastTurn, lastState>>

\* Op::Interrupt, and Op::Shutdown, which begins with the same abort.
Interrupt ==
    /\ Submit("interrupt")
    /\ reason' = "Interrupted"
    /\ Go(Sub, "abort")
    /\ UNCHANGED <<slotVars, inputVars, mine, carry, victim, fresh, kind, closing,
                   turnVars, lastTurn, lastState>>

Shutdown ==
    /\ Submit("shutdown")
    /\ reason' = "Interrupted"
    /\ closing' = TRUE
    /\ Go(Sub, "abort")
    /\ UNCHANGED <<slotVars, inputVars, mine, carry, victim, fresh, kind, turnVars,
                   lastTurn, lastState>>

\* Op::InterAgentCommunication
Communicate(m) ==
    /\ Submit("mail")
    /\ m \notin Sent
    /\ mailbox' = mailbox \cup {m}
    /\ Go(Sub, IF m \in Waking THEN "maybe" ELSE "idle")
    /\ UNCHANGED <<slotVars, pend, nextTurn, history, cleared, mine, carry, victim,
                   reason, fresh, kind, closing, turnVars, lastTurn, lastState>>

----------------------------------------------------------------------------
(* Callers beside the submission loop                                      *)

\* The turn/steer RPC calls steer_input with the id of the active turn.
SteerRpc(i) ==
    /\ "steer" \in Features
    /\ i \notin Sent
    /\ CanSteer
    /\ Deliver(i)
    /\ UNCHANGED <<slotVars, mailbox, history, cleared, procVars, subVars, turnVars,
                   lastTurn, lastState>>

\* inject_no_new_turn: into the active turn, with or without a task, or else
\* straight into the history.
Inject(i) ==
    /\ "inject" \in Features
    /\ i \notin Sent
    /\ IF slot # None
       THEN Deliver(i) /\ UNCHANGED history
       ELSE history' = history \cup {i} /\ UNCHANGED <<pend, nextTurn>>
    /\ UNCHANGED <<slotVars, mailbox, cleared, procVars, subVars, turnVars,
                   lastTurn, lastState>>

\* try_start_turn_if_idle reserves an idle slot...
IdleReserve ==
    /\ "idlework" \in Features
    /\ pc[Ext] = "idle"
    /\ IdleItems \ Sent # {}
    /\ ~ HasTrigger
    /\ slot = None
    /\ ops < MaxOps
    /\ ops' = ops + 1
    /\ GetOrInsert
    /\ mine' = [mine EXCEPT ![Ext] = slot']
    /\ Go(Ext, "recheck")
    /\ UNCHANGED <<task, inputVars, carry, victim, reason, fresh, kind, closing, turnVars,
                   lastTurn>>

\* ...gives it back when trigger mail came meanwhile or the mode is Plan...
StillReserved == slot = mine[Ext] /\ task = None

\* Mutant of IdleRecheck: the reservation is not given back.
IdleRecheckKeeps(plan) ==
    /\ pc[Ext] = "recheck"
    /\ IF HasTrigger \/ plan
       THEN /\ mine' = [mine EXCEPT ![Ext] = None]
            /\ Go(Ext, "maybe")
       ELSE /\ Go(Ext, "confirm")
            /\ UNCHANGED mine
    /\ UNCHANGED <<slotVars, inputVars, carry, victim, subVars, turnVars, lastTurn, lastState>>

IdleRecheck(plan) ==
    /\ pc[Ext] = "recheck"
    /\ IF HasTrigger \/ plan
       THEN /\ slot' = IF StillReserved THEN None ELSE slot
            /\ mine' = [mine EXCEPT ![Ext] = None]
            /\ Go(Ext, "maybe")
       ELSE /\ Go(Ext, "confirm")
            /\ UNCHANGED <<slot, mine>>
    /\ UNCHANGED <<task, inputVars, carry, victim, subVars, turnVars, lastTurn, lastState>>

\* ...and otherwise starts a turn with the items, if it still has it.
IdleConfirm(i) ==
    /\ pc[Ext] = "confirm"
    /\ i \notin Sent
    /\ IF StillReserved
       THEN /\ pend' = [pend EXCEPT ![slot] = @ \cup {i}]
            /\ Go(Ext, "start1")
       ELSE /\ Go(Ext, "idle")
            /\ UNCHANGED pend
    /\ mine' = [mine EXCEPT ![Ext] = None]
    /\ UNCHANGED <<slotVars, nextTurn, mailbox, history, cleared, carry, victim, subVars,
                   turnVars, lastTurn, lastState>>

----------------------------------------------------------------------------
(* The task of turn n                                                      *)

\* run_turn, which only regular tasks call, takes the pending input of
\* whatever turn is active and records it before it samples.
Sampling(n) == pc[n] = "running" /\ n \in steerable

Drain(n) ==
    /\ Sampling(n)
    /\ PendingInput # {}
    /\ history' = history \cup PendingInput
    /\ TakePendingInput
    /\ UNCHANGED <<slotVars, nextTurn, cleared, procVars, subVars, turnVars,
                   lastTurn, lastState>>

\* A final answer leaves later mail to the next turn, unless something other
\* than queue-only mail is pending already; a follow-up takes it back.
DeferMailbox(n) ==
    /\ "defer" \in Features
    /\ Sampling(n)
    /\ task = n
    /\ pend[slot] \subseteq Mails
    /\ nextTurn' = nextTurn \cup {slot}
    /\ UNCHANGED <<slotVars, pend, mailbox, history, cleared, procVars, subVars,
                   turnVars, lastTurn, lastState>>

AcceptMailbox(n) ==
    /\ Sampling(n)
    /\ task = n
    /\ slot \in nextTurn
    /\ nextTurn' = nextTurn \ {slot}
    /\ UNCHANGED <<slotVars, pend, mailbox, history, cleared, procVars, subVars,
                   turnVars, lastTurn, lastState>>

\* run returns; a cancelled task leaves the rest to whoever cancelled it. A
\* regular task looks for pending input before it returns, but an error or a
\* hook ends it at once, and input may come right after the look.
EndRun(n) ==
    /\ pc[n] = "running"
    /\ Go(n, IF n \in cancelled THEN "over" ELSE "finishing")
    /\ UNCHANGED <<slotVars, inputVars, mine, carry, victim, subVars, turnVars,
                   lastTurn, lastState>>

\* Mutants of FinishTake: it goes on without a task in the slot; it leaves the
\* pending input there.
FinishTakeAlways(n) ==
    /\ pc[n] = "finishing"
    /\ task' = None
    /\ mine' = [mine EXCEPT ![n] = slot]
    /\ IF slot = None
       THEN UNCHANGED <<pend, history>>
       ELSE /\ history' = history \cup pend[slot]
            /\ pend' = [pend EXCEPT ![slot] = {}]
    /\ Go(n, "event")
    /\ UNCHANGED <<slot, nextTurn, mailbox, cleared, carry, victim, subVars, turnVars,
                   lastTurn, lastState>>

FinishTakeNoRecord(n) ==
    /\ pc[n] = "finishing"
    /\ IF task = None
       THEN Go(n, "over") /\ UNCHANGED <<task, mine>>
       ELSE /\ task' = None
            /\ mine' = [mine EXCEPT ![n] = slot]
            /\ Go(n, "event")
    /\ UNCHANGED <<slot, inputVars, carry, victim, subVars, turnVars, lastTurn, lastState>>

\* on_task_finished takes the task out of the slot, whichever it is, and
\* records what is still pending for the turn.
FinishTake(n) ==
    /\ pc[n] = "finishing"
    /\ IF task = None
       THEN /\ Go(n, "over")
            /\ UNCHANGED <<task, pend, history, mine>>
       ELSE /\ task' = None
            /\ mine' = [mine EXCEPT ![n] = slot]
            /\ history' = history \cup pend[slot]
            /\ pend' = [pend EXCEPT ![slot] = {}]
            /\ Go(n, "event")
    /\ UNCHANGED <<slot, nextTurn, mailbox, cleared, carry, victim, subVars, turnVars,
                   lastTurn, lastState>>

\* TurnComplete (or TurnAborted) is sent.
FinishEvent(n) ==
    /\ pc[n] = "event"
    /\ ends' = [ends EXCEPT ![n] = @ + 1]
    /\ Go(n, "clear")
    /\ UNCHANGED <<slotVars, inputVars, mine, carry, victim, subVars, steerable,
                   cancelled, asserted, lastTurn, lastState>>

\* Mutants of FinishClear: whatever is in the slot is cleared; pending work is
\* not looked for.
FinishClearAny(n) ==
    /\ pc[n] = "clear"
    /\ slot' = None /\ task' = None
    /\ Go(n, "maybe")
    /\ mine' = [mine EXCEPT ![n] = None]
    /\ UNCHANGED <<inputVars, carry, victim, subVars, turnVars, lastTurn, lastState>>

FinishClearOnly(n) ==
    /\ pc[n] = "clear"
    /\ slot' = IF slot = mine[n] /\ task = None THEN None ELSE slot
    /\ Go(n, "over")
    /\ mine' = [mine EXCEPT ![n] = None]
    /\ UNCHANGED <<task, inputVars, carry, victim, subVars, turnVars, lastTurn, lastState>>

\* The slot is cleared if it still holds this turn's state and no task; only
\* then does the session look for pending work.
FinishClear(n) ==
    /\ pc[n] = "clear"
    /\ IF slot = mine[n] /\ task = None
       THEN slot' = None /\ Go(n, "maybe")
       ELSE UNCHANGED slot /\ Go(n, "over")
    /\ mine' = [mine EXCEPT ![n] = None]
    /\ UNCHANGED <<task, inputVars, carry, victim, subVars, turnVars, lastTurn, lastState>>

----------------------------------------------------------------------------

Starting(p) == \/ StartTaskDrain(p) \/ StartTaskExtend(p) \/ StartTaskInstall(p)
               \/ MaybeStart(p) \/ Reserve(p)
Aborting    == AbortAllTasks \/ \E p \in {Sub, Guard} : HandleTaskAbort(p)
Finishing(n) == FinishTake(n) \/ FinishEvent(n) \/ FinishClear(n)
IdleWork    == \/ \E plan \in BOOLEAN : IdleRecheck(plan)
               \/ \E i \in IdleItems : IdleConfirm(i)
Submission  == \/ \E i \in Inputs : UserInputSteered(i) \/ UserInputStarts(i)
               \/ \E m \in Triggers \cup Mails : Communicate(m)
               \/ \E regular \in BOOLEAN : Command(regular)
               \/ Interrupt \/ Shutdown
Outside     == \/ \E i \in Inputs : SteerRpc(i)
               \/ \E i \in Injects : Inject(i)
               \/ \E n \in Turns : AbortTurnIfActive(n)
               \/ IdleReserve

Next ==
    \/ \E p \in Procs : Starting(p)
    \/ Aborting
    \/ \E n \in Turns : Drain(n) \/ DeferMailbox(n) \/ AcceptMailbox(n) \/ EndRun(n) \/ Finishing(n)
    \/ IdleWork
    \/ Submission
    \/ Outside

Spec == Init /\ [][Next]_vars

\* Tasks are polled, grace periods end, turns end. Nothing is assumed of
\* clients, of extensions before they call or of the guardian.
Fairness ==
    /\ \A p \in Procs : WF_vars(Starting(p))
    /\ WF_vars(AbortAllTasks)
    /\ \A p \in {Sub, Guard} : WF_vars(HandleTaskAbort(p))
    /\ \A n \in Turns : WF_vars(EndRun(n)) /\ WF_vars(Finishing(n))
    /\ WF_vars(IdleWork)

FairSpec == Spec /\ Fairness

----------------------------------------------------------------------------
(* Properties                                                              *)

\* start_task never finds a task in the slot: its two debug_asserts.
StartFindsNoTask == ~ asserted

\* A client is told at most once that a turn is over.
AtMostOneTerminal == \A n \in Turns : ends[n] <= 1

\* A task that was not cancelled is in the slot: Interrupt, steering and
\* shutdown can reach every turn that is going on.
RunningTurnIsActive ==
    \A n \in Turns : pc[n] = "running" /\ n \notin cancelled => task = n

\* The slot never keeps a task that is over or was killed.
ActiveTaskIsAlive == task # None => pc[task] \in {"running", "finishing"}

\* Turn states somebody will still look into.
Watched == {slot} \cup {mine[p] : p \in {q \in Procs : pc[q] = "grace"}}

\* Everything handed to the session is still queued, held by a process that
\* will queue or record it, recorded, or was dropped with an aborted turn.
NothingLost ==
    Sent = mailbox \cup history \cup cleared \cup fresh
             \cup UNION {carry[p] : p \in {q \in Procs : pc[q] # "killed"}}
             \cup UNION {pend[s] : s \in Watched \ {None}}

\* After ShutdownComplete no turn is going on.  The code does not keep this: with
\* mail waiting, the abort inside shutdown_session_runtime starts a turn for it.
NoTurnAfterShutdown ==
    pc[Sub] = "closed" =>
        \A n \in Turns : pc[n] # "running" \/ n \in cancelled

\* Every turn that was started is reported over.
EveryTurnEnds == \A n \in Turns : pc[n] = "running" ~> ends[n] >= 1

\* Mail that may start a turn does not stay in the mailbox.
WakingMailIsRead == \A m \in Waking : m \in mailbox ~> m \notin mailbox

\* A slot without task is a passing state: a reservation becomes a turn or is
\* given back, a finished turn leaves. Otherwise the session looks busy for ever.
ReservationEnds == (slot # None /\ task = None) ~> (slot = None \/ task # None)
============================================================================
