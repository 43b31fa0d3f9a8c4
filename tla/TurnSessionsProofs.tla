------------------------ MODULE TurnSessionsProofs -------------------------
(***************************************************************************)
(* The safety of a session's turns, for the two ways in which a session is *)
(* driven without races between starters: by its user through the          *)
(* submission loop, and by mail and idle work. In the first the submission *)
(* loop is the only one that starts a turn and it empties the slot before; *)
(* in the second everyone who starts a turn has reserved the slot.         *)
(***************************************************************************)
EXTENDS TurnLifecycleProofs

----------------------------------------------------------------------------
(* A session driven by its user                                            *)

\* The operations of a client that is the only driver of its session.
UserFeatures == {"input", "command", "interrupt", "shutdown", "steer", "defer", "sleep"}

\* No mail, and only the submission loop and the turns do anything.
OnlyUser == /\ mailbox = {}
            /\ \A p \in Procs : carry[p] = {}
            /\ pc[Ext] = "idle" /\ pc[Guard] = "idle"

\* Where the submission loop can be, and what it knows there.
SubPlaces ==
    /\ pc[Sub] \in {"idle", "abort", "grace", "maybe", "start1", "start2", "start3", "closed"}
    /\ pc[Sub] \in {"grace", "maybe", "start1", "start2", "closed"} => slot = None
    /\ pc[Sub] = "start3" => /\ slot # None /\ task = None
                             /\ \A n \in Turns : mine[n] # slot
    /\ pc[Sub] \in {"start1", "start2", "start3"} => reason = "Replaced"
    /\ closing => reason = "Interrupted" /\ pc[Sub] # "idle"
    /\ pc[Sub] = "closed" => closing
    /\ pc[Sub] # "grace" => victim[Sub] = None

\* Turn states are numbered as they are made.
StatesInOrder == slot <= lastState /\ \A p \in Procs : mine[p] <= lastState

\* A turn that still works is in the slot, or is the one being aborted.
TurnPlaces ==
    \A n \in Turns :
       /\ pc[n] \in {"absent", "running", "finishing", "event", "clear", "maybe", "over",
                     "killed"}
       /\ pc[n] \in {"running", "finishing"} =>
            IF n \in cancelled THEN pc[Sub] = "grace" /\ victim[Sub] = n ELSE task = n
       /\ n \in cancelled => pc[n] \in {"running", "finishing", "over", "killed"}

\* The terminal event of a turn is still to come while it works or is being
\* aborted.
EndsOnce ==
    \A n \in Turns :
       /\ ends[n] <= 1
       /\ pc[n] \in {"absent", "running", "finishing", "event"} => ends[n] = 0
       /\ victim[Sub] = n => ends[n] = 0

\* Input waits only in a state that has a task, or whose task is being aborted.
PendWatched ==
    \A s \in States :
       pend[s] # {} => \/ s = slot /\ task # None
                       \/ pc[Sub] = "grace" /\ mine[Sub] = s

UserInv == /\ AliveInv /\ ~ asserted /\ OnlyUser /\ SubPlaces /\ StatesInOrder
           /\ TurnPlaces /\ EndsOnce /\ PendWatched

LEMMA UserInit == Init => UserInv
<1> SUFFICES ASSUME Init PROVE UserInv
  OBVIOUS
<1> USE ProcsContain DEF Init
<1>1. ~ asserted /\ OnlyUser /\ SubPlaces
  BY DEF OnlyUser, SubPlaces
<1>2. StatesInOrder
  BY DEF StatesInOrder, None
<1>3. TurnPlaces /\ EndsOnce /\ PendWatched
  BY DEF TurnPlaces, EndsOnce, PendWatched
<1> QED
  BY <1>1, <1>2, <1>3, AliveInit DEF UserInv

\* The steps of such a session: everyone else's are disabled, and so is the
\* reservation of a slot for pending work.
UserStep ==
    \/ StartTaskDrain(Sub) \/ StartTaskExtend(Sub) \/ StartTaskInstall(Sub)
    \/ \E p \in Procs : MaybeStart(p)
    \/ AbortAllTasks \/ HandleTaskAbort(Sub)
    \/ \E n \in Turns : \/ Drain(n) \/ DeferMailbox(n) \/ AcceptMailbox(n) \/ EndRun(n)
                        \/ Finishing(n)
    \/ \E i \in Inputs : UserInputSteered(i) \/ UserInputStarts(i) \/ SteerRpc(i)
    \/ \E regular \in BOOLEAN : Command(regular)
    \/ Interrupt \/ Shutdown

LEMMA UserSteps ==
    ASSUME Features \subseteq UserFeatures, UserInv, Next
    PROVE  UserStep
<1> USE ProcsContain DEF UserInv
<1>1. ASSUME NEW p \in Procs, Starting(p)
      PROVE  \/ p = Sub /\ (StartTaskDrain(p) \/ StartTaskExtend(p) \/ StartTaskInstall(p))
             \/ MaybeStart(p)
  <2>1. \A n \in Turns : pc[n] \notin {"start1", "start2", "start3", "reserve"}
    BY DEF TurnPlaces
  <2>2. pc[Sub] # "reserve" /\ pc[Ext] = "idle" /\ pc[Guard] = "idle"
    BY DEF SubPlaces, OnlyUser
  <2> QED
    BY <1>1, <2>1, <2>2
       DEF Starting, StartTaskDrain, StartTaskExtend, StartTaskInstall, Reserve, Procs
<1>2. ~ HandleTaskAbort(Guard)
  BY DEF OnlyUser, HandleTaskAbort
<1>3. ~ IdleWork
  BY DEF OnlyUser, IdleWork, IdleRecheck, IdleConfirm
<1>4. /\ \A m \in Triggers \cup Mails : ~ Communicate(m)
      /\ \A i \in Injects : ~ Inject(i)
      /\ \A n \in Turns : ~ AbortTurnIfActive(n)
      /\ ~ IdleReserve
  BY DEF UserFeatures, Communicate, Submit, Inject, AbortTurnIfActive, IdleReserve
<1> QED
  BY <1>1, <1>2, <1>3, <1>4 DEF Next, Aborting, Submission, Outside, UserStep

\* A step that only moves input about: no process moves and the slot stays.
LEMMA UserStays ==
    ASSUME UserInv, AliveInv',
           UNCHANGED <<slot, task, pc, mine, carry, victim, reason, closing, cancelled, ends,
                       asserted, lastState>>,
           mailbox' = {},
           \A s \in States : pend'[s] # {} => pend[s] # {} \/ (s = slot /\ task # None)
    PROVE  UserInv'
<1> USE DEF UserInv
<1>1. OnlyUser' /\ SubPlaces' /\ StatesInOrder' /\ TurnPlaces' /\ EndsOnce'
  BY DEF OnlyUser, SubPlaces, StatesInOrder, TurnPlaces, EndsOnce
<1>2. PendWatched'
  BY DEF PendWatched
<1> QED
  BY <1>1, <1>2

\* The submission loop takes up an operation that aborts the active turn.
LEMMA UserSubmits ==
    ASSUME UserInv, AliveInv', pc[Sub] = "idle", pc' = [pc EXCEPT ![Sub] = "abort"],
           UNCHANGED <<slot, task, pend, mailbox, mine, carry, victim, cancelled, ends,
                       asserted, lastState>>,
           closing' => reason' = "Interrupted"
    PROVE  UserInv'
<1> USE ProcsContain DEF UserInv, AliveInv, TypeInv, TypeOK
<1>1. OnlyUser' /\ SubPlaces' /\ StatesInOrder'
  BY DEF OnlyUser, SubPlaces, StatesInOrder
<1>2. TurnPlaces'
  BY DEF TurnPlaces
<1>3. EndsOnce'
  BY DEF EndsOnce
<1>4. PendWatched'
  BY DEF PendWatched
<1> QED
  BY <1>1, <1>2, <1>3, <1>4

LEMMA UserStarts ==
    ASSUME UserInv, AliveInv', StartTaskDrain(Sub) \/ StartTaskExtend(Sub)
    PROVE  UserInv'
<1> USE ProcsContain DEF UserInv, AliveInv, TypeInv, TypeOK
<1> USE DEF slotVars, inputVars, procVars, subVars, turnVars, Go
<1>1. CASE StartTaskDrain(Sub)
  <2>1. /\ slot = None /\ PendingInput = {} /\ TakePendingInput
        /\ pc[Sub] = "start1" /\ pc' = [pc EXCEPT ![Sub] = "start2"]
        /\ UNCHANGED <<slot, task, mine, victim, reason, closing, cancelled, ends, asserted,
                       lastState>>
    BY <1>1 DEF StartTaskDrain, SubPlaces, OnlyUser, PendingInput
  <2>2. pend' = pend /\ mailbox' = {} /\ carry' = [carry EXCEPT ![Sub] = {}]
    BY <1>1, <2>1 DEF StartTaskDrain, TakePendingInput
  <2>3. OnlyUser' /\ SubPlaces' /\ StatesInOrder'
    BY <2>1, <2>2 DEF OnlyUser, SubPlaces, StatesInOrder
  <2>4. TurnPlaces' /\ EndsOnce' /\ PendWatched'
    BY <2>1, <2>2 DEF TurnPlaces, EndsOnce, PendWatched
  <2> QED
    BY <2>1, <2>3, <2>4
<1>2. CASE StartTaskExtend(Sub)
  <2>1. slot = None /\ task = None /\ pc[Sub] = "start2" /\ carry[Sub] = {}
    BY <1>2 DEF StartTaskExtend, SubPlaces, OnlyUser
  <2>2. /\ lastState' = lastState + 1 /\ slot' = lastState + 1 /\ slot' \in States
        /\ pc' = [pc EXCEPT ![Sub] = "start3"] /\ carry' = [carry EXCEPT ![Sub] = {}]
        /\ asserted' = FALSE
        /\ pend' = [pend EXCEPT ![slot'] = @ \cup {}]
        /\ UNCHANGED <<task, mailbox, mine, victim, reason, closing, cancelled, ends>>
    BY <1>2, <2>1 DEF StartTaskExtend, GetOrInsert
  <2>3. \A s \in States : pend'[s] = pend[s]
    BY <2>2
  <2>4. StatesInOrder'
    BY <2>2 DEF StatesInOrder, States, None
  <2>5. \A n \in Turns : mine'[n] # slot'
    BY <2>2 DEF StatesInOrder, States, None
  <2>6. OnlyUser' /\ SubPlaces'
    BY <2>1, <2>2, <2>5 DEF OnlyUser, SubPlaces
  <2>7. TurnPlaces'
    BY <2>1, <2>2 DEF TurnPlaces
  <2>8. EndsOnce'
    BY <2>1, <2>2 DEF EndsOnce
  <2>9. PendWatched'
    BY <2>1, <2>2, <2>3 DEF PendWatched
  <2> QED
    BY <2>2, <2>4, <2>6, <2>7, <2>8, <2>9
<1> QED
  BY <1>1, <1>2

LEMMA UserInstalls ==
    ASSUME UserInv, AliveInv', StartTaskInstall(Sub)
    PROVE  UserInv'
<1> USE ProcsContain DEF UserInv, AliveInv, TypeInv, TypeOK
<1> DEFINE new == lastTurn + 1
<1>1. pc[Sub] = "start3" /\ slot # None /\ task = None /\ ~ closing
  BY DEF StartTaskInstall, SubPlaces
<1>2. /\ new \in Turns /\ task' = new /\ ~ asserted'
      /\ UNCHANGED <<slot, lastState, pend, mailbox, mine, carry, victim, reason, closing,
                     cancelled, ends>>
  BY <1>1, BoundsAssumption DEF StartTaskInstall, GetOrInsert, Turns
<1>3. pc[new] = "absent" /\ new \notin cancelled
  BY <1>2 DEF TurnsInOrder, Turns
<1>4. \A q \in Procs : pc'[q] = IF q = Sub THEN "idle" ELSE IF q = new THEN "running" ELSE pc[q]
  <2>1. \A q \in Procs : q # task
    BY <1>1 DEF Procs, None, Sub, Ext, Guard, Turns
  <2>2. Return(Sub) = "idle"
    BY <1>1 DEF Return
  <2> QED
    BY <1>2, <2>1, <2>2 DEF StartTaskInstall
<1>5. OnlyUser' /\ SubPlaces' /\ StatesInOrder'
  BY <1>1, <1>2, <1>4 DEF OnlyUser, SubPlaces, StatesInOrder
<1>6. TurnPlaces'
  BY <1>1, <1>2, <1>3, <1>4 DEF TurnPlaces
<1>7. EndsOnce'
  BY <1>2, <1>3, <1>4 DEF EndsOnce
<1>8. PendWatched'
  BY <1>1, <1>2, <1>4 DEF PendWatched
<1> QED
  BY <1>2, <1>5, <1>6, <1>7, <1>8

LEMMA UserMaybe ==
    ASSUME UserInv, AliveInv', NEW p \in Procs, MaybeStart(p)
    PROVE  UserInv'
<1> USE ProcsContain DEF UserInv, AliveInv, TypeInv, TypeOK
<1> USE DEF slotVars, inputVars, procVars, subVars, turnVars, Go
<1>1. pc[p] = "maybe" /\ pc' = [pc EXCEPT ![p] = Return(p)]
  BY DEF MaybeStart, OnlyUser
<1>2. UNCHANGED <<slot, task, pend, mailbox, mine, carry, victim, reason, closing,
                  cancelled, ends, asserted, lastState>>
  BY DEF MaybeStart
<1>3. p = Sub \/ p \in Turns
  BY <1>1 DEF OnlyUser, Procs
<1>4. CASE p = Sub
  <2>1. Return(Sub) = IF closing THEN "closed" ELSE "idle"
    BY DEF Return
  <2>2. OnlyUser' /\ SubPlaces' /\ StatesInOrder'
    BY <1>1, <1>2, <1>4, <2>1 DEF OnlyUser, SubPlaces, StatesInOrder
  <2>3. TurnPlaces' /\ EndsOnce' /\ PendWatched'
    BY <1>1, <1>2, <1>4 DEF TurnPlaces, EndsOnce, PendWatched
  <2> QED
    BY <1>2, <2>2, <2>3
<1>5. CASE p \in Turns
  <2>1. Return(p) = "over"
    BY <1>5 DEF Return
  <2>2. OnlyUser' /\ SubPlaces' /\ StatesInOrder'
    BY <1>1, <1>2, <1>5, <2>1 DEF OnlyUser, SubPlaces, StatesInOrder
  <2>3. TurnPlaces' /\ EndsOnce' /\ PendWatched'
    BY <1>1, <1>2, <1>5, <2>1 DEF TurnPlaces, EndsOnce, PendWatched
  <2> QED
    BY <1>2, <2>2, <2>3
<1> QED
  BY <1>3, <1>4, <1>5

LEMMA UserAborts ==
    ASSUME UserInv, AliveInv', AbortAllTasks
    PROVE  UserInv'
<1> USE ProcsContain DEF UserInv, AliveInv, TypeInv, TypeOK
<1>1. /\ pc[Sub] = "abort" /\ slot' = None /\ task' = None
      /\ mine' = [mine EXCEPT ![Sub] = slot] /\ victim' = [victim EXCEPT ![Sub] = task]
      /\ UNCHANGED <<pend, mailbox, carry, reason, closing, ends, asserted, lastState>>
  BY DEF AbortAllTasks, TakeActiveTurn, inputVars, subVars
<1>2. /\ cancelled' = cancelled \cup ({task} \ {None})
      /\ pc' = [pc EXCEPT ![Sub] = IF task # None THEN "grace"
                                   ELSE IF reason = "Replaced" THEN "start1" ELSE Return(Sub)]
  BY DEF AbortAllTasks, TakeActiveTurn, Go
<1>3. Return(Sub) = IF closing THEN "closed" ELSE "idle"
  BY DEF Return
<1>4. OnlyUser' /\ SubPlaces' /\ StatesInOrder'
  <2>1. OnlyUser'
    BY <1>1, <1>2 DEF OnlyUser
  <2>2. SubPlaces'
    BY <1>1, <1>2, <1>3 DEF SubPlaces
  <2>3. StatesInOrder'
    BY <1>1 DEF StatesInOrder, None
  <2> QED
    BY <2>1, <2>2, <2>3
<1>5. TurnPlaces'
  <2>1. \A n \in cancelled : pc[n] \notin {"running", "finishing"}
    BY <1>1 DEF TurnPlaces
  <2>2. task # None => pc[task] \in {"running", "finishing"}
    BY DEF ActiveTaskIsAlive
  <2> QED
    BY <1>1, <1>2, <2>1, <2>2 DEF TurnPlaces
<1>6. EndsOnce'
  <2>1. task # None => ends[task] = 0
    BY DEF ActiveTaskIsAlive, EndsOnce
  <2> QED
    BY <1>1, <1>2, <2>1 DEF EndsOnce
<1>7. PendWatched'
  BY <1>1, <1>2 DEF PendWatched
<1> QED
  BY <1>1, <1>4, <1>5, <1>6, <1>7

LEMMA UserKills ==
    ASSUME UserInv, AliveInv', HandleTaskAbort(Sub)
    PROVE  UserInv'
<1> USE ProcsContain DEF UserInv, AliveInv, TypeInv, TypeOK
<1> DEFINE v == victim[Sub]
<1>1. /\ pc[Sub] = "grace" /\ slot = None /\ task = None
      /\ v \in Turns /\ v \in cancelled /\ mine[Sub] \in States
  BY DEF HandleTaskAbort, SubPlaces, GraceHolds, VictimCancelled
<1>2. /\ ends' = [ends EXCEPT ![v] = @ + 1]
      /\ pend' = [pend EXCEPT ![mine[Sub]] = {}]
      /\ victim' = [victim EXCEPT ![Sub] = None] /\ mine' = [mine EXCEPT ![Sub] = None]
      /\ UNCHANGED <<slot, task, mailbox, carry, reason, closing, cancelled, asserted, lastState>>
  BY DEF HandleTaskAbort, slotVars, subVars
<1>3. \A q \in Procs : pc'[q] = IF q = Sub
                                THEN IF reason = "Interrupted" THEN "maybe" ELSE "start1"
                                ELSE IF q = v /\ pc[q] # "over" THEN "killed" ELSE pc[q]
  BY DEF HandleTaskAbort, Interrupted
<1>4. OnlyUser' /\ SubPlaces'
  BY <1>1, <1>2, <1>3 DEF OnlyUser, SubPlaces
<1>5. StatesInOrder'
  BY <1>2 DEF StatesInOrder, None
<1>6. TurnPlaces'
  BY <1>1, <1>2, <1>3 DEF TurnPlaces
<1>7. EndsOnce'
  <2>1. ends[v] = 0 /\ pc[v] \in {"running", "finishing", "over", "killed"}
    BY <1>1 DEF EndsOnce, TurnPlaces
  <2>2. pc'[v] \in {"over", "killed"} /\ ends'[v] = 1
    BY <1>1, <1>2, <1>3, <2>1
  <2>3. \A n \in Turns : n # v => ends'[n] = ends[n] /\ pc'[n] = pc[n]
    BY <1>1, <1>2, <1>3
  <2> QED
    BY <1>1, <1>2, <2>2, <2>3 DEF EndsOnce
<1>8. PendWatched'
  BY <1>1, <1>2 DEF PendWatched
<1> QED
  BY <1>2, <1>4, <1>5, <1>6, <1>7, <1>8

\* A turn that was not cancelled finishes what is in the slot, its own task; a
\* cancelled one finds the slot empty.
LEMMA UserFinishTakes ==
    ASSUME UserInv, AliveInv', NEW n \in Turns, FinishTake(n)
    PROVE  UserInv'
<1> USE ProcsContain DEF UserInv, AliveInv, TypeInv, TypeOK
<1> USE DEF slotVars, inputVars, procVars, subVars, turnVars, Go
<1>1. /\ pc[n] = "finishing"
      /\ UNCHANGED <<slot, mailbox, carry, victim, reason, closing, cancelled, ends,
                     asserted, lastState>>
  BY DEF FinishTake
<1>2. n \in cancelled <=> task = None
  <2>1. n \in cancelled => slot = None
    BY <1>1 DEF TurnPlaces, SubPlaces
  <2> QED
    BY <1>1, <2>1 DEF TurnPlaces
<1>3. CASE task = None
  <2>1. pc' = [pc EXCEPT ![n] = "over"] /\ UNCHANGED <<task, pend, mine>>
    BY <1>3 DEF FinishTake
  <2>2. OnlyUser' /\ SubPlaces' /\ StatesInOrder'
    BY <1>1, <2>1 DEF OnlyUser, SubPlaces, StatesInOrder
  <2>3. TurnPlaces' /\ EndsOnce' /\ PendWatched'
    BY <1>1, <1>2, <2>1 DEF TurnPlaces, EndsOnce, PendWatched
  <2> QED
    BY <1>1, <2>2, <2>3
<1>4. CASE task # None
  <2>1. task = n /\ n \notin cancelled /\ slot \in States
    BY <1>1, <1>2, <1>4 DEF TurnPlaces
  <2>2. /\ pc' = [pc EXCEPT ![n] = "event"] /\ task' = None
        /\ mine' = [mine EXCEPT ![n] = slot] /\ pend' = [pend EXCEPT ![slot] = {}]
    BY <1>4 DEF FinishTake
  <2>3. pc[Sub] \in {"idle", "abort"}
    BY <2>1 DEF SubPlaces
  <2>4. OnlyUser' /\ SubPlaces'
    BY <1>1, <2>2, <2>3 DEF OnlyUser, SubPlaces
  <2>5. StatesInOrder'
    BY <1>1, <2>2 DEF StatesInOrder
  <2>6. TurnPlaces'
    BY <1>1, <2>1, <2>2, <2>3 DEF TurnPlaces
  <2>7. EndsOnce'
    BY <1>1, <2>1, <2>2 DEF EndsOnce
  <2>8. PendWatched'
    BY <1>1, <2>1, <2>2, <2>3 DEF PendWatched
  <2> QED
    BY <1>1, <2>4, <2>5, <2>6, <2>7, <2>8
<1> QED
  BY <1>3, <1>4

LEMMA UserTurns ==
    ASSUME UserInv, AliveInv', NEW n \in Turns,
           EndRun(n) \/ FinishEvent(n) \/ FinishClear(n)
    PROVE  UserInv'
<1> USE ProcsContain DEF UserInv, AliveInv, TypeInv, TypeOK
<1> USE DEF slotVars, inputVars, procVars, subVars, turnVars, Go
<1>1. CASE EndRun(n)
  <2>1. /\ pc[n] = "running"
        /\ pc' = [pc EXCEPT ![n] = IF n \in cancelled THEN "over" ELSE "finishing"]
        /\ UNCHANGED <<slot, task, pend, mailbox, mine, carry, victim, reason, closing,
                       cancelled, ends, asserted, lastState>>
    BY <1>1 DEF EndRun
  <2>2. OnlyUser' /\ SubPlaces' /\ StatesInOrder'
    BY <2>1 DEF OnlyUser, SubPlaces, StatesInOrder
  <2>3. TurnPlaces'
    BY <2>1 DEF TurnPlaces
  <2>4. EndsOnce' /\ PendWatched'
    BY <2>1 DEF EndsOnce, PendWatched
  <2> QED
    BY <2>1, <2>2, <2>3, <2>4
<1>2. CASE FinishEvent(n)
  <2>1. /\ pc[n] = "event" /\ pc' = [pc EXCEPT ![n] = "clear"]
        /\ ends' = [ends EXCEPT ![n] = @ + 1]
        /\ UNCHANGED <<slot, task, pend, mailbox, mine, carry, victim, reason, closing,
                       cancelled, asserted, lastState>>
    BY <1>2 DEF FinishEvent
  <2>2. n \notin cancelled /\ victim[Sub] # n
    BY <2>1 DEF TurnPlaces, VictimCancelled
  <2>3. OnlyUser' /\ SubPlaces' /\ StatesInOrder'
    BY <2>1 DEF OnlyUser, SubPlaces, StatesInOrder
  <2>4. TurnPlaces' /\ PendWatched'
    BY <2>1, <2>2 DEF TurnPlaces, PendWatched
  <2>5. EndsOnce'
    BY <2>1, <2>2 DEF EndsOnce
  <2> QED
    BY <2>1, <2>3, <2>4, <2>5
<1>3. CASE FinishClear(n)
  <2>1. /\ pc[n] = "clear" /\ (slot' = slot \/ (slot' = None /\ slot = mine[n] /\ task = None))
        /\ \E l \in {"maybe", "over"} : pc' = [pc EXCEPT ![n] = l]
        /\ mine' = [mine EXCEPT ![n] = None]
        /\ UNCHANGED <<task, pend, mailbox, carry, victim, reason, closing, cancelled, ends,
                       asserted, lastState>>
    BY <1>3 DEF FinishClear
  <2>2. n \notin cancelled /\ pc'[Sub] = pc[Sub]
    BY <2>1 DEF TurnPlaces
  <2>3. OnlyUser' /\ SubPlaces'
    BY <2>1, <2>2 DEF OnlyUser, SubPlaces
  <2>4. StatesInOrder'
    BY <2>1 DEF StatesInOrder, None
  <2>5. TurnPlaces'
    BY <2>1, <2>2 DEF TurnPlaces
  <2>6. EndsOnce' /\ PendWatched'
    BY <2>1, <2>2 DEF EndsOnce, PendWatched
  <2> QED
    BY <2>1, <2>3, <2>4, <2>5, <2>6
<1> QED
  BY <1>1, <1>2, <1>3

\* Taking pending input empties the active turn's queue, delivering fills it;
\* both find a task in the slot.
LEMMA UserInputMoves ==
    ASSUME UserInv, AliveInv',
           \/ \E n \in Turns : Drain(n) \/ DeferMailbox(n) \/ AcceptMailbox(n)
           \/ \E i \in Inputs : UserInputSteered(i) \/ SteerRpc(i)
    PROVE  UserInv'
<1> USE ProcsContain DEF UserInv, AliveInv, TypeInv, TypeOK
<1> USE DEF slotVars, inputVars, procVars, subVars, turnVars
<1>1. UNCHANGED <<slot, task, pc, mine, carry, victim, reason, closing, cancelled, ends,
                  asserted, lastState>>
  BY DEF Drain, DeferMailbox, AcceptMailbox, UserInputSteered, SteerRpc
<1>2. mailbox' = {}
  BY DEF Drain, DeferMailbox, AcceptMailbox, UserInputSteered, SteerRpc, TakePendingInput, OnlyUser
<1>3. \A s \in States : pend'[s] # {} => pend[s] # {} \/ (s = slot /\ task # None)
  BY DEF Drain, DeferMailbox, AcceptMailbox, UserInputSteered, SteerRpc, TakePendingInput,
         Deliver, CanSteer
<1> QED
  BY <1>1, <1>2, <1>3, UserStays

LEMMA UserStepHolds ==
    ASSUME Features \subseteq UserFeatures
    PROVE  UserInv /\ [Next]_vars => UserInv'
<1> SUFFICES ASSUME UserInv, [Next]_vars PROVE UserInv'
  OBVIOUS
<1>1. AliveInv'
  BY AliveStep DEF UserInv
<1>2. CASE UNCHANGED vars
  BY <1>1, <1>2, UserStays
     DEF vars, slotVars, inputVars, procVars, subVars, turnVars, UserInv, OnlyUser
<1>3. CASE Next
  <2>1. UserStep
    BY <1>3, UserSteps
  <2>2. ASSUME \/ \E i \in Inputs : UserInputStarts(i)
               \/ \E regular \in BOOLEAN : Command(regular)
               \/ Interrupt \/ Shutdown
        PROVE  UserInv'
    <3>1. /\ pc[Sub] = "idle" /\ pc' = [pc EXCEPT ![Sub] = "abort"]
          /\ UNCHANGED <<slot, task, pend, mailbox, mine, carry, victim, cancelled, ends,
                         asserted, lastState>>
      BY <2>2 DEF UserInputStarts, Command, Interrupt, Shutdown, Submit, Go, slotVars, inputVars,
                  turnVars
    <3>2. ~ closing
      BY <3>1 DEF UserInv, SubPlaces
    <3>3. closing' => reason' = "Interrupted"
      BY <2>2, <3>2 DEF UserInputStarts, Command, Interrupt, Shutdown
    <3> QED
      BY <1>1, <3>1, <3>3, UserSubmits
  <2> QED
    BY <1>1, <2>1, <2>2, UserStarts, UserInstalls, UserMaybe, UserAborts, UserKills, UserFinishTakes,
       UserTurns, UserInputMoves
       DEF UserStep, Finishing
<1> QED
  BY <1>2, <1>3

LEMMA UserInvHolds ==
    ASSUME Features \subseteq UserFeatures
    PROVE  Spec => []UserInv
BY UserInit, UserStepHolds, PTL DEF Spec

\* In a session driven by its user, whatever the interleaving of its
\* operations with the turns they start: start_task never finds a task in the
\* slot, so its debug_asserts cannot fail.
THEOREM UserStartFindsNoTask ==
    ASSUME Features \subseteq UserFeatures
    PROVE  Spec => []StartFindsNoTask
<1>1. UserInv => StartFindsNoTask
  BY DEF UserInv, StartFindsNoTask
<1> QED
  BY <1>1, UserInvHolds, PTL

\* ... each turn is reported over at most once, by itself or by who aborts it.
THEOREM UserAtMostOneTerminal ==
    ASSUME Features \subseteq UserFeatures
    PROVE  Spec => []AtMostOneTerminal
<1>1. UserInv => AtMostOneTerminal
  BY DEF UserInv, AtMostOneTerminal, EndsOnce
<1> QED
  BY <1>1, UserInvHolds, PTL

\* ... a turn that runs and was not cancelled is the one in the slot, within
\* reach of the next interrupt.
THEOREM UserRunningTurnIsActive ==
    ASSUME Features \subseteq UserFeatures
    PROVE  Spec => []RunningTurnIsActive
<1>1. UserInv => RunningTurnIsActive
  BY DEF UserInv, RunningTurnIsActive, TurnPlaces
<1> QED
  BY <1>1, UserInvHolds, PTL

\* ... and no message of the user is forgotten in a turn state that nobody
\* looks into any more.
THEOREM UserNothingLost ==
    ASSUME Features \subseteq UserFeatures
    PROVE  Spec => []NothingLost
<1>1. ASSUME UserInv PROVE NothingLost
  <2> USE ProcsContain DEF UserInv, AliveInv, TypeInv, TypeOK
  <2>1. \A s \in States : pend[s] # {} => s \in Watched \ {None}
    BY <1>1 DEF PendWatched, Watched
  <2>2. UNION {pend[s] : s \in States} \subseteq UNION {pend[s] : s \in Watched \ {None}}
    BY <2>1
  <2>3. Watched \ {None} \subseteq States
    BY <1>1 DEF Watched
  <2>4. UNION {pend[s] : s \in Watched \ {None}} \subseteq UNION {pend[s] : s \in States}
    BY <2>3
  <2>5. UNION {carry[p] : p \in Procs} = UNION {carry[p] : p \in {q \in Procs : pc[q] # "killed"}}
    BY <1>1 DEF OnlyUser
  <2> QED
    BY <2>2, <2>4, <2>5 DEF NothingLost, Sent
<1> QED
  BY <1>1, UserInvHolds, PTL

----------------------------------------------------------------------------
(* A session driven by mail and idle work                                  *)

\* Mail of other agents, extensions that start idle turns, steering.
IdleFeatures == {"mail", "steer", "idlework", "defer", "sleep"}

\* The processes that own the slot: a starter that reserved it, a turn that
\* has not yet given it back.
HoldPCs == {"start1", "start2", "start3", "recheck", "confirm", "running", "finishing",
            "event", "clear"}

Holds(p) == pc[p] \in HoldPCs

\* Nobody aborts and nothing is shut down.
NoAborts ==
    /\ cancelled = {} /\ ~ closing /\ victim[Sub] = None
    /\ pc[Sub] \in {"idle", "maybe", "reserve", "start1", "start2", "start3"}
    /\ pc[Ext] \in {"idle", "recheck", "confirm", "maybe", "reserve", "start1", "start2",
                    "start3"}
    /\ pc[Guard] = "idle"
    /\ \A n \in Turns : pc[n] \in {"absent", "running", "finishing", "event", "clear", "maybe",
                                   "reserve", "start1", "start2", "start3", "over"}

OneHolder == \A p, q \in Procs : Holds(p) /\ Holds(q) => p = q

SlotHeld == slot # None <=> \E p \in Procs : Holds(p)

\* The holder knows the state in the slot, and a working turn is in it.
HolderKnows ==
    /\ pc[Ext] \in {"recheck", "confirm"} => mine[Ext] = slot
    /\ \A n \in Turns : /\ pc[n] \in {"event", "clear"} => mine[n] = slot
                        /\ pc[n] \in {"running", "finishing"} => task = n

HolderInv == /\ AliveInv /\ ~ asserted /\ NoAborts /\ OneHolder /\ SlotHeld
             /\ HolderKnows /\ EndsOnce

LEMMA HolderInit == Init => HolderInv
<1> SUFFICES ASSUME Init PROVE HolderInv
  OBVIOUS
<1> USE ProcsContain DEF Init
<1>1. \A p \in Procs : ~ Holds(p)
  BY DEF Holds, HoldPCs
<1>2. OneHolder /\ SlotHeld
  BY <1>1 DEF OneHolder, SlotHeld
<1>3. ~ asserted /\ NoAborts /\ HolderKnows /\ EndsOnce
  BY DEF NoAborts, HolderKnows, EndsOnce
<1> QED
  BY <1>2, <1>3, AliveInit DEF HolderInv

IdleStep ==
    \/ \E p \in Procs : Starting(p)
    \/ \E n \in Turns : \/ Drain(n) \/ DeferMailbox(n) \/ AcceptMailbox(n) \/ EndRun(n)
                        \/ Finishing(n)
    \/ IdleWork \/ IdleReserve
    \/ \E m \in Triggers \cup Mails : Communicate(m)
    \/ \E i \in Inputs : SteerRpc(i)
    \/ \E i \in Injects : Inject(i)

LEMMA IdleSteps ==
    ASSUME Features \subseteq IdleFeatures \cup {"inject"}, HolderInv, Next
    PROVE  IdleStep
<1>1. ~ Aborting
  BY DEF HolderInv, NoAborts, Aborting, AbortAllTasks, HandleTaskAbort
<1>2. /\ \A i \in Inputs : ~ UserInputSteered(i) /\ ~ UserInputStarts(i)
      /\ \A regular \in BOOLEAN : ~ Command(regular)
      /\ ~ Interrupt /\ ~ Shutdown
      /\ \A n \in Turns : ~ AbortTurnIfActive(n)
  BY DEF IdleFeatures, UserInputSteered, UserInputStarts, Command, Interrupt, Shutdown,
         Submit, AbortTurnIfActive
<1> QED
  BY <1>1, <1>2 DEF Next, Submission, Outside, IdleStep

\* A process moves and neither takes nor gives the slot...
LEMMA HoldKeeps ==
    ASSUME HolderInv, NEW p \in Procs, NEW l, pc' = [pc EXCEPT ![p] = l], slot' = slot,
           pc[p] \in HoldPCs <=> l \in HoldPCs
    PROVE  OneHolder' /\ SlotHeld'
<1>1. \A q \in Procs : Holds(q)' <=> Holds(q)
  BY DEF HolderInv, AliveInv, TypeInv, TypeOK, Holds
<1> QED
  BY <1>1 DEF HolderInv, OneHolder, SlotHeld

\* ... takes it when it is free ...
LEMMA HoldTakes ==
    ASSUME HolderInv, NEW p \in Procs, NEW l \in HoldPCs, pc' = [pc EXCEPT ![p] = l],
           slot = None, slot' # None
    PROVE  OneHolder' /\ SlotHeld'
<1>1. \A q \in Procs : Holds(q)' <=> q = p
  BY DEF HolderInv, AliveInv, TypeInv, TypeOK, Holds, SlotHeld
<1> QED
  BY <1>1 DEF OneHolder, SlotHeld

\* ... or gives back the slot that it holds.
LEMMA HoldGives ==
    ASSUME HolderInv, NEW p \in Procs, Holds(p), NEW l, l \notin HoldPCs,
           pc' = [pc EXCEPT ![p] = l], slot' = None
    PROVE  OneHolder' /\ SlotHeld'
<1>1. \A q \in Procs : ~ Holds(q)'
  BY DEF HolderInv, AliveInv, TypeInv, TypeOK, Holds, OneHolder
<1> QED
  BY <1>1 DEF OneHolder, SlotHeld

\* Only the working turn has a task in the slot: whoever else holds the slot
\* finds none.
LEMMA HolderTask ==
    ASSUME HolderInv, NEW p \in Procs, Holds(p), pc[p] \notin {"running", "finishing"}
    PROVE  slot \in States /\ task = None
<1> USE ProcsContain DEF HolderInv, AliveInv, TypeInv, TypeOK
<1>1. slot \in States
  BY DEF SlotHeld
<1>2. task # None => Holds(task)
  BY DEF ActiveTaskIsAlive, Holds, HoldPCs
<1>3. task # None => task = p
  BY <1>2 DEF OneHolder
<1> QED
  BY <1>1, <1>3 DEF ActiveTaskIsAlive

\* A step that moves no process leaves the owner of the slot.
LEMMA HolderStays ==
    ASSUME HolderInv, AliveInv',
           UNCHANGED <<slot, task, pc, mine, victim, closing, cancelled, ends, asserted>>
    PROVE  HolderInv'
BY DEF HolderInv, NoAborts, OneHolder, SlotHeld, HolderKnows, EndsOnce, Holds

LEMMA HolderDrains ==
    ASSUME HolderInv, AliveInv', NEW p \in Procs, StartTaskDrain(p) \/ StartTaskExtend(p)
    PROVE  HolderInv'
<1> USE ProcsContain DEF HolderInv, AliveInv, TypeInv, TypeOK
<1> USE DEF slotVars, inputVars, procVars, subVars, turnVars, Go
<1>1. Holds(p) /\ pc[p] \in {"start1", "start2"}
  BY DEF StartTaskDrain, StartTaskExtend, Holds, HoldPCs
<1>2. slot \in States /\ task = None
  BY <1>1, HolderTask
<1>3. /\ \E l \in {"start2", "start3"} : pc' = [pc EXCEPT ![p] = l]
      /\ UNCHANGED <<slot, task, mine, victim, closing, cancelled, ends, asserted>>
  BY <1>2 DEF StartTaskDrain, StartTaskExtend, GetOrInsert
<1>4. OneHolder' /\ SlotHeld'
  BY <1>1, <1>3, HoldKeeps DEF HoldPCs
<1>5. NoAborts'
  BY <1>1, <1>3 DEF NoAborts, Procs
<1>6. HolderKnows' /\ EndsOnce'
  BY <1>1, <1>3 DEF HolderKnows, EndsOnce
<1> QED
  BY <1>3, <1>4, <1>5, <1>6

LEMMA HolderMaybe ==
    ASSUME HolderInv, AliveInv', NEW p \in Procs, MaybeStart(p) \/ Reserve(p)
    PROVE  HolderInv'
<1> USE ProcsContain DEF HolderInv, AliveInv, TypeInv, TypeOK
<1> USE DEF slotVars, inputVars, procVars, subVars, turnVars, Go
<1>1. /\ pc[p] \in {"maybe", "reserve"} /\ ~ Holds(p)
      /\ UNCHANGED <<task, mine, victim, closing, cancelled, ends, asserted>>
  BY DEF MaybeStart, Reserve, Holds, HoldPCs
<1>2. p \in Turns \/ p \in {Sub, Ext}
  BY <1>1 DEF NoAborts, Procs
<1>3. Return(p) = IF p \in Turns THEN "over" ELSE "idle"
  BY DEF Return, NoAborts
<1>4. PICK l \in {"reserve", "start1", Return(p)} : pc' = [pc EXCEPT ![p] = l]
  BY DEF MaybeStart, Reserve
<1>5. OneHolder' /\ SlotHeld'
  <2>1. CASE l = "start1" /\ slot = None
    <3>1. pc'[p] = "start1"
      BY <1>4, <2>1
    <3>2. Reserve(p)
      BY <1>1, <1>3, <3>1 DEF MaybeStart
    <3>3. slot' \in States
      BY <3>2, GetOrInsertType DEF Reserve
    <3> QED
      BY <1>4, <2>1, <3>3, HoldTakes DEF HoldPCs
  <2>2. CASE l # "start1"
    <3>1. slot' = slot
      BY <1>4, <2>2 DEF MaybeStart, Reserve, GetOrInsert
    <3> QED
      BY <1>1, <1>3, <1>4, <2>2, <3>1, HoldKeeps DEF Holds, HoldPCs
  <2>3. l = "start1" => slot = None
    BY <1>1, <1>3, <1>4 DEF MaybeStart, Reserve
  <2> QED
    BY <2>1, <2>2, <2>3
<1>6. NoAborts'
  BY <1>1, <1>2, <1>3, <1>4 DEF NoAborts
<1>7. EndsOnce'
  BY <1>1, <1>3, <1>4 DEF EndsOnce
<1>8. HolderKnows'
  <2>1. slot # None => slot' = slot
    BY DEF MaybeStart, Reserve, GetOrInsert
  <2>2. \A q \in Procs : Holds(q) => slot # None
    BY DEF SlotHeld
  <2> QED
    BY <1>1, <1>3, <1>4, <2>1, <2>2 DEF HolderKnows, Holds, HoldPCs
<1> QED
  BY <1>1, <1>5, <1>6, <1>7, <1>8

LEMMA HolderInstalls ==
    ASSUME HolderInv, AliveInv', NEW p \in Procs, StartTaskInstall(p)
    PROVE  HolderInv'
<1> USE ProcsContain DEF HolderInv, AliveInv, TypeInv, TypeOK
<1> DEFINE new == lastTurn + 1
<1>1. Holds(p) /\ pc[p] = "start3"
  BY DEF StartTaskInstall, Holds, HoldPCs
<1>2. slot \in States /\ task = None
  BY <1>1, HolderTask
<1>3. /\ new \in Turns /\ task' = new /\ ~ asserted'
      /\ UNCHANGED <<slot, mine, victim, closing, cancelled, ends>>
  BY <1>2, BoundsAssumption DEF StartTaskInstall, GetOrInsert, Turns
<1>4. pc[new] = "absent" /\ new # p
  BY <1>1, <1>3 DEF TurnsInOrder, Turns
<1>5. Return(p) = IF p \in Turns THEN "over" ELSE "idle"
  BY DEF Return, NoAborts
<1>6. \A q \in Procs : pc'[q] = IF q = p THEN Return(p) ELSE IF q = new THEN "running" ELSE pc[q]
  <2>1. \A q \in Procs : q # task
    BY <1>2 DEF Procs, None, Sub, Ext, Guard, Turns
  <2> QED
    BY <1>3, <2>1 DEF StartTaskInstall
<1>7. \A q \in Procs : Holds(q)' <=> q = new
  BY <1>1, <1>3, <1>4, <1>5, <1>6 DEF Holds, HoldPCs, OneHolder
<1>8. OneHolder' /\ SlotHeld'
  BY <1>2, <1>3, <1>7 DEF OneHolder, SlotHeld
<1>9. NoAborts'
  BY <1>1, <1>3, <1>5, <1>6 DEF NoAborts
<1>10. EndsOnce'
  BY <1>3, <1>4, <1>5, <1>6 DEF EndsOnce
<1>11. HolderKnows'
  <2>1. \A q \in Procs : q # new => pc'[q] \notin HoldPCs
    BY <1>7 DEF Holds
  <2> QED
    BY <1>3, <1>4, <1>6, <2>1 DEF HolderKnows, HoldPCs
<1> QED
  BY <1>3, <1>8, <1>9, <1>10, <1>11

LEMMA HolderTurns ==
    ASSUME HolderInv, AliveInv', NEW n \in Turns, EndRun(n) \/ Finishing(n)
    PROVE  HolderInv'
<1> USE ProcsContain DEF HolderInv, AliveInv, TypeInv, TypeOK
<1> USE DEF slotVars, inputVars, procVars, subVars, turnVars, Go
<1>1. UNCHANGED <<victim, closing, cancelled, asserted>>
  BY DEF EndRun, Finishing, FinishTake, FinishEvent, FinishClear
<1>2. CASE EndRun(n)
  <2>1. /\ pc[n] = "running" /\ pc' = [pc EXCEPT ![n] = "finishing"]
        /\ UNCHANGED <<slot, task, mine, ends>>
    BY <1>2 DEF EndRun, NoAborts
  <2>2. OneHolder' /\ SlotHeld'
    BY <2>1, HoldKeeps DEF HoldPCs
  <2>3. NoAborts' /\ HolderKnows' /\ EndsOnce'
    BY <1>1, <2>1 DEF NoAborts, HolderKnows, EndsOnce
  <2> QED
    BY <1>1, <2>2, <2>3
<1>3. CASE FinishTake(n)
  <2>1. /\ pc[n] = "finishing" /\ task = n /\ slot \in States
    BY <1>3 DEF FinishTake, HolderKnows
  <2>2. /\ pc' = [pc EXCEPT ![n] = "event"] /\ task' = None
        /\ mine' = [mine EXCEPT ![n] = slot] /\ UNCHANGED <<slot, ends>>
    BY <1>3, <2>1 DEF FinishTake
  <2>3. OneHolder' /\ SlotHeld'
    BY <2>1, <2>2, HoldKeeps DEF HoldPCs
  <2>4. NoAborts' /\ EndsOnce'
    BY <1>1, <2>1, <2>2 DEF NoAborts, EndsOnce
  <2>5. HolderKnows'
    BY <2>1, <2>2 DEF HolderKnows
  <2> QED
    BY <1>1, <2>3, <2>4, <2>5
<1>4. CASE FinishEvent(n)
  <2>1. /\ pc[n] = "event" /\ pc' = [pc EXCEPT ![n] = "clear"]
        /\ ends' = [ends EXCEPT ![n] = @ + 1] /\ UNCHANGED <<slot, task, mine>>
    BY <1>4 DEF FinishEvent
  <2>2. OneHolder' /\ SlotHeld'
    BY <2>1, HoldKeeps DEF HoldPCs
  <2>3. NoAborts' /\ HolderKnows'
    BY <1>1, <2>1 DEF NoAborts, HolderKnows
  <2>4. EndsOnce'
    BY <1>1, <2>1 DEF EndsOnce, NoAborts
  <2> QED
    BY <1>1, <2>2, <2>3, <2>4
<1>5. CASE FinishClear(n)
  <2>1. pc[n] = "clear" /\ Holds(n)
    BY <1>5 DEF FinishClear, Holds, HoldPCs
  <2>2. slot = mine[n] /\ task = None
    BY <2>1, HolderTask DEF HolderKnows
  <2>3. /\ pc' = [pc EXCEPT ![n] = "maybe"] /\ slot' = None
        /\ mine' = [mine EXCEPT ![n] = None] /\ UNCHANGED <<task, ends>>
    BY <1>5, <2>2 DEF FinishClear
  <2>4. OneHolder' /\ SlotHeld'
    BY <2>1, <2>3, HoldGives DEF HoldPCs
  <2>5. NoAborts' /\ EndsOnce'
    BY <1>1, <2>1, <2>3 DEF NoAborts, EndsOnce
  <2>6. HolderKnows'
    <3>1. \A q \in Procs : q # n => ~ Holds(q)
      BY <2>1 DEF OneHolder
    <3> QED
      BY <2>1, <2>3, <3>1 DEF HolderKnows, Holds, HoldPCs
  <2> QED
    BY <1>1, <2>4, <2>5, <2>6
<1> QED
  BY <1>2, <1>3, <1>4, <1>5 DEF Finishing

LEMMA HolderIdleWork ==
    ASSUME HolderInv, AliveInv', IdleWork \/ IdleReserve
    PROVE  HolderInv'
<1> USE ProcsContain DEF HolderInv, AliveInv, TypeInv, TypeOK
<1> USE DEF slotVars, inputVars, procVars, subVars, turnVars, Go
<1>1. UNCHANGED <<task, victim, closing, cancelled, ends, asserted>>
  BY DEF IdleWork, IdleReserve, IdleRecheck, IdleConfirm
<1>2. CASE IdleReserve
  <2>1. /\ pc[Ext] = "idle" /\ slot = None /\ slot' \in States
        /\ pc' = [pc EXCEPT ![Ext] = "recheck"] /\ mine' = [mine EXCEPT ![Ext] = slot']
    BY <1>2, GetOrInsertType DEF IdleReserve
  <2>2. OneHolder' /\ SlotHeld'
    BY <2>1, HoldTakes DEF HoldPCs
  <2>3. NoAborts' /\ EndsOnce'
    BY <1>1, <2>1 DEF NoAborts, EndsOnce
  <2>4. HolderKnows'
    <3>1. \A q \in Procs : ~ Holds(q)
      BY <2>1 DEF SlotHeld
    <3> QED
      BY <2>1, <3>1 DEF HolderKnows, Holds, HoldPCs
  <2> QED
    BY <1>1, <2>2, <2>3, <2>4
<1>3. CASE IdleWork
  <2>1. pc[Ext] \in {"recheck", "confirm"} /\ Holds(Ext)
    BY <1>3 DEF IdleWork, IdleRecheck, IdleConfirm, Holds, HoldPCs
  <2>2. StillReserved /\ slot \in States /\ task = None
    BY <2>1, HolderTask DEF HolderKnows, StillReserved
  <2>3. \A q \in Procs : q # Ext => ~ Holds(q)
    BY <2>1 DEF OneHolder
  <2>4. \/ /\ pc' = [pc EXCEPT ![Ext] = "maybe"] /\ slot' = None
           /\ mine' = [mine EXCEPT ![Ext] = None]
        \/ /\ pc[Ext] = "recheck" /\ pc' = [pc EXCEPT ![Ext] = "confirm"] /\ slot' = slot
           /\ mine' = mine
        \/ /\ pc' = [pc EXCEPT ![Ext] = "start1"] /\ slot' = slot
           /\ mine' = [mine EXCEPT ![Ext] = None]
    BY <1>3, <2>2 DEF IdleWork, IdleRecheck, IdleConfirm
  <2>5. OneHolder' /\ SlotHeld'
    BY <2>1, <2>4, HoldGives, HoldKeeps DEF HoldPCs
  <2>6. NoAborts' /\ EndsOnce'
    BY <1>1, <2>4 DEF NoAborts, EndsOnce
  <2>7. HolderKnows'
    BY <1>1, <2>1, <2>3, <2>4 DEF HolderKnows, Holds, HoldPCs
  <2> QED
    BY <1>1, <2>5, <2>6, <2>7
<1> QED
  BY <1>2, <1>3

LEMMA HolderMail ==
    ASSUME HolderInv, AliveInv', NEW m \in Triggers \cup Mails, Communicate(m)
    PROVE  HolderInv'
<1> USE ProcsContain DEF HolderInv, AliveInv, TypeInv, TypeOK
<1>1. /\ pc[Sub] = "idle" /\ \E l \in {"maybe", "idle"} : pc' = [pc EXCEPT ![Sub] = l]
      /\ UNCHANGED <<slot, task, mine, victim, closing, cancelled, ends, asserted>>
  BY DEF Communicate, Submit, Go, slotVars, turnVars
<1>2. OneHolder' /\ SlotHeld'
  BY <1>1, HoldKeeps DEF HoldPCs
<1>3. NoAborts' /\ HolderKnows' /\ EndsOnce'
  BY <1>1 DEF NoAborts, HolderKnows, EndsOnce
<1> QED
  BY <1>1, <1>2, <1>3

LEMMA HolderStepHolds ==
    ASSUME Features \subseteq IdleFeatures \cup {"inject"}
    PROVE  HolderInv /\ [Next]_vars => HolderInv'
<1> SUFFICES ASSUME HolderInv, [Next]_vars PROVE HolderInv'
  OBVIOUS
<1>1. AliveInv'
  BY AliveStep DEF HolderInv
<1>2. CASE UNCHANGED vars
  BY <1>1, <1>2, HolderStays DEF vars, slotVars, inputVars, procVars, subVars, turnVars
<1>3. CASE Next
  <2>1. IdleStep
    BY <1>3, IdleSteps
  <2>2. ASSUME \/ \E n \in Turns : Drain(n) \/ DeferMailbox(n) \/ AcceptMailbox(n)
               \/ \E i \in Inputs : SteerRpc(i)
               \/ \E i \in Injects : Inject(i)
        PROVE  HolderInv'
    <3>1. UNCHANGED <<slot, task, pc, mine, victim, closing, cancelled, ends, asserted>>
      BY <2>2 DEF Drain, DeferMailbox, AcceptMailbox, SteerRpc, Inject, slotVars, procVars,
                  subVars, turnVars
    <3> QED
      BY <1>1, <3>1, HolderStays
  <2> QED
    BY <1>1, <2>1, <2>2, HolderDrains, HolderMaybe, HolderInstalls, HolderTurns, HolderIdleWork,
       HolderMail
       DEF IdleStep, Starting
<1> QED
  BY <1>2, <1>3

\* What is taken from the queues is put into the slot, and nothing waits in a
\* slot that is about to be given back.
PendHeld ==
    /\ \A p \in Procs : carry[p] # {} => pc[p] = "start2"
    /\ \A s \in States : s # slot => pend[s] = {}
    /\ \A p \in Procs : /\ pc[p] \in {"recheck", "event", "clear"}
                        /\ slot \in States
                        => pend[slot] = {}

IdleInv == HolderInv /\ PendHeld

LEMMA IdleInit == Init => IdleInv
BY HolderInit, ProcsContain DEF Init, IdleInv, PendHeld

\* A step of p that leaves the queues alone: p carries nothing, and is not
\* about to give back a slot in which something waits.
LEMMA PendFrame ==
    ASSUME IdleInv, UNCHANGED <<pend, carry>>, NEW p \in Procs, carry[p] = {},
           \A q \in Procs : q # p => pc'[q] = pc[q] \/ (carry[q] = {} /\ pc'[q] = "running"),
           slot = slot' \/ slot = None \/ pend[slot] = {},
           pc'[p] \in {"recheck", "event", "clear"} =>
               pc[p] \in {"recheck", "event", "clear"} \/ slot # slot'
    PROVE  PendHeld'
<1> USE ProcsContain DEF IdleInv, HolderInv, AliveInv, TypeInv, TypeOK
<1>1. \A s \in States : s # slot' => pend[s] = {}
  BY DEF PendHeld
<1>2. \A q \in Procs : carry[q] # {} => pc'[q] = "start2"
  BY DEF PendHeld
<1>3. ASSUME NEW q \in Procs, pc'[q] \in {"recheck", "event", "clear"}, slot' \in States
      PROVE  pend[slot'] = {}
  <2>1. CASE slot' = slot
    BY <1>3, <2>1 DEF PendHeld
  <2>2. CASE slot' # slot
    BY <1>3, <2>2 DEF PendHeld
  <2> QED
    BY <2>1, <2>2
<1> QED
  BY <1>1, <1>2, <1>3 DEF PendHeld

LEMMA PendStarts ==
    ASSUME IdleInv, HolderInv', NEW p \in Procs, Starting(p)
    PROVE  PendHeld'
<1> USE ProcsContain DEF IdleInv, HolderInv, AliveInv, TypeInv, TypeOK
<1> USE DEF slotVars, inputVars, procVars, subVars, turnVars, Go
<1>1. CASE StartTaskDrain(p) \/ StartTaskExtend(p)
  <2>1. Holds(p) /\ pc[p] \in {"start1", "start2"}
    BY <1>1 DEF StartTaskDrain, StartTaskExtend, Holds, HoldPCs
  <2>2. slot \in States /\ slot' = slot
    BY <1>1, <2>1, HolderTask DEF StartTaskDrain, StartTaskExtend, GetOrInsert
  <2>3. \A q \in Procs : q # p => ~ Holds(q)
    BY <2>1 DEF OneHolder
  <2>4. \A q \in Procs : q # p => pc'[q] = pc[q] /\ carry'[q] = carry[q]
    BY <1>1 DEF StartTaskDrain, StartTaskExtend
  <2>5. pc'[p] = "start2" \/ (pc'[p] = "start3" /\ carry'[p] = {})
    BY <1>1 DEF StartTaskDrain, StartTaskExtend
  <2>6. \A s \in States : s # slot' => pend'[s] = {}
    BY <1>1, <2>2 DEF StartTaskDrain, StartTaskExtend, TakePendingInput, PendHeld
  <2>7. \A q \in Procs : pc'[q] \notin {"recheck", "event", "clear"}
    BY <2>3, <2>4, <2>5 DEF Holds, HoldPCs
  <2> QED
    BY <2>4, <2>5, <2>6, <2>7 DEF PendHeld
<1>2. CASE StartTaskInstall(p)
  <2>1. Holds(p) /\ pc[p] = "start3" /\ lastTurn + 1 \in Turns
    BY <1>2, BoundsAssumption DEF StartTaskInstall, Holds, HoldPCs, Turns
  <2>2. slot \in States /\ task = None /\ slot' = slot
    BY <1>2, <2>1, HolderTask DEF StartTaskInstall, GetOrInsert
  <2>3. carry[lastTurn + 1] = {} /\ carry[p] = {}
    <3>1. pc[lastTurn + 1] = "absent"
      BY <2>1 DEF TurnsInOrder, Turns
    <3> QED
      BY <2>1, <3>1 DEF PendHeld
  <2>4. /\ UNCHANGED <<pend, carry>>
        /\ \A q \in Procs : q # p => pc'[q] = pc[q] \/ (carry[q] = {} /\ pc'[q] = "running")
    <3>1. \A q \in Procs : q # task
      BY <2>2 DEF Procs, None, Sub, Ext, Guard, Turns
    <3> QED
      BY <1>2, <2>3, <3>1 DEF StartTaskInstall
  <2>5. pc'[p] \notin {"recheck", "event", "clear"}
    BY <1>2 DEF StartTaskInstall, Return
  <2> QED
    BY <2>2, <2>3, <2>4, <2>5, PendFrame
<1>3. CASE MaybeStart(p) \/ Reserve(p)
  <2>1. /\ pc[p] \in {"maybe", "reserve"} /\ UNCHANGED <<pend, carry>>
        /\ \A q \in Procs : q # p => pc'[q] = pc[q]
    BY <1>3 DEF MaybeStart, Reserve
  <2>2. slot = slot' \/ slot = None
    BY <1>3 DEF MaybeStart, Reserve, GetOrInsert
  <2>3. pc'[p] \notin {"recheck", "event", "clear"}
    BY <1>3 DEF MaybeStart, Reserve, Return
  <2>4. carry[p] = {}
    BY <2>1 DEF PendHeld
  <2> QED
    BY <2>1, <2>2, <2>3, <2>4, PendFrame
<1> QED
  BY <1>1, <1>2, <1>3 DEF Starting

LEMMA PendTurns ==
    ASSUME IdleInv, HolderInv', NEW n \in Turns, EndRun(n) \/ Finishing(n)
    PROVE  PendHeld'
<1> USE ProcsContain DEF IdleInv, HolderInv, AliveInv, TypeInv, TypeOK
<1> USE DEF slotVars, inputVars, procVars, subVars, turnVars, Go
<1>1. /\ pc[n] \in {"running", "finishing", "event", "clear"} /\ carry' = carry
      /\ \A q \in Procs : q # n => pc'[q] = pc[q]
  BY DEF EndRun, Finishing, FinishTake, FinishEvent, FinishClear
<1>2. carry[n] = {}
  BY <1>1 DEF PendHeld
<1>3. CASE EndRun(n)
  <2>1. UNCHANGED <<slot, pend>> /\ pc'[n] \in {"over", "finishing"}
    BY <1>3 DEF EndRun
  <2> QED
    BY <1>1, <1>2, <2>1, PendFrame
<1>4. CASE FinishTake(n)
  <2>1. task = n /\ slot \in States
    BY <1>4 DEF FinishTake, HolderKnows
  <2>2. slot' = slot /\ pend' = [pend EXCEPT ![slot] = {}]
    BY <1>4, <2>1 DEF FinishTake
  <2>3. \A s \in States : pend'[s] = {}
    BY <2>1, <2>2 DEF PendHeld
  <2> QED
    BY <1>1, <1>2, <2>3 DEF PendHeld
<1>5. CASE FinishEvent(n)
  <2>1. UNCHANGED <<slot, pend>> /\ pc[n] = "event"
    BY <1>5 DEF FinishEvent
  <2> QED
    BY <1>1, <1>2, <2>1, PendFrame
<1>6. CASE FinishClear(n)
  <2>1. pend' = pend /\ pc[n] = "clear" /\ (slot' = slot \/ slot' = None)
        /\ pc'[n] \in {"maybe", "over"}
    BY <1>6 DEF FinishClear
  <2>2. slot = None \/ pend[slot] = {}
    BY <2>1 DEF PendHeld
  <2> QED
    BY <1>1, <1>2, <2>1, <2>2, PendFrame
<1> QED
  BY <1>3, <1>4, <1>5, <1>6 DEF Finishing

LEMMA PendIdleWork ==
    ASSUME IdleInv, HolderInv', IdleWork \/ IdleReserve
    PROVE  PendHeld'
<1> USE ProcsContain DEF IdleInv, HolderInv, AliveInv, TypeInv, TypeOK
<1> USE DEF slotVars, inputVars, procVars, subVars, turnVars, Go
<1>1. /\ pc[Ext] \in {"idle", "recheck", "confirm"} /\ carry' = carry
      /\ \A q \in Procs : q # Ext => pc'[q] = pc[q]
  BY DEF IdleWork, IdleReserve, IdleRecheck, IdleConfirm
<1>2. carry[Ext] = {}
  BY <1>1 DEF PendHeld
<1>3. CASE IdleReserve
  <2>1. slot = None /\ slot' \in States /\ pend' = pend
    BY <1>3, GetOrInsertType DEF IdleReserve
  <2> QED
    BY <1>1, <1>2, <2>1, PendFrame
<1>4. ASSUME NEW plan \in BOOLEAN, IdleRecheck(plan) PROVE PendHeld'
  <2>1. /\ pend' = pend /\ pc[Ext] = "recheck" /\ (slot' = slot \/ slot' = None)
        /\ pc'[Ext] \in {"maybe", "confirm"}
    BY <1>4 DEF IdleRecheck
  <2>2. slot = None \/ pend[slot] = {}
    BY <2>1 DEF PendHeld
  <2> QED
    BY <1>1, <1>2, <2>1, <2>2, PendFrame
<1>5. ASSUME NEW i \in IdleItems, IdleConfirm(i) PROVE PendHeld'
  <2>1. pc[Ext] = "confirm" /\ Holds(Ext) /\ slot' = slot
    BY <1>5 DEF IdleConfirm, Holds, HoldPCs
  <2>2. \A q \in Procs : q # Ext => ~ Holds(q)
    BY <2>1 DEF OneHolder
  <2>3. \A s \in States : s # slot' => pend'[s] = {}
    BY <1>5, <2>1 DEF IdleConfirm, PendHeld
  <2>4. pc'[Ext] \in {"start1", "idle"}
    BY <1>5 DEF IdleConfirm
  <2>5. \A q \in Procs : pc'[q] \notin {"recheck", "event", "clear"}
    BY <1>1, <2>2, <2>4 DEF Holds, HoldPCs
  <2> QED
    BY <1>1, <1>2, <2>3, <2>5 DEF PendHeld
<1> QED
  BY <1>3, <1>4, <1>5 DEF IdleWork

LEMMA PendMoves ==
    ASSUME IdleInv, HolderInv',
           \/ \E n \in Turns : Drain(n) \/ DeferMailbox(n) \/ AcceptMailbox(n)
           \/ \E m \in Triggers \cup Mails : Communicate(m)
           \/ \E i \in Inputs : SteerRpc(i)
    PROVE  PendHeld'
<1> USE ProcsContain DEF IdleInv, HolderInv, AliveInv, TypeInv, TypeOK
<1> USE DEF slotVars, inputVars, procVars, subVars, turnVars, Go
<1>1. /\ UNCHANGED <<slot, carry>>
      /\ \A q \in Procs : pc'[q] = pc[q] \/ (q = Sub /\ pc[q] = "idle" /\ pc'[q] = "maybe")
  BY DEF Drain, DeferMailbox, AcceptMailbox, Communicate, Submit, SteerRpc
<1>2. CASE \E i \in Inputs : SteerRpc(i)
  <2>1. task # None /\ \A s \in States : s # slot => pend'[s] = pend[s]
    BY <1>2 DEF SteerRpc, CanSteer, Deliver
  <2>2. \A q \in Procs : pc[q] \notin {"recheck", "event", "clear"}
    BY <2>1, HolderTask DEF Holds, HoldPCs
  <2> QED
    BY <1>1, <2>1, <2>2 DEF PendHeld
<1>3. CASE \/ \E n \in Turns : Drain(n) \/ DeferMailbox(n) \/ AcceptMailbox(n)
           \/ \E m \in Triggers \cup Mails : Communicate(m)
  <2>1. \A s \in States : pend'[s] \in {{}, pend[s]}
    BY <1>3 DEF Drain, DeferMailbox, AcceptMailbox, Communicate, TakePendingInput
  <2> QED
    BY <1>1, <2>1 DEF PendHeld
<1> QED
  BY <1>2, <1>3

LEMMA IdleStepHolds ==
    ASSUME Features \subseteq IdleFeatures
    PROVE  IdleInv /\ [Next]_vars => IdleInv'
<1> SUFFICES ASSUME IdleInv, [Next]_vars PROVE IdleInv'
  OBVIOUS
<1>1. HolderInv'
  BY HolderStepHolds DEF IdleInv
<1>2. CASE UNCHANGED vars
  BY <1>1, <1>2 DEF vars, slotVars, inputVars, procVars, subVars, turnVars, IdleInv, PendHeld
<1>3. CASE Next
  <2>1. IdleStep
    BY <1>3, IdleSteps DEF IdleInv
  <2>2. \A i \in Injects : ~ Inject(i)
    BY DEF Inject, IdleFeatures
  <2>3. PendHeld'
    BY <1>1, <2>1, <2>2, PendStarts, PendTurns, PendIdleWork, PendMoves DEF IdleStep
  <2> QED
    BY <1>1, <2>3 DEF IdleInv
<1> QED
  BY <1>2, <1>3

\* With mail, steering, idle work and even injected items, but nobody who
\* aborts: a reservation protects its holder, start_task finds no task.
THEOREM IdleStartFindsNoTask ==
    ASSUME Features \subseteq IdleFeatures \cup {"inject"}
    PROVE  Spec => []StartFindsNoTask
<1>1. HolderInv => StartFindsNoTask
  BY DEF HolderInv, StartFindsNoTask
<1>2. Spec => []HolderInv
  BY HolderInit, HolderStepHolds, PTL DEF Spec
<1> QED
  BY <1>1, <1>2, PTL

\* In such a session, too, a running turn is the one in the slot and is
\* reported over at most once.
THEOREM IdleTurnsAreActive ==
    ASSUME Features \subseteq IdleFeatures \cup {"inject"}
    PROVE  Spec => [](RunningTurnIsActive /\ AtMostOneTerminal)
<1>1. HolderInv => RunningTurnIsActive /\ AtMostOneTerminal
  BY DEF HolderInv, HolderKnows, EndsOnce, RunningTurnIsActive, AtMostOneTerminal
<1>2. Spec => []HolderInv
  BY HolderInit, HolderStepHolds, PTL DEF Spec
<1> QED
  BY <1>1, <1>2, PTL

\* With mail, steering and idle work, but no injected items: mail, input and
\* the items of idle turns are never left in a turn state that was given back.
THEOREM IdleNothingLost ==
    ASSUME Features \subseteq IdleFeatures
    PROVE  Spec => []NothingLost
<1>1. ASSUME IdleInv PROVE NothingLost
  <2> USE ProcsContain DEF IdleInv, HolderInv, AliveInv, TypeInv, TypeOK
  <2>1. \A s \in States : pend[s] # {} => s \in Watched \ {None}
    BY <1>1 DEF PendHeld, Watched
  <2>2. UNION {pend[s] : s \in States} \subseteq UNION {pend[s] : s \in Watched \ {None}}
    BY <2>1
  <2>3. Watched \ {None} \subseteq States
    BY <1>1 DEF Watched
  <2>4. UNION {pend[s] : s \in Watched \ {None}} \subseteq UNION {pend[s] : s \in States}
    BY <2>3
  <2>5. \A q \in Procs : pc[q] # "killed"
    BY <1>1 DEF NoAborts, Procs
  <2>6. UNION {carry[p] : p \in Procs} = UNION {carry[p] : p \in {q \in Procs : pc[q] # "killed"}}
    BY <2>5
  <2> QED
    BY <2>2, <2>4, <2>6 DEF NothingLost, Sent
<1>2. Spec => []IdleInv
  BY IdleInit, IdleStepHolds, PTL DEF Spec
<1> QED
  BY <1>1, <1>2, PTL
=============================================================================
