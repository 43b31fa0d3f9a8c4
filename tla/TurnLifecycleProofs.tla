------------------------ MODULE TurnLifecycleProofs ------------------------
(***************************************************************************)
(* Theorems about TurnLifecycle for every set of operations and for every  *)
(* number of messages, turns and turn states.                              *)
(***************************************************************************)
EXTENDS TurnLifecycle, TLAPS

\* A process in the grace period of an abort holds a turn state and a turn.
GraceHolds ==
    \A p \in Procs : pc[p] = "grace" => mine[p] \in States /\ victim[p] \in Turns

TypeInv == TypeOK /\ GraceHolds

LEMMA ProcsContain == /\ Sub \in Procs /\ Ext \in Procs /\ Guard \in Procs
                      /\ \A n \in Turns : n \in Procs /\ n # None /\ n # Sub /\ n # Ext /\ n # Guard
                      /\ Sub # Ext /\ Sub # Guard /\ Ext # Guard
                      /\ \A s \in States : s # None
BY BoundsAssumption DEF Procs, Turns, States, None, Sub, Ext, Guard

LEMMA TypeInit == Init => TypeInv
<1> SUFFICES ASSUME Init PROVE TypeInv
  OBVIOUS
<1> USE BoundsAssumption, ProcsContain DEF Init
<1>1. pc \in [Procs -> PCs] /\ GraceHolds
  BY DEF PCs, GraceHolds
<1>2. /\ mine \in [Procs -> States \cup {None}]
      /\ victim \in [Procs -> Turns \cup {None}]
      /\ ends \in [Turns -> Nat]
      /\ carry \in [Procs -> SUBSET Items]
      /\ pend \in [States -> SUBSET Items]
  OBVIOUS
<1>3. lastTurn \in 0 .. MaxTurns /\ lastState \in 0 .. MaxStates /\ ops \in 0 .. MaxOps
  OBVIOUS
<1>4. kind \in BOOLEAN /\ asserted \in BOOLEAN /\ closing \in BOOLEAN
  OBVIOUS
<1> QED
  BY <1>1, <1>2, <1>3, <1>4 DEF TypeInv, TypeOK

\* What get_pending_input takes and leaves.
LEMMA PendingType ==
    ASSUME TypeOK
    PROVE  /\ PendingInput \in SUBSET Items
           /\ TakePendingInput => /\ pend' \in [States -> SUBSET Items]
                                  /\ mailbox' \in SUBSET (Triggers \cup Mails)
BY DEF TypeOK, PendingInput, TakePendingInput, Items, None

LEMMA GetOrInsertType ==
    ASSUME TypeOK, GetOrInsert
    PROVE  /\ slot' \in States /\ lastState' \in 0 .. MaxStates
           /\ slot # None => slot' = slot
BY BoundsAssumption DEF TypeOK, GetOrInsert, States, None

LEMMA ReturnType == \A p \in Procs : Return(p) \in PCs /\ Return(p) # "grace"
BY DEF Return, PCs

LEMMA TypeStart ==
    ASSUME TypeInv, NEW p \in Procs, Starting(p)
    PROVE  TypeInv'
<1> USE ProcsContain DEF TypeInv, TypeOK
<1> USE DEF slotVars, inputVars, procVars, subVars, turnVars, Go
<1>1. CASE StartTaskDrain(p)
  <2>1. /\ carry' \in [Procs -> SUBSET Items] /\ pend' \in [States -> SUBSET Items]
        /\ mailbox' \in SUBSET (Triggers \cup Mails)
    BY <1>1, PendingType DEF StartTaskDrain
  <2>2. pc' \in [Procs -> PCs] /\ GraceHolds'
    BY <1>1 DEF StartTaskDrain, PCs, GraceHolds
  <2> QED
    BY <1>1, <2>1, <2>2 DEF StartTaskDrain
<1>2. CASE StartTaskExtend(p)
  <2>1. slot' \in States /\ lastState' \in 0 .. MaxStates
    BY <1>2, GetOrInsertType DEF StartTaskExtend
  <2>2. /\ carry' \in [Procs -> SUBSET Items] /\ pend' \in [States -> SUBSET Items]
    BY <1>2, <2>1 DEF StartTaskExtend
  <2>3. pc' \in [Procs -> PCs] /\ GraceHolds'
    BY <1>2 DEF StartTaskExtend, PCs, GraceHolds
  <2> QED
    BY <1>2, <2>1, <2>2, <2>3 DEF StartTaskExtend
<1>3. CASE StartTaskInstall(p)
  <2>1. slot' \in States /\ lastState' \in 0 .. MaxStates
    BY <1>3, GetOrInsertType DEF StartTaskInstall
  <2>2. lastTurn' \in 0 .. MaxTurns /\ lastTurn + 1 \in Turns
    BY <1>3, BoundsAssumption DEF StartTaskInstall, Turns
  <2>3. pc' \in [Procs -> PCs] /\ GraceHolds'
    BY <1>3, ReturnType DEF StartTaskInstall, PCs, GraceHolds
  <2>4. /\ steerable' \in SUBSET Turns /\ history' \in SUBSET Items
        /\ fresh' \in SUBSET Inputs /\ task' \in Turns
    BY <1>3, <2>2 DEF StartTaskInstall, Items
  <2> QED
    BY <1>3, <2>1, <2>2, <2>3, <2>4 DEF StartTaskInstall
<1>4. CASE MaybeStart(p)
  <2>1. pc' \in [Procs -> PCs] /\ GraceHolds'
    BY <1>4, ReturnType DEF MaybeStart, PCs, GraceHolds
  <2> QED
    BY <1>4, <2>1 DEF MaybeStart
<1>5. CASE Reserve(p)
  <2>1. slot' \in States /\ lastState' \in 0 .. MaxStates
    BY <1>5, GetOrInsertType DEF Reserve
  <2>2. pc' \in [Procs -> PCs] /\ GraceHolds'
    BY <1>5, ReturnType DEF Reserve, PCs, GraceHolds
  <2> QED
    BY <1>5, <2>1, <2>2 DEF Reserve
<1> QED
  BY <1>1, <1>2, <1>3, <1>4, <1>5 DEF Starting

LEMMA TypeAbort ==
    ASSUME TypeInv, Aborting \/ \E n \in Turns : AbortTurnIfActive(n)
    PROVE  TypeInv'
<1> USE ProcsContain DEF TypeInv, TypeOK
<1> USE DEF slotVars, inputVars, procVars, subVars, turnVars, Go
<1>1. ASSUME NEW p \in Procs, TakeActiveTurn(p)
      PROVE  /\ slot' = None /\ task' = None
             /\ mine' \in [Procs -> States \cup {None}]
             /\ victim' \in [Procs -> Turns \cup {None}]
             /\ cancelled' \in SUBSET Turns
             /\ task # None => mine'[p] \in States /\ victim'[p] \in Turns
  BY <1>1 DEF TakeActiveTurn
<1>2. CASE AbortAllTasks
  <2>1. TakeActiveTurn(Sub)
    BY <1>2 DEF AbortAllTasks
  <2>2. pc' \in [Procs -> PCs]
    BY <1>2, ReturnType DEF AbortAllTasks, PCs
  <2>3. GraceHolds'
    BY <1>1, <1>2, <2>1, ReturnType DEF AbortAllTasks, TakeActiveTurn, GraceHolds
  <2> QED
    BY <1>1, <1>2, <2>1, <2>2, <2>3 DEF AbortAllTasks
<1>3. ASSUME NEW n \in Turns, AbortTurnIfActive(n) PROVE TypeInv'
  <2>1. TakeActiveTurn(Guard)
    BY <1>3 DEF AbortTurnIfActive
  <2>2. pc' \in [Procs -> PCs]
    BY <1>3 DEF AbortTurnIfActive, PCs
  <2>3. GraceHolds'
    BY <1>1, <1>3, <2>1 DEF AbortTurnIfActive, TakeActiveTurn, GraceHolds
  <2> QED
    BY <1>1, <1>3, <2>1, <2>2, <2>3 DEF AbortTurnIfActive
<1>4. ASSUME NEW p \in {Sub, Guard}, HandleTaskAbort(p) PROVE TypeInv'
  <2>1. mine[p] \in States /\ victim[p] \in Turns
    BY <1>4 DEF HandleTaskAbort, GraceHolds
  <2>2. /\ ends' \in [Turns -> Nat] /\ cleared' \in SUBSET Items
        /\ pend' \in [States -> SUBSET Items]
    BY <1>4, <2>1 DEF HandleTaskAbort
  <2>3. pc' \in [Procs -> PCs]
    BY <1>4 DEF HandleTaskAbort, PCs
  <2>4. /\ victim' \in [Procs -> Turns \cup {None}]
        /\ mine' \in [Procs -> States \cup {None}]
    BY <1>4 DEF HandleTaskAbort
  <2>5. GraceHolds'
    BY <1>4 DEF HandleTaskAbort, GraceHolds
  <2> QED
    BY <1>4, <2>2, <2>3, <2>4, <2>5 DEF HandleTaskAbort
<1> QED
  BY <1>2, <1>3, <1>4 DEF Aborting

LEMMA TypeTurn ==
    ASSUME TypeInv, NEW n \in Turns,
           Drain(n) \/ DeferMailbox(n) \/ AcceptMailbox(n) \/ EndRun(n) \/ Finishing(n)
    PROVE  TypeInv'
<1> USE ProcsContain DEF TypeInv, TypeOK
<1> USE DEF slotVars, inputVars, procVars, subVars, turnVars, Go
<1>1. CASE Drain(n)
  <2>1. /\ history' \in SUBSET Items /\ pend' \in [States -> SUBSET Items]
        /\ mailbox' \in SUBSET (Triggers \cup Mails)
    BY <1>1, PendingType DEF Drain
  <2> QED
    BY <1>1, <2>1 DEF Drain, GraceHolds
<1>2. CASE DeferMailbox(n)
  <2>1. nextTurn' \in SUBSET States
    BY <1>2 DEF DeferMailbox
  <2> QED
    BY <1>2, <2>1 DEF DeferMailbox, GraceHolds
<1>3. CASE AcceptMailbox(n)
  BY <1>3 DEF AcceptMailbox, GraceHolds
<1>4. CASE EndRun(n)
  <2>1. pc' \in [Procs -> PCs] /\ GraceHolds'
    BY <1>4 DEF EndRun, PCs, GraceHolds
  <2> QED
    BY <1>4, <2>1 DEF EndRun
<1>5. CASE FinishTake(n)
  <2>1. pc' \in [Procs -> PCs] /\ mine' \in [Procs -> States \cup {None}]
    BY <1>5 DEF FinishTake, PCs
  <2>2. GraceHolds'
    BY <1>5 DEF FinishTake, GraceHolds
  <2>3. /\ task' \in Turns \cup {None} /\ slot' = None => task' = None
        /\ history' \in SUBSET Items /\ pend' \in [States -> SUBSET Items]
    BY <1>5 DEF FinishTake
  <2> QED
    BY <1>5, <2>1, <2>2, <2>3 DEF FinishTake
<1>6. CASE FinishEvent(n)
  <2>1. pc' \in [Procs -> PCs] /\ GraceHolds' /\ ends' \in [Turns -> Nat]
    BY <1>6 DEF FinishEvent, PCs, GraceHolds
  <2> QED
    BY <1>6, <2>1 DEF FinishEvent
<1>7. CASE FinishClear(n)
  <2>1. pc' \in [Procs -> PCs] /\ mine' \in [Procs -> States \cup {None}]
    BY <1>7 DEF FinishClear, PCs
  <2>2. GraceHolds'
    BY <1>7 DEF FinishClear, GraceHolds
  <2>3. slot' \in States \cup {None} /\ task' = task /\ (slot' = None => task' = None)
    BY <1>7 DEF FinishClear
  <2> QED
    BY <1>7, <2>1, <2>2, <2>3 DEF FinishClear
<1> QED
  BY <1>1, <1>2, <1>3, <1>4, <1>5, <1>6, <1>7 DEF Finishing

LEMMA DeliverType ==
    ASSUME TypeOK, NEW i \in Items, slot # None, Deliver(i)
    PROVE  pend' \in [States -> SUBSET Items] /\ nextTurn' \in SUBSET States
BY DEF TypeOK, Deliver

LEMMA TypeSubmission ==
    ASSUME TypeInv, Submission
    PROVE  TypeInv'
<1> USE ProcsContain, BoundsAssumption DEF TypeInv, TypeOK
<1> USE DEF slotVars, inputVars, procVars, subVars, turnVars, Go, Submit
<1>1. ASSUME NEW i \in Inputs, UserInputSteered(i) PROVE TypeInv'
  <2>1. pend' \in [States -> SUBSET Items] /\ nextTurn' \in SUBSET States
    BY <1>1, DeliverType DEF UserInputSteered, CanSteer, Items
  <2> QED
    BY <1>1, <2>1 DEF UserInputSteered, GraceHolds
<1>2. ASSUME NEW i \in Inputs, UserInputStarts(i) PROVE TypeInv'
  <2>1. pc' \in [Procs -> PCs] /\ GraceHolds'
    BY <1>2 DEF UserInputStarts, PCs, GraceHolds
  <2> QED
    BY <1>2, <2>1 DEF UserInputStarts
<1>3. ASSUME NEW m \in Triggers \cup Mails, Communicate(m) PROVE TypeInv'
  <2>1. pc' \in [Procs -> PCs] /\ GraceHolds'
    BY <1>3 DEF Communicate, PCs, GraceHolds
  <2> QED
    BY <1>3, <2>1 DEF Communicate
<1>4. ASSUME NEW regular \in BOOLEAN, Command(regular) PROVE TypeInv'
  <2>1. pc' \in [Procs -> PCs] /\ GraceHolds'
    BY <1>4 DEF Command, PCs, GraceHolds
  <2> QED
    BY <1>4, <2>1 DEF Command
<1>5. CASE Interrupt
  <2>1. pc' \in [Procs -> PCs] /\ GraceHolds'
    BY <1>5 DEF Interrupt, PCs, GraceHolds
  <2> QED
    BY <1>5, <2>1 DEF Interrupt
<1>6. CASE Shutdown
  <2>1. pc' \in [Procs -> PCs] /\ GraceHolds'
    BY <1>6 DEF Shutdown, PCs, GraceHolds
  <2> QED
    BY <1>6, <2>1 DEF Shutdown
<1> QED
  BY <1>1, <1>2, <1>3, <1>4, <1>5, <1>6 DEF Submission

LEMMA TypeBeside ==
    ASSUME TypeInv,
           \/ \E i \in Inputs : SteerRpc(i)
           \/ \E i \in Injects : Inject(i)
           \/ IdleReserve
           \/ IdleWork
    PROVE  TypeInv'
<1> USE ProcsContain, BoundsAssumption DEF TypeInv, TypeOK
<1> USE DEF slotVars, inputVars, procVars, subVars, turnVars, Go
<1>1. ASSUME NEW i \in Inputs, SteerRpc(i) PROVE TypeInv'
  <2>1. pend' \in [States -> SUBSET Items] /\ nextTurn' \in SUBSET States
    BY <1>1, DeliverType DEF SteerRpc, CanSteer, Items
  <2> QED
    BY <1>1, <2>1 DEF SteerRpc, GraceHolds
<1>2. ASSUME NEW i \in Injects, Inject(i) PROVE TypeInv'
  <2>1. /\ pend' \in [States -> SUBSET Items] /\ nextTurn' \in SUBSET States
        /\ history' \in SUBSET Items
    BY <1>2, DeliverType DEF Inject, Items
  <2> QED
    BY <1>2, <2>1 DEF Inject, GraceHolds
<1>3. CASE IdleReserve
  <2>1. slot' \in States /\ lastState' \in 0 .. MaxStates
    BY <1>3, GetOrInsertType DEF IdleReserve
  <2>2. pc' \in [Procs -> PCs] /\ mine' \in [Procs -> States \cup {None}]
    BY <1>3, <2>1 DEF IdleReserve, PCs
  <2>3. GraceHolds'
    BY <1>3 DEF IdleReserve, GraceHolds
  <2> QED
    BY <1>3, <2>1, <2>2, <2>3 DEF IdleReserve
<1>4. ASSUME NEW plan \in BOOLEAN, IdleRecheck(plan) PROVE TypeInv'
  <2>1. pc' \in [Procs -> PCs] /\ mine' \in [Procs -> States \cup {None}]
    BY <1>4 DEF IdleRecheck, PCs
  <2>2. GraceHolds'
    BY <1>4 DEF IdleRecheck, GraceHolds
  <2>3. slot' \in States \cup {None} /\ task' = task /\ (slot' = None => task' = None)
    BY <1>4 DEF IdleRecheck, StillReserved
  <2> QED
    BY <1>4, <2>1, <2>2, <2>3 DEF IdleRecheck
<1>5. ASSUME NEW i \in IdleItems, IdleConfirm(i) PROVE TypeInv'
  <2>1. pc' \in [Procs -> PCs] /\ mine' \in [Procs -> States \cup {None}]
    BY <1>5 DEF IdleConfirm, PCs
  <2>2. GraceHolds'
    BY <1>5 DEF IdleConfirm, GraceHolds
  <2>3. pend' \in [States -> SUBSET Items]
    BY <1>5 DEF IdleConfirm, Items
  <2> QED
    BY <1>5, <2>1, <2>2, <2>3 DEF IdleConfirm
<1> QED
  BY <1>1, <1>2, <1>3, <1>4, <1>5 DEF IdleWork

LEMMA TypeStep == TypeInv /\ [Next]_vars => TypeInv'
<1> SUFFICES ASSUME TypeInv, [Next]_vars PROVE TypeInv'
  OBVIOUS
<1>1. CASE UNCHANGED vars
  BY <1>1 DEF vars, slotVars, inputVars, procVars, subVars, turnVars, TypeInv, TypeOK, GraceHolds
<1> QED
  BY <1>1, TypeStart, TypeAbort, TypeTurn, TypeSubmission, TypeBeside DEF Next, Outside

\* Every variable keeps its type; in particular a session without an active
\* turn has no running task, and an abort always knows what it aborts.
THEOREM TypeCorrect == Spec => []TypeOK
<1>1. Spec => []TypeInv
  BY TypeInit, TypeStep, PTL DEF Spec
<1>2. TypeInv => TypeOK
  BY DEF TypeInv
<1> QED
  BY <1>1, <1>2, PTL

----------------------------------------------------------------------------
(* The slot never keeps a dead task. A turn leaves the running states only *)
(* by its own finish, which empties the slot, or when somebody who took it *)
(* out of the slot kills it: the turns being aborted are cancelled, the    *)
(* one in the slot is not.                                                 *)

ActiveNotCancelled == task # None => task \notin cancelled

VictimCancelled == \A p \in Procs : victim[p] # None => victim[p] \in cancelled

TurnsInOrder == /\ \A n \in Turns : n > lastTurn => pc[n] = "absent"
                /\ \A n \in cancelled : n <= lastTurn

AliveInv == /\ TypeInv /\ ActiveTaskIsAlive
            /\ ActiveNotCancelled /\ VictimCancelled /\ TurnsInOrder

LEMMA AliveInit == Init => AliveInv
<1> SUFFICES ASSUME Init PROVE AliveInv
  OBVIOUS
<1>1. ActiveTaskIsAlive /\ ActiveNotCancelled /\ VictimCancelled
  BY ProcsContain DEF Init, ActiveTaskIsAlive, ActiveNotCancelled, VictimCancelled
<1>2. TurnsInOrder
  BY ProcsContain DEF Init, TurnsInOrder
<1> QED
  BY <1>1, <1>2, TypeInit DEF AliveInv

\* A step of process p that is not a turn in the slot: the slot, the tasks and
\* the aborts stay as they are.
LEMMA AliveFrame ==
    ASSUME AliveInv, TypeInv', UNCHANGED <<task, victim, cancelled, lastTurn>>,
           NEW p \in Procs, NEW l, pc' = [pc EXCEPT ![p] = l],
           p # task \/ l \in {"running", "finishing"},
           pc[p] # "absent"
    PROVE  AliveInv'
<1> USE ProcsContain DEF AliveInv, TypeInv, TypeOK
<1>1. ActiveTaskIsAlive'
  BY DEF ActiveTaskIsAlive
<1>2. ActiveNotCancelled' /\ VictimCancelled'
  BY DEF ActiveNotCancelled, VictimCancelled
<1>3. TurnsInOrder'
  BY DEF TurnsInOrder
<1> QED
  BY <1>1, <1>2, <1>3

LEMMA AliveStutter ==
    ASSUME AliveInv, TypeInv', UNCHANGED <<task, victim, cancelled, lastTurn, pc>>
    PROVE  AliveInv'
BY DEF AliveInv, ActiveTaskIsAlive, ActiveNotCancelled, VictimCancelled, TurnsInOrder

\* The new task is running, and the one it overwrites leaves the slot.
LEMMA AliveInstall ==
    ASSUME AliveInv, TypeInv', NEW p \in Procs, StartTaskInstall(p)
    PROVE  AliveInv'
<1> USE ProcsContain, BoundsAssumption DEF AliveInv, TypeInv, TypeOK
<1> DEFINE new == lastTurn + 1
<1>1. /\ new \in Turns /\ lastTurn' = new /\ task' = new
      /\ UNCHANGED <<victim, cancelled>>
  BY DEF StartTaskInstall, Turns
<1>2. pc[new] = "absent" /\ new \notin cancelled
  BY <1>1 DEF TurnsInOrder, Turns
<1>3. new # p
  BY <1>2 DEF StartTaskInstall
<1>4. pc'[new] = "running"
  BY <1>1, <1>3 DEF StartTaskInstall
<1>5. ASSUME NEW n \in Turns, n > new PROVE pc'[n] = "absent"
  <2>1. pc[n] = "absent" /\ n # new
    BY <1>5 DEF TurnsInOrder, Turns
  <2>2. n # p /\ n # task
    BY <2>1 DEF StartTaskInstall, ActiveTaskIsAlive
  <2> QED
    BY <2>1, <2>2 DEF StartTaskInstall
<1>6. \A n \in cancelled : n <= new
  BY DEF TurnsInOrder, Turns
<1> QED
  BY <1>1, <1>2, <1>4, <1>5, <1>6
     DEF ActiveTaskIsAlive, ActiveNotCancelled, VictimCancelled, TurnsInOrder

LEMMA AliveTake ==
    ASSUME AliveInv, TypeInv', NEW p \in {Sub, Guard}, TakeActiveTurn(p),
           NEW l, pc' = [pc EXCEPT ![p] = l], lastTurn' = lastTurn
    PROVE  AliveInv'
<1> USE ProcsContain, BoundsAssumption DEF AliveInv, TypeInv, TypeOK, TakeActiveTurn
<1>1. ActiveTaskIsAlive' /\ ActiveNotCancelled'
  BY DEF ActiveTaskIsAlive, ActiveNotCancelled
<1>2. VictimCancelled'
  BY DEF VictimCancelled
<1>3. task # None => task <= lastTurn
  BY DEF ActiveTaskIsAlive, TurnsInOrder, Turns
<1>4. TurnsInOrder'
  BY <1>3 DEF TurnsInOrder
<1> QED
  BY <1>1, <1>2, <1>4

LEMMA AliveAbort ==
    ASSUME AliveInv, TypeInv', NEW p \in {Sub, Guard}, HandleTaskAbort(p)
    PROVE  AliveInv'
<1> USE ProcsContain DEF AliveInv, TypeInv, TypeOK
<1>1. victim[p] \in Turns /\ victim[p] \in cancelled /\ pc[p] = "grace"
  BY DEF HandleTaskAbort, GraceHolds, VictimCancelled
<1>2. /\ UNCHANGED <<slot, task, cancelled, lastTurn>>
      /\ victim' = [victim EXCEPT ![p] = None]
      /\ \A q \in Procs : q # p /\ q # victim[p] => pc'[q] = pc[q]
  BY DEF HandleTaskAbort, slotVars
<1>3. task # None => task # p /\ task # victim[p]
  BY <1>1 DEF ActiveNotCancelled
<1>4. ActiveTaskIsAlive' /\ ActiveNotCancelled'
  BY <1>2, <1>3 DEF ActiveTaskIsAlive, ActiveNotCancelled
<1>5. VictimCancelled'
  BY <1>2 DEF VictimCancelled
<1>6. TurnsInOrder'
  <2>1. ~ victim[p] > lastTurn
    BY <1>1 DEF TurnsInOrder, Turns
  <2> QED
    BY <1>2, <2>1 DEF TurnsInOrder
<1> QED
  BY <1>4, <1>5, <1>6

LEMMA AliveFinish ==
    ASSUME AliveInv, TypeInv', NEW n \in Turns, FinishTake(n)
    PROVE  AliveInv'
<1> USE ProcsContain DEF AliveInv, TypeInv, TypeOK
<1>1. task' = None /\ UNCHANGED <<victim, cancelled, lastTurn>> /\ pc[n] = "finishing"
  BY DEF FinishTake, subVars, turnVars
<1>2. \A q \in Procs : q # n => pc'[q] = pc[q]
  BY DEF FinishTake, Go
<1>3. ActiveTaskIsAlive' /\ ActiveNotCancelled' /\ VictimCancelled'
  BY <1>1 DEF ActiveTaskIsAlive, ActiveNotCancelled, VictimCancelled
<1>4. TurnsInOrder'
  BY <1>1, <1>2 DEF TurnsInOrder
<1> QED
  BY <1>3, <1>4

LEMMA AliveStep == AliveInv /\ [Next]_vars => AliveInv'
<1> SUFFICES ASSUME AliveInv, [Next]_vars PROVE AliveInv'
  OBVIOUS
<1>0. TypeInv /\ TypeInv' /\ TypeOK
  BY TypeStep DEF AliveInv, TypeInv
<1> USE ProcsContain
<1> USE DEF slotVars, inputVars, procVars, subVars, turnVars, Go
<1>1. ASSUME NEW p \in Procs, Starting(p) PROVE AliveInv'
  <2>1. CASE StartTaskInstall(p)
    BY <1>0, <2>1, AliveInstall
  <2>2. CASE StartTaskDrain(p) \/ StartTaskExtend(p) \/ MaybeStart(p) \/ Reserve(p)
    <3>1. /\ pc[p] \in {"start1", "start2", "maybe", "reserve"}
          /\ \E l : pc' = [pc EXCEPT ![p] = l]
      BY <2>2 DEF StartTaskDrain, StartTaskExtend, MaybeStart, Reserve
    <3>2. UNCHANGED <<task, victim, cancelled, lastTurn>>
      BY <2>2 DEF StartTaskDrain, StartTaskExtend, MaybeStart, Reserve
    <3>3. p # task
      BY <1>0, <3>1 DEF AliveInv, ActiveTaskIsAlive, Procs, Sub, Ext, Guard, None, Turns
    <3> QED
      BY <1>0, <3>1, <3>2, <3>3, AliveFrame
  <2> QED
    BY <1>1, <2>1, <2>2 DEF Starting
<1>2. CASE AbortAllTasks
  BY <1>0, <1>2, AliveTake DEF AbortAllTasks
<1>3. ASSUME NEW n \in Turns, AbortTurnIfActive(n) PROVE AliveInv'
  BY <1>0, <1>3, AliveTake DEF AbortTurnIfActive
<1>4. ASSUME NEW p \in {Sub, Guard}, HandleTaskAbort(p) PROVE AliveInv'
  BY <1>0, <1>4, AliveAbort
<1>5. ASSUME NEW n \in Turns, Drain(n) \/ DeferMailbox(n) \/ AcceptMailbox(n) PROVE AliveInv'
  <2>1. UNCHANGED <<task, victim, cancelled, lastTurn, pc>>
    BY <1>5 DEF Drain, DeferMailbox, AcceptMailbox
  <2> QED
    BY <1>0, <2>1, AliveStutter
<1>6. ASSUME NEW n \in Turns, EndRun(n) PROVE AliveInv'
  <2>1. n = task => n \notin cancelled
    BY DEF AliveInv, ActiveNotCancelled
  <2> QED
    BY <1>0, <1>6, <2>1, AliveFrame DEF EndRun
<1>7. ASSUME NEW n \in Turns, FinishTake(n) PROVE AliveInv'
  BY <1>0, <1>7, AliveFinish
<1>8. ASSUME NEW n \in Turns, FinishEvent(n) \/ FinishClear(n) PROVE AliveInv'
  <2>1. /\ pc[n] \in {"event", "clear"} /\ UNCHANGED <<task, victim, cancelled, lastTurn>>
        /\ \E l : pc' = [pc EXCEPT ![n] = l]
    BY <1>8 DEF FinishEvent, FinishClear
  <2>2. n # task
    BY <2>1 DEF AliveInv, ActiveTaskIsAlive
  <2> QED
    BY <1>0, <2>1, <2>2, AliveFrame
<1>9. CASE IdleWork \/ IdleReserve
  <2>1. /\ pc[Ext] \in {"idle", "recheck", "confirm"}
        /\ UNCHANGED <<task, victim, cancelled, lastTurn>>
        /\ \E l : pc' = [pc EXCEPT ![Ext] = l]
    BY <1>9 DEF IdleWork, IdleReserve, IdleRecheck, IdleConfirm
  <2>2. Ext # task
    BY <2>1 DEF AliveInv, ActiveTaskIsAlive, Ext, None
  <2> QED
    BY <1>0, <2>1, <2>2, AliveFrame
<1>10. CASE (\E i \in Inputs : SteerRpc(i)) \/ (\E i \in Injects : Inject(i))
  <2>1. UNCHANGED <<task, victim, cancelled, lastTurn, pc>>
    BY <1>10 DEF SteerRpc, Inject
  <2> QED
    BY <1>0, <2>1, AliveStutter
<1>11. CASE Submission
  <2>1. CASE \E i \in Inputs : UserInputSteered(i)
    BY <1>0, <2>1, AliveStutter DEF UserInputSteered
  <2>2. CASE \/ \E i \in Inputs : UserInputStarts(i)
             \/ \E m \in Triggers \cup Mails : Communicate(m)
             \/ \E regular \in BOOLEAN : Command(regular)
             \/ Interrupt \/ Shutdown
    <3>1. /\ pc[Sub] = "idle"
          /\ UNCHANGED <<task, victim, cancelled, lastTurn>>
          /\ \E l : pc' = [pc EXCEPT ![Sub] = l]
      BY <2>2 DEF Submit, UserInputStarts, Communicate, Command, Interrupt, Shutdown
    <3>2. Sub # task
      BY <3>1 DEF AliveInv, ActiveTaskIsAlive, Sub, None
    <3> QED
      BY <1>0, <3>1, <3>2, AliveFrame
  <2> QED
    BY <1>11, <2>1, <2>2 DEF Submission
<1>12. CASE UNCHANGED vars
  BY <1>0, <1>12, AliveStutter DEF vars
<1> QED
  BY <1>1, <1>2, <1>3, <1>4, <1>5, <1>6, <1>7, <1>8, <1>9, <1>10, <1>11, <1>12
     DEF Next, Aborting, Finishing, Outside

\* For every set of operations: whatever races, overwrites and aborts happen,
\* the task in the slot is running or finishing, so the session never stays
\* busy behind a task that is over.
THEOREM ActiveTaskIsAliveCorrect == Spec => []ActiveTaskIsAlive
<1>1. AliveInv => ActiveTaskIsAlive
  BY DEF AliveInv
<1> QED
  BY <1>1, AliveInit, AliveStep, PTL DEF Spec
============================================================================
