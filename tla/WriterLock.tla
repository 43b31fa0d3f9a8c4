----------------------------- MODULE WriterLock -----------------------------
(***************************************************************************)
(* The writer locks of the local thread store                              *)
(* (thread-store/src/local/writer_lock.rs) and the operations of the store *)
(* that hold them.  Several processes share one home directory.  A process *)
(* writes the rollout of a thread only while it holds an advisory lock on  *)
(* the thread's lock file; lock files are made on demand and removed by    *)
(* the guard that held them, and by the first acquisition of every process *)
(* if nobody has them locked.  Both happen under a second lock, the        *)
(* coordination lock, whose file is never removed.                         *)
(*                                                                         *)
(* An advisory lock belongs to an open file, not to a path: a process that *)
(* locks a file just removed from its path excludes nobody.  Inodes are    *)
(* therefore part of the state.  Inside a process a mutex per thread       *)
(* (live_writer_locks) lets one operation run at a time, so a task is a    *)
(* pair of a process and a thread.                                         *)
(***************************************************************************)
EXTENDS Naturals

CONSTANTS
    Procs, Threads,
    Inodes,       \* identities of lock files
    NoInode, NoTask,
    MaxOps,       \* bound: calls of the store's operations
    MaxCrashes,   \* bound: processes that end without running their drops
    MaxErrors     \* bound: failing file operations

Task == Procs \X Threads

ASSUME NoInodeAssumption == NoInode \notin Inodes
ASSUME NoTaskAssumption == NoTask \notin Task
ASSUME BoundsAssumption == MaxOps \in Nat /\ MaxCrashes \in Nat /\ MaxErrors \in Nat

VARIABLES
    file,     \* the lock file at each thread's path
    flock,    \* per inode, the task whose open file has it locked
    coord,    \* the task that has the coordination lock
    fd,       \* per task, the lock file its guard (or its acquire) has open
    pc, op,   \* per task, where it is and in which operation
    scan,     \* per task, the lock files its clean-up has yet to inspect
    at,       \* per task, the thread whose lock file it is about to remove
    cleaned,  \* cleanup_attempted of each process
    live,     \* per task, whether live_recorders has an entry
    dying,    \* processes that ended, whose files the system still closes
    rollout,  \* where the rollout of each thread is
    count     \* operations, crashes and errors so far

vars == <<file, flock, coord, fd, pc, op, scan, at, cleaned, live, dying, rollout, count>>
disk == <<file, flock, fd>>
memory == <<op, cleaned, live, dying, rollout>>

Proc(k) == k[1]
Thread(k) == k[2]

\* The steps a task takes with the coordination lock held.
Coordinated == {"scan", "remove", "open", "try", "close", "unlink"}

Init ==
    /\ file = [t \in Threads |-> NoInode]
    /\ flock = [i \in Inodes |-> NoTask]
    /\ coord = NoTask
    /\ fd = [k \in Task |-> NoInode]
    /\ pc = [k \in Task |-> "idle"]
    /\ op = [k \in Task |-> "none"]
    /\ scan = [k \in Task |-> {}]
    /\ at = [k \in Task |-> Thread(k)]
    /\ cleaned = [p \in Procs |-> FALSE]
    /\ live = [k \in Task |-> FALSE]
    /\ dying = {}
    /\ rollout = [t \in Threads |-> "none"]
    /\ count = [ops |-> 0, crashes |-> 0, errors |-> 0]

-----------------------------------------------------------------------------
(* Helpers.                                                                *)

Goto(k, to) == pc' = [pc EXCEPT ![k] = to]

Ready(k) == Proc(k) \notin dying /\ pc[k] = "idle"

Counted == count.ops < MaxOps /\ count' = [count EXCEPT !.ops = @ + 1]

Failing == count.errors < MaxErrors /\ count' = [count EXCEPT !.errors = @ + 1]

\* Closing an open file gives up the lock taken through it.
Close(k) ==
    /\ fd' = [fd EXCEPT ![k] = NoInode]
    /\ flock' = [i \in Inodes |-> IF flock[i] = k THEN NoTask ELSE flock[i]]

\* A live recorder keeps its guard between operations.
Guarding(k) == live[k] \/ pc[k] \in {"held", "drop"}

Writing(k) == live[k] \/ pc[k] = "held"

-----------------------------------------------------------------------------
(* WriterLockCoordinator::acquire.                                         *)

\* file.lock() on the coordination file returns; the clean-up is due once.
TakeCoordination(k) ==
    /\ pc[k] = "wait" /\ coord = NoTask
    /\ coord' = k
    /\ cleaned' = [cleaned EXCEPT ![Proc(k)] = TRUE]
    /\ scan' = [scan EXCEPT ![k] =
                  IF cleaned[Proc(k)] THEN {} ELSE {t \in Threads : file[t] # NoInode}]
    /\ Goto(k, "scan")
    /\ UNCHANGED <<disk, op, at, live, dying, rollout, count>>

\* The coordination directory or file cannot be opened or locked.
CoordinationFails(k) ==
    /\ pc[k] = "wait" /\ Failing
    /\ Goto(k, "idle")
    /\ UNCHANGED <<disk, memory, coord, scan, at>>

\* Mutant of ScanFile: a lock file is removed without a look at its lock.
ScanFileBlindly(k) == \E t \in scan[k] :
    /\ pc[k] = "scan"
    /\ scan' = [scan EXCEPT ![k] = @ \ {t}]
    /\ at' = [at EXCEPT ![k] = t]
    /\ Goto(k, "remove")
    /\ UNCHANGED <<disk, memory, coord, count>>

\* One directory entry: a lock file that can be locked is stale, and is
\* closed before it is removed. One that vanished, fails or is locked stays.
ScanFile(k) == \E t \in scan[k] :
    /\ pc[k] = "scan"
    /\ scan' = [scan EXCEPT ![k] = @ \ {t}]
    /\ \/ /\ file[t] # NoInode /\ flock[file[t]] = NoTask
          /\ at' = [at EXCEPT ![k] = t]
          /\ Goto(k, "remove")
          /\ UNCHANGED count
       \/ /\ file[t] # NoInode /\ flock[file[t]] # NoTask
          /\ UNCHANGED <<at, pc, count>>
       \/ Failing /\ UNCHANGED <<at, pc>>
    /\ UNCHANGED <<disk, memory, coord>>

RemoveStale(k) ==
    /\ pc[k] = "remove"
    /\ \/ file' = [file EXCEPT ![at[k]] = NoInode] /\ UNCHANGED count
       \/ Failing /\ UNCHANGED file
    /\ Goto(k, "scan")
    /\ UNCHANGED <<memory, flock, fd, coord, scan, at>>

\* The directory is read to its end, or cannot be read any further.
ScanEnds(k) ==
    /\ pc[k] = "scan"
    /\ IF scan[k] = {} THEN UNCHANGED count ELSE Failing
    /\ scan' = [scan EXCEPT ![k] = {}]
    /\ Goto(k, "open")
    /\ UNCHANGED <<disk, memory, coord, at>>

\* The lock file is opened, or made if there is none.
OpenFile(k) ==
    /\ pc[k] = "open"
    /\ \/ /\ file[Thread(k)] # NoInode
          /\ fd' = [fd EXCEPT ![k] = file[Thread(k)]]
          /\ UNCHANGED file
       \/ /\ file[Thread(k)] = NoInode
          /\ \E i \in Inodes :
                /\ \A t \in Threads : file[t] # i
                /\ \A o \in Task : fd[o] # i
                /\ file' = [file EXCEPT ![Thread(k)] = i]
                /\ fd' = [fd EXCEPT ![k] = i]
    /\ Goto(k, "try")
    /\ UNCHANGED <<memory, flock, coord, scan, at, count>>

\* Mutant of OpenFails: the coordination lock is kept.
OpenFailsHolding(k) ==
    /\ pc[k] = "open" /\ Failing
    /\ Goto(k, "idle")
    /\ UNCHANGED <<disk, memory, coord, scan, at>>

OpenFails(k) ==
    /\ pc[k] = "open" /\ Failing
    /\ coord' = NoTask
    /\ Goto(k, "idle")
    /\ UNCHANGED <<disk, memory, scan, at>>

TryLock(k) ==
    /\ pc[k] = "try" /\ flock[fd[k]] = NoTask
    /\ flock' = [flock EXCEPT ![fd[k]] = k]
    /\ coord' = NoTask
    /\ Goto(k, "held")
    /\ UNCHANGED <<memory, file, fd, scan, at, count>>

\* Conflict, "already has an active writer", or an error of the lock itself.
Refused(k) ==
    /\ pc[k] = "try"
    /\ IF flock[fd[k]] # NoTask THEN UNCHANGED count ELSE Failing
    /\ Close(k)
    /\ coord' = NoTask
    /\ Goto(k, "idle")
    /\ UNCHANGED <<memory, file, scan, at>>

-----------------------------------------------------------------------------
(* Drop for WriterLockGuard.                                               *)

DropTakesCoordination(k) ==
    /\ pc[k] = "drop" /\ coord = NoTask
    /\ coord' = k
    /\ Goto(k, "close")
    /\ UNCHANGED <<disk, memory, scan, at, count>>

\* Mutant of DropUncoordinated: the file is removed all the same.
DropUncoordinatedRemoving(k) ==
    /\ pc[k] = "drop" /\ Failing
    /\ Close(k)
    /\ file' = [file EXCEPT ![Thread(k)] = NoInode]
    /\ Goto(k, "idle")
    /\ UNCHANGED <<memory, coord, scan, at>>

\* Without coordination the file is closed and left at its path.
DropUncoordinated(k) ==
    /\ pc[k] = "drop" /\ Failing
    /\ Close(k)
    /\ Goto(k, "idle")
    /\ UNCHANGED <<memory, file, coord, scan, at>>

CloseGuard(k) ==
    /\ pc[k] = "close"
    /\ Close(k)
    /\ Goto(k, "unlink")
    /\ UNCHANGED <<memory, file, coord, scan, at, count>>

RemoveFile(k) ==
    /\ pc[k] = "unlink"
    /\ \/ file' = [file EXCEPT ![Thread(k)] = NoInode] /\ UNCHANGED count
       \/ Failing /\ UNCHANGED file
    /\ coord' = NoTask
    /\ Goto(k, "idle")
    /\ UNCHANGED <<memory, flock, fd, scan, at>>

-----------------------------------------------------------------------------
(* The operations of the store. Every one of them but unarchive runs under *)
(* the thread's mutex of its process.                                      *)

\* create_thread and resume_thread: refused at once if a recorder is live.
OpenThread(k) ==
    /\ Ready(k) /\ ~live[k] /\ Counted
    /\ op' = [op EXCEPT ![k] = "open"]
    /\ Goto(k, "wait")
    /\ UNCHANGED <<disk, coord, scan, at, cleaned, live, dying, rollout>>

InsertLiveRecorder(k) ==
    /\ pc[k] = "held" /\ op[k] = "open" /\ rollout[Thread(k)] # "deleted"
    /\ live' = [live EXCEPT ![k] = TRUE]
    /\ Goto(k, "idle")
    /\ UNCHANGED <<disk, coord, op, scan, at, cleaned, dying, rollout, count>>

\* Mutant of RecorderFails: the guard is not dropped.
RecorderFailsLeaking(k) ==
    /\ pc[k] = "held" /\ op[k] = "open"
    /\ rollout[Thread(k)] = "deleted" \/ count.errors < MaxErrors
    /\ Goto(k, "idle")
    /\ UNCHANGED <<disk, memory, coord, scan, at, count>>

\* Reading the thread or opening its recorder fails: the guard is dropped.
RecorderFails(k) ==
    /\ pc[k] = "held" /\ op[k] = "open"
    /\ IF rollout[Thread(k)] = "deleted" THEN UNCHANGED count ELSE Failing
    /\ Goto(k, "drop")
    /\ UNCHANGED <<disk, memory, coord, scan, at>>

\* The first durable write of a live thread makes its rollout.
WriteItems(k) ==
    /\ Ready(k) /\ live[k] /\ rollout[Thread(k)] = "none"
    /\ rollout' = [rollout EXCEPT ![Thread(k)] = "active"]
    /\ UNCHANGED <<disk, coord, pc, op, scan, at, cleaned, live, dying, count>>

\* shutdown_thread once its writes are through, and discard_thread.
CloseThread(k) ==
    /\ Ready(k) /\ live[k] /\ Counted
    /\ live' = [live EXCEPT ![k] = FALSE]
    /\ op' = [op EXCEPT ![k] = "close"]
    /\ Goto(k, "drop")
    /\ UNCHANGED <<disk, coord, scan, at, cleaned, dying, rollout>>

\* Mutant of ArchiveThread: no writer lock is taken.
ArchiveThreadUnlocked(k) ==
    /\ Ready(k) /\ ~live[k] /\ Counted
    /\ op' = [op EXCEPT ![k] = "archive"]
    /\ Goto(k, "held")
    /\ UNCHANGED <<disk, coord, scan, at, cleaned, live, dying, rollout>>

\* archive_threads: Conflict at once if this process writes the thread.
ArchiveThread(k) ==
    /\ Ready(k) /\ ~live[k] /\ Counted
    /\ op' = [op EXCEPT ![k] = "archive"]
    /\ Goto(k, "wait")
    /\ UNCHANGED <<disk, coord, scan, at, cleaned, live, dying, rollout>>

MoveToArchive(k) ==
    /\ pc[k] = "held" /\ op[k] = "archive"
    /\ \/ /\ rollout[Thread(k)] = "active"
          /\ rollout' = [rollout EXCEPT ![Thread(k)] = "archived"]
          /\ UNCHANGED count
       \/ rollout[Thread(k)] # "active" /\ UNCHANGED <<rollout, count>>
       \/ Failing /\ UNCHANGED rollout
    /\ Goto(k, "drop")
    /\ UNCHANGED <<disk, coord, op, scan, at, cleaned, live, dying>>

\* delete_thread uses the guard of the live recorder if there is one.
DeleteThread(k) ==
    /\ Ready(k) /\ Counted
    /\ op' = [op EXCEPT ![k] = "delete"]
    /\ Goto(k, IF live[k] THEN "held" ELSE "wait")
    /\ UNCHANGED <<disk, coord, scan, at, cleaned, live, dying, rollout>>

\* The recorder goes first, its guard stays until the files are removed.
RemoveRollout(k) ==
    /\ pc[k] = "held" /\ op[k] = "delete"
    /\ live' = [live EXCEPT ![k] = FALSE]
    /\ \/ /\ rollout[Thread(k)] \in {"active", "archived"}
          /\ rollout' = [rollout EXCEPT ![Thread(k)] = "deleted"]
          /\ UNCHANGED count
       \/ rollout[Thread(k)] \notin {"active", "archived"} /\ UNCHANGED <<rollout, count>>
       \/ Failing /\ UNCHANGED rollout
    /\ Goto(k, "drop")
    /\ UNCHANGED <<disk, coord, op, scan, at, cleaned, dying>>

\* Locating the files or removing the history rows fails: a live recorder
\* stays with its guard, a guard taken for the deletion is dropped.
DeleteFails(k) ==
    /\ pc[k] = "held" /\ op[k] = "delete" /\ Failing
    /\ Goto(k, IF live[k] THEN "idle" ELSE "drop")
    /\ UNCHANGED <<disk, memory, coord, scan, at>>

\* unarchive_thread takes neither the mutex nor a writer lock, only the
\* lifecycle lock that archive and delete of its process also take.
UnarchiveThread(k) ==
    /\ Proc(k) \notin dying /\ rollout[Thread(k)] = "archived"
    /\ pc[k] = "idle" \/ op[k] \notin {"archive", "delete"}
    /\ rollout' = [rollout EXCEPT ![Thread(k)] = "active"]
    /\ UNCHANGED <<disk, coord, pc, op, scan, at, cleaned, live, dying, count>>

-----------------------------------------------------------------------------
(* The end of a process. Its files are closed by the system, in any order. *)

Crash(p) ==
    /\ p \notin dying /\ count.crashes < MaxCrashes
    /\ dying' = dying \union {p}
    /\ pc' = [k \in Task |-> IF Proc(k) = p THEN "idle" ELSE pc[k]]
    /\ scan' = [k \in Task |-> IF Proc(k) = p THEN {} ELSE scan[k]]
    /\ live' = [k \in Task |-> live[k] /\ Proc(k) # p]
    /\ cleaned' = [cleaned EXCEPT ![p] = FALSE]
    /\ count' = [count EXCEPT !.crashes = @ + 1]
    /\ UNCHANGED <<disk, coord, op, at, rollout>>

SystemClosesFile(k) ==
    /\ Proc(k) \in dying /\ fd[k] # NoInode
    /\ Close(k)
    /\ UNCHANGED <<memory, file, coord, pc, scan, at, count>>

SystemClosesCoordination(k) ==
    /\ Proc(k) \in dying /\ coord = k
    /\ coord' = NoTask
    /\ UNCHANGED <<disk, memory, pc, scan, at, count>>

Restart(p) ==
    /\ p \in dying
    /\ \A k \in Task : Proc(k) = p => fd[k] = NoInode /\ coord # k
    /\ dying' = dying \ {p}
    /\ UNCHANGED <<disk, coord, pc, op, scan, at, cleaned, live, rollout, count>>

-----------------------------------------------------------------------------

\* What a task does once it is called.
Step(k) ==
    \/ TakeCoordination(k) \/ CoordinationFails(k)
    \/ ScanFile(k) \/ RemoveStale(k) \/ ScanEnds(k)
    \/ OpenFile(k) \/ OpenFails(k) \/ TryLock(k) \/ Refused(k)
    \/ DropTakesCoordination(k) \/ DropUncoordinated(k)
    \/ CloseGuard(k) \/ RemoveFile(k)
    \/ InsertLiveRecorder(k) \/ RecorderFails(k)
    \/ MoveToArchive(k) \/ RemoveRollout(k) \/ DeleteFails(k)

System(k) == SystemClosesFile(k) \/ SystemClosesCoordination(k)

Call(k) ==
    \/ OpenThread(k) \/ WriteItems(k) \/ CloseThread(k)
    \/ ArchiveThread(k) \/ DeleteThread(k) \/ UnarchiveThread(k)

Next ==
    \/ \E k \in Task : Step(k) \/ System(k) \/ Call(k)
    \/ \E p \in Procs : Crash(p) \/ Restart(p)

Spec == Init /\ [][Next]_vars

\* A called task runs on, and the system closes the files of a process that
\* ended. Nobody has to call, to crash or to restart.
Fairness == \A k \in Task : WF_vars(Step(k)) /\ WF_vars(System(k))

FairSpec == Spec /\ Fairness

-----------------------------------------------------------------------------
(* Properties.                                                             *)

Places == {"idle", "wait", "held", "drop"} \union Coordinated
Ops == {"none", "open", "close", "archive", "delete"}

\* Types, with the open file of WriterLockGuard: an idle task of a running
\* process has one exactly if it is the guard of a live recorder.
TypeOK ==
    /\ file \in [Threads -> Inodes \union {NoInode}]
    /\ flock \in [Inodes -> Task \union {NoTask}]
    /\ coord \in Task \union {NoTask}
    /\ fd \in [Task -> Inodes \union {NoInode}]
    /\ pc \in [Task -> Places] /\ op \in [Task -> Ops]
    /\ scan \in [Task -> SUBSET Threads] /\ at \in [Task -> Threads]
    /\ cleaned \in [Procs -> BOOLEAN] /\ live \in [Task -> BOOLEAN]
    /\ dying \in SUBSET Procs
    /\ rollout \in [Threads -> {"none", "active", "archived", "deleted"}]
    /\ count \in [ops : 0..MaxOps, crashes : 0..MaxCrashes, errors : 0..MaxErrors]
    /\ \A k \in Task : Ready(k) => (fd[k] # NoInode <=> live[k])

\* writer_lock.rs acquire: at most one process at a time writes, archives or
\* deletes the rollout of a thread, whatever crashes, clean-ups of stale
\* files and failing removals happen around it.
AtMostOneWriter ==
    \A j, k \in Task : Thread(j) = Thread(k) /\ Writing(j) /\ Writing(k) => j = k

\* The lock of a guard is on the very file a newcomer opens: no clean-up and
\* no other guard's drop removes it from its path meanwhile.
GuardIsAtPath ==
    \A k \in Task : Guarding(k) => fd[k] = file[Thread(k)] /\ fd[k] # NoInode

\* A refusal is for a reason: the lock file a task finds locked belongs to a
\* guard of the same thread, or to a process that is about to be gone. No
\* stale file, clean-up or failed operation keeps a thread locked.
RefusalIsReal ==
    \A k \in Task : pc[k] = "try" /\ flock[fd[k]] # NoTask =>
        \E j \in Task : /\ j # k /\ Thread(j) = Thread(k)
                        /\ Guarding(j) \/ Proc(j) \in dying

\* archive_threads and delete_thread never move or remove a rollout that a
\* recorder of any process is still writing.
NotMovedUnderWriter ==
    [][\A t \in Threads :
         rollout'[t] # rollout[t] /\ rollout'[t] \in {"archived", "deleted"} =>
             \A k \in Task : Thread(k) = t => ~live'[k]]_vars

\* Every call returns: nobody waits for the coordination lock for good, not
\* even if its holder fails or ends half-way.
EveryCallReturns == \A k \in Task : pc[k] # "idle" ~> pc[k] = "idle"

=============================================================================
