-------------------------- MODULE WriterLockProofs --------------------------
(***************************************************************************)
(* Proofs about WriterLock for any number of processes, threads, lock      *)
(* files, calls, crashes and failing file operations.  The theorems rest   *)
(* on one inductive invariant, Inv: what ties a lock to an open file and   *)
(* to the path it was opened from, and what the coordination lock keeps    *)
(* others from doing between two steps of its holder.                      *)
(***************************************************************************)
EXTENDS WriterLock, TLAPS

Types ==
    /\ file \in [Threads -> Inodes \union {NoInode}]
    /\ flock \in [Inodes -> Task \union {NoTask}]
    /\ coord \in Task \union {NoTask}
    /\ fd \in [Task -> Inodes \union {NoInode}]
    /\ pc \in [Task -> Places] /\ op \in [Task -> Ops]
    /\ scan \in [Task -> SUBSET Threads] /\ at \in [Task -> Threads]
    /\ cleaned \in [Procs -> BOOLEAN] /\ live \in [Task -> BOOLEAN]
    /\ dying \in SUBSET Procs
    /\ rollout \in [Threads -> {"none", "active", "archived", "deleted"}]
    /\ count \in [ops : 0..MaxOps, crashes : 0..MaxCrashes, errors : 0..MaxErrors]

\* A lock is held through an open file.
LockNeedsFile == \A i \in Inodes, k \in Task : flock[i] = k => fd[k] = i

\* A guard has locked the file that is at its path, until it closes it.
GuardLocks ==
    \A k \in Task : Guarding(k) \/ pc[k] = "close" =>
        fd[k] \in Inodes /\ flock[fd[k]] = k /\ file[Thread(k)] = fd[k]

\* What happens to the lock directory happens under the coordination lock.
CoordHeld == \A k \in Task : pc[k] \in Coordinated => coord = k

Distinct == \A t, u \in Threads : file[t] = file[u] /\ file[t] # NoInode => t = u

\* What is about to be locked is the file at the path, not yet locked by k.
TryOpen ==
    \A k \in Task : pc[k] = "try" =>
        fd[k] \in Inodes /\ file[Thread(k)] = fd[k] /\ flock[fd[k]] # k

\* A file that is open and at a path is at the path of the task's thread.
HandleOfPath ==
    \A k \in Task, t \in Threads : fd[k] # NoInode /\ file[t] = fd[k] => t = Thread(k)

\* Between the inspection of a stale file and its removal nobody locks it.
Removing ==
    \A j, k \in Task : pc[k] = "remove" /\ Thread(j) = at[k] => ~Guarding(j)

\* Nor between the closing of a guard's file and its removal.
Unlinking ==
    \A j, k \in Task : pc[k] = "unlink" /\ Thread(j) = Thread(k) => ~Guarding(j)

DyingQuiet == \A k \in Task : Proc(k) \in dying => pc[k] = "idle" /\ ~live[k]

\* Only a deletion is on its way while the recorder is live.
LiveExclusive ==
    \A k \in Task : live[k] => pc[k] = "idle" \/ (pc[k] = "held" /\ op[k] = "delete")

OpenFiles ==
    \A k \in Task : fd[k] # NoInode =>
        Proc(k) \in dying \/ live[k] \/ pc[k] \in {"try", "held", "drop", "close"}

Inv ==
    /\ Types /\ LockNeedsFile /\ GuardLocks /\ CoordHeld /\ Distinct /\ TryOpen
    /\ HandleOfPath /\ Removing /\ Unlinking /\ DyingQuiet /\ LiveExclusive /\ OpenFiles

\* The parts of a task.
LEMMA TaskParts == \A k \in Task : Proc(k) \in Procs /\ Thread(k) \in Threads
  BY DEF Task, Proc, Thread

\* Inv holds before the first call.
LEMMA InitInv == Init => Inv
<1> USE TaskParts, NoInodeAssumption, NoTaskAssumption, BoundsAssumption
<1> SUFFICES ASSUME Init PROVE Inv
  OBVIOUS
<1>1. Types
  BY DEF Init, Types, Places, Ops, Coordinated
<1>2. LockNeedsFile /\ GuardLocks /\ CoordHeld /\ Distinct /\ TryOpen /\ HandleOfPath
  BY DEF Init, LockNeedsFile, GuardLocks, Guarding, CoordHeld, Coordinated, Distinct,
         TryOpen, HandleOfPath
<1>3. Removing /\ Unlinking /\ DyingQuiet /\ LiveExclusive /\ OpenFiles
  BY DEF Init, Removing, Unlinking, DyingQuiet, LiveExclusive, OpenFiles, Guarding
<1>. QED  BY <1>1, <1>2, <1>3 DEF Inv

-----------------------------------------------------------------------------
(* One lemma per action.                                                   *)

\* Taking the coordination lock makes k its only holder.
LEMMA TakeCoordinationKeeps ==
    ASSUME Inv, NEW k \in Task, TakeCoordination(k)
    PROVE  Inv'
<1> USE TaskParts, NoInodeAssumption, NoTaskAssumption, BoundsAssumption
<1> USE DEF Inv, TakeCoordination, Goto, disk, memory
<1>1. Types'
  BY DEF Types, Places, Ops, Coordinated
<1>2. /\ LockNeedsFile' /\ GuardLocks' /\ CoordHeld' /\ Distinct'
      /\ TryOpen' /\ HandleOfPath' /\ Removing' /\ Unlinking'
      /\ DyingQuiet' /\ LiveExclusive' /\ OpenFiles'
  BY DEF Types, LockNeedsFile, GuardLocks, CoordHeld, Distinct, TryOpen,
         HandleOfPath, Removing, Unlinking, DyingQuiet, LiveExclusive,
         OpenFiles, Guarding, Coordinated
<1>. QED  BY <1>1, <1>2

\* A failed acquisition has changed nothing.
LEMMA CoordinationFailsKeeps ==
    ASSUME Inv, NEW k \in Task, CoordinationFails(k)
    PROVE  Inv'
<1> USE TaskParts, NoInodeAssumption, NoTaskAssumption, BoundsAssumption
<1> USE DEF Inv, CoordinationFails, Failing, Goto, disk, memory
<1>1. Types'
  BY DEF Types, Places, Ops, Coordinated
<1>2. /\ LockNeedsFile' /\ GuardLocks' /\ CoordHeld' /\ Distinct'
      /\ TryOpen' /\ HandleOfPath' /\ Removing' /\ Unlinking'
      /\ DyingQuiet' /\ LiveExclusive' /\ OpenFiles'
  BY DEF Types, LockNeedsFile, GuardLocks, CoordHeld, Distinct, TryOpen,
         HandleOfPath, Removing, Unlinking, DyingQuiet, LiveExclusive,
         OpenFiles, Guarding, Coordinated
<1>. QED  BY <1>1, <1>2

\* A stale lock file is found, or a file is passed over.
LEMMA ScanFileKeeps ==
    ASSUME Inv, NEW k \in Task, ScanFile(k)
    PROVE  Inv'
<1> USE TaskParts, NoInodeAssumption, NoTaskAssumption, BoundsAssumption
<1> USE DEF Inv, ScanFile, Failing, Goto, disk, memory
<1>1. Types'
  BY DEF Types, Places, Ops, Coordinated
\* Nobody guards the file found unlocked: a guard would have it locked.
<1>2. Removing'
  BY DEF Types, Removing, GuardLocks, Guarding, CoordHeld, Coordinated
<1>3. /\ LockNeedsFile' /\ GuardLocks' /\ CoordHeld' /\ Distinct'
      /\ TryOpen' /\ HandleOfPath' /\ Unlinking' /\ DyingQuiet'
      /\ LiveExclusive' /\ OpenFiles'
  BY DEF Types, LockNeedsFile, GuardLocks, CoordHeld, Distinct, TryOpen,
         HandleOfPath, Unlinking, DyingQuiet, LiveExclusive, OpenFiles,
         Guarding, Coordinated
<1>. QED  BY <1>1, <1>2, <1>3

\* Removing a stale lock file takes no guard's file from its path.
LEMMA RemoveStaleKeeps ==
    ASSUME Inv, NEW k \in Task, RemoveStale(k)
    PROVE  Inv'
<1> USE TaskParts, NoInodeAssumption, NoTaskAssumption, BoundsAssumption
<1> USE DEF Inv, RemoveStale, Failing, Goto, disk, memory
<1>1. Types'
  BY DEF Types, Places, Ops, Coordinated
\* The guards of other threads keep their files, and nobody else is at the lock directory.
<1>2. GuardLocks' /\ TryOpen'
  BY DEF Types, GuardLocks, TryOpen, Removing, Guarding, CoordHeld,
         Coordinated
<1>3. /\ LockNeedsFile' /\ CoordHeld' /\ Distinct' /\ HandleOfPath'
      /\ Removing' /\ Unlinking' /\ DyingQuiet' /\ LiveExclusive'
      /\ OpenFiles'
  BY DEF Types, LockNeedsFile, CoordHeld, Distinct, HandleOfPath, Removing,
         Unlinking, DyingQuiet, LiveExclusive, OpenFiles, Guarding,
         Coordinated, GuardLocks, TryOpen
<1>. QED  BY <1>1, <1>2, <1>3

\* The clean-up ends.
LEMMA ScanEndsKeeps ==
    ASSUME Inv, NEW k \in Task, ScanEnds(k)
    PROVE  Inv'
<1> USE TaskParts, NoInodeAssumption, NoTaskAssumption, BoundsAssumption
<1> USE DEF Inv, ScanEnds, Failing, Goto, disk, memory
<1>1. Types'
  BY DEF Types, Places, Ops, Coordinated
<1>2. /\ LockNeedsFile' /\ GuardLocks' /\ CoordHeld' /\ Distinct'
      /\ TryOpen' /\ HandleOfPath' /\ Removing' /\ Unlinking'
      /\ DyingQuiet' /\ LiveExclusive' /\ OpenFiles'
  BY DEF Types, LockNeedsFile, GuardLocks, CoordHeld, Distinct, TryOpen,
         HandleOfPath, Removing, Unlinking, DyingQuiet, LiveExclusive,
         OpenFiles, Guarding, Coordinated
<1>. QED  BY <1>1, <1>2

\* Opening the lock file.
LEMMA OpenFileKeeps ==
    ASSUME Inv, NEW k \in Task, OpenFile(k)
    PROVE  Inv'
<1> USE TaskParts, NoInodeAssumption, NoTaskAssumption, BoundsAssumption
<1> USE DEF Inv, OpenFile, Goto, disk, memory
<1>1. Types'
  BY DEF Types, Places, Ops, Coordinated
\* The task had no file open, so it loses no lock.
<1>2. LockNeedsFile' /\ TryOpen'
  BY DEF Types, LockNeedsFile, TryOpen, OpenFiles, LiveExclusive, DyingQuiet,
         CoordHeld, Coordinated
\* A new file is at a path that no guard has.
<1>3. GuardLocks'
  BY DEF Types, GuardLocks, Guarding, LiveExclusive
\* A new file is at no other path.
<1>4. Distinct'
  BY DEF Types, Distinct
\* Nor is it open elsewhere.
<1>5. HandleOfPath'
  BY DEF Types, HandleOfPath, Distinct
<1>6. /\ CoordHeld' /\ Removing' /\ Unlinking' /\ DyingQuiet'
      /\ LiveExclusive' /\ OpenFiles'
  BY DEF Types, CoordHeld, Removing, Unlinking, DyingQuiet, LiveExclusive,
         OpenFiles, Guarding, Coordinated, GuardLocks, TryOpen
<1>. QED  BY <1>1, <1>2, <1>3, <1>4, <1>5, <1>6

\* Opening the lock file fails.
LEMMA OpenFailsKeeps ==
    ASSUME Inv, NEW k \in Task, OpenFails(k)
    PROVE  Inv'
<1> USE TaskParts, NoInodeAssumption, NoTaskAssumption, BoundsAssumption
<1> USE DEF Inv, OpenFails, Failing, Goto, disk, memory
<1>1. Types'
  BY DEF Types, Places, Ops, Coordinated
<1>2. /\ LockNeedsFile' /\ GuardLocks' /\ CoordHeld' /\ Distinct'
      /\ TryOpen' /\ HandleOfPath' /\ Removing' /\ Unlinking'
      /\ DyingQuiet' /\ LiveExclusive' /\ OpenFiles'
  BY DEF Types, LockNeedsFile, GuardLocks, CoordHeld, Distinct, TryOpen,
         HandleOfPath, Removing, Unlinking, DyingQuiet, LiveExclusive,
         OpenFiles, Guarding, Coordinated
<1>. QED  BY <1>1, <1>2

\* The lock is taken.
LEMMA TryLockKeeps ==
    ASSUME Inv, NEW k \in Task, TryLock(k)
    PROVE  Inv'
<1> USE TaskParts, NoInodeAssumption, NoTaskAssumption, BoundsAssumption
<1> USE DEF Inv, TryLock, Goto, disk, memory
<1>1. Types'
  BY DEF Types, Places, Ops, Coordinated
\* The lock is free, and on the file at the path.
<1>2. GuardLocks'
  BY DEF Types, GuardLocks, TryOpen, Guarding, LiveExclusive
\* Who removes a file has the coordination lock, which is with k.
<1>3. Removing' /\ Unlinking'
  BY DEF Types, Removing, Unlinking, Guarding, CoordHeld, Coordinated
<1>4. /\ LockNeedsFile' /\ CoordHeld' /\ Distinct' /\ TryOpen'
      /\ HandleOfPath' /\ DyingQuiet' /\ LiveExclusive' /\ OpenFiles'
  BY DEF Types, LockNeedsFile, CoordHeld, Distinct, TryOpen, HandleOfPath,
         DyingQuiet, LiveExclusive, OpenFiles, Guarding, Coordinated,
         GuardLocks
<1>. QED  BY <1>1, <1>2, <1>3, <1>4

\* The lock is refused: closing the file gives up no other task's lock.
LEMMA RefusedKeeps ==
    ASSUME Inv, NEW k \in Task, Refused(k)
    PROVE  Inv'
<1> USE TaskParts, NoInodeAssumption, NoTaskAssumption, BoundsAssumption
<1> USE DEF Inv, Refused, Failing, Close, Goto, disk, memory
<1>1. Types'
  BY DEF Types, Places, Ops, Coordinated
<1>2. /\ LockNeedsFile' /\ GuardLocks' /\ CoordHeld' /\ Distinct'
      /\ TryOpen' /\ HandleOfPath' /\ Removing' /\ Unlinking'
      /\ DyingQuiet' /\ LiveExclusive' /\ OpenFiles'
  BY DEF Types, LockNeedsFile, GuardLocks, CoordHeld, Distinct, TryOpen,
         HandleOfPath, Removing, Unlinking, DyingQuiet, LiveExclusive,
         OpenFiles, Guarding, Coordinated
<1>. QED  BY <1>1, <1>2

\* A drop begins.
LEMMA DropTakesCoordinationKeeps ==
    ASSUME Inv, NEW k \in Task, DropTakesCoordination(k)
    PROVE  Inv'
<1> USE TaskParts, NoInodeAssumption, NoTaskAssumption, BoundsAssumption
<1> USE DEF Inv, DropTakesCoordination, Goto, disk, memory
<1>1. Types'
  BY DEF Types, Places, Ops, Coordinated
<1>2. /\ LockNeedsFile' /\ GuardLocks' /\ CoordHeld' /\ Distinct'
      /\ TryOpen' /\ HandleOfPath' /\ Removing' /\ Unlinking'
      /\ DyingQuiet' /\ LiveExclusive' /\ OpenFiles'
  BY DEF Types, LockNeedsFile, GuardLocks, CoordHeld, Distinct, TryOpen,
         HandleOfPath, Removing, Unlinking, DyingQuiet, LiveExclusive,
         OpenFiles, Guarding, Coordinated
<1>. QED  BY <1>1, <1>2

\* A drop without coordination only closes its file.
LEMMA DropUncoordinatedKeeps ==
    ASSUME Inv, NEW k \in Task, DropUncoordinated(k)
    PROVE  Inv'
<1> USE TaskParts, NoInodeAssumption, NoTaskAssumption, BoundsAssumption
<1> USE DEF Inv, DropUncoordinated, Failing, Close, Goto, disk, memory
<1>1. Types'
  BY DEF Types, Places, Ops, Coordinated
<1>2. /\ LockNeedsFile' /\ GuardLocks' /\ CoordHeld' /\ Distinct'
      /\ TryOpen' /\ HandleOfPath' /\ Removing' /\ Unlinking'
      /\ DyingQuiet' /\ LiveExclusive' /\ OpenFiles'
  BY DEF Types, LockNeedsFile, GuardLocks, CoordHeld, Distinct, TryOpen,
         HandleOfPath, Removing, Unlinking, DyingQuiet, LiveExclusive,
         OpenFiles, Guarding, Coordinated
<1>. QED  BY <1>1, <1>2

\* A drop closes its file.
LEMMA CloseGuardKeeps ==
    ASSUME Inv, NEW k \in Task, CloseGuard(k)
    PROVE  Inv'
<1> USE TaskParts, NoInodeAssumption, NoTaskAssumption, BoundsAssumption
<1> USE DEF Inv, CloseGuard, Close, Goto, disk, memory
<1>1. Types'
  BY DEF Types, Places, Ops, Coordinated
\* Closing gives up no lock but k's.
<1>2. GuardLocks'
  BY DEF Types, GuardLocks, LockNeedsFile, Guarding, LiveExclusive
\* k had the lock, so no other guard has it.
<1>3. Unlinking'
  BY DEF Types, Unlinking, GuardLocks, Guarding, LiveExclusive
<1>4. /\ LockNeedsFile' /\ CoordHeld' /\ Distinct' /\ TryOpen'
      /\ HandleOfPath' /\ Removing' /\ DyingQuiet' /\ LiveExclusive'
      /\ OpenFiles'
  BY DEF Types, LockNeedsFile, CoordHeld, Distinct, TryOpen, HandleOfPath,
         Removing, DyingQuiet, LiveExclusive, OpenFiles, Guarding,
         Coordinated, GuardLocks
<1>. QED  BY <1>1, <1>2, <1>3, <1>4

\* A drop removes its file from its path.
LEMMA RemoveFileKeeps ==
    ASSUME Inv, NEW k \in Task, RemoveFile(k)
    PROVE  Inv'
<1> USE TaskParts, NoInodeAssumption, NoTaskAssumption, BoundsAssumption
<1> USE DEF Inv, RemoveFile, Failing, Goto, disk, memory
<1>1. Types'
  BY DEF Types, Places, Ops, Coordinated
\* Nobody took over the file since it was closed.
<1>2. GuardLocks' /\ TryOpen'
  BY DEF Types, GuardLocks, TryOpen, Unlinking, Guarding, CoordHeld,
         Coordinated
<1>3. /\ LockNeedsFile' /\ CoordHeld' /\ Distinct' /\ HandleOfPath'
      /\ Removing' /\ Unlinking' /\ DyingQuiet' /\ LiveExclusive'
      /\ OpenFiles'
  BY DEF Types, LockNeedsFile, CoordHeld, Distinct, HandleOfPath, Removing,
         Unlinking, DyingQuiet, LiveExclusive, OpenFiles, Guarding,
         Coordinated, GuardLocks, TryOpen
<1>. QED  BY <1>1, <1>2, <1>3

\* The guard goes to the live recorder.
LEMMA InsertLiveRecorderKeeps ==
    ASSUME Inv, NEW k \in Task, InsertLiveRecorder(k)
    PROVE  Inv'
<1> USE TaskParts, NoInodeAssumption, NoTaskAssumption, BoundsAssumption
<1> USE DEF Inv, InsertLiveRecorder, Goto, disk, memory
<1>1. Types'
  BY DEF Types, Places, Ops, Coordinated
<1>2. /\ LockNeedsFile' /\ GuardLocks' /\ CoordHeld' /\ Distinct'
      /\ TryOpen' /\ HandleOfPath' /\ Removing' /\ Unlinking'
      /\ DyingQuiet' /\ LiveExclusive' /\ OpenFiles'
  BY DEF Types, LockNeedsFile, GuardLocks, CoordHeld, Distinct, TryOpen,
         HandleOfPath, Removing, Unlinking, DyingQuiet, LiveExclusive,
         OpenFiles, Guarding, Coordinated
<1>. QED  BY <1>1, <1>2

\* The guard of a failed call is dropped.
LEMMA RecorderFailsKeeps ==
    ASSUME Inv, NEW k \in Task, RecorderFails(k)
    PROVE  Inv'
<1> USE TaskParts, NoInodeAssumption, NoTaskAssumption, BoundsAssumption
<1> USE DEF Inv, RecorderFails, Failing, Goto, disk, memory
<1>1. Types'
  BY DEF Types, Places, Ops, Coordinated
<1>2. /\ LockNeedsFile' /\ GuardLocks' /\ CoordHeld' /\ Distinct'
      /\ TryOpen' /\ HandleOfPath' /\ Removing' /\ Unlinking'
      /\ DyingQuiet' /\ LiveExclusive' /\ OpenFiles'
  BY DEF Types, LockNeedsFile, GuardLocks, CoordHeld, Distinct, TryOpen,
         HandleOfPath, Removing, Unlinking, DyingQuiet, LiveExclusive,
         OpenFiles, Guarding, Coordinated
<1>. QED  BY <1>1, <1>2

\* Archiving.
LEMMA MoveToArchiveKeeps ==
    ASSUME Inv, NEW k \in Task, MoveToArchive(k)
    PROVE  Inv'
<1> USE TaskParts, NoInodeAssumption, NoTaskAssumption, BoundsAssumption
<1> USE DEF Inv, MoveToArchive, Failing, Goto, disk, memory
<1>1. Types'
  BY DEF Types, Places, Ops, Coordinated
<1>2. /\ LockNeedsFile' /\ GuardLocks' /\ CoordHeld' /\ Distinct'
      /\ TryOpen' /\ HandleOfPath' /\ Removing' /\ Unlinking'
      /\ DyingQuiet' /\ LiveExclusive' /\ OpenFiles'
  BY DEF Types, LockNeedsFile, GuardLocks, CoordHeld, Distinct, TryOpen,
         HandleOfPath, Removing, Unlinking, DyingQuiet, LiveExclusive,
         OpenFiles, Guarding, Coordinated
<1>. QED  BY <1>1, <1>2

\* Deleting: the recorder goes, its guard stays.
LEMMA RemoveRolloutKeeps ==
    ASSUME Inv, NEW k \in Task, RemoveRollout(k)
    PROVE  Inv'
<1> USE TaskParts, NoInodeAssumption, NoTaskAssumption, BoundsAssumption
<1> USE DEF Inv, RemoveRollout, Failing, Goto, disk, memory
<1>1. Types'
  BY DEF Types, Places, Ops, Coordinated
<1>2. /\ LockNeedsFile' /\ GuardLocks' /\ CoordHeld' /\ Distinct'
      /\ TryOpen' /\ HandleOfPath' /\ Removing' /\ Unlinking'
      /\ DyingQuiet' /\ LiveExclusive' /\ OpenFiles'
  BY DEF Types, LockNeedsFile, GuardLocks, CoordHeld, Distinct, TryOpen,
         HandleOfPath, Removing, Unlinking, DyingQuiet, LiveExclusive,
         OpenFiles, Guarding, Coordinated
<1>. QED  BY <1>1, <1>2

\* A failed deletion leaves a live recorder with its guard.
LEMMA DeleteFailsKeeps ==
    ASSUME Inv, NEW k \in Task, DeleteFails(k)
    PROVE  Inv'
<1> USE TaskParts, NoInodeAssumption, NoTaskAssumption, BoundsAssumption
<1> USE DEF Inv, DeleteFails, Failing, Goto, disk, memory
<1>1. Types'
  BY DEF Types, Places, Ops, Coordinated
<1>2. /\ LockNeedsFile' /\ GuardLocks' /\ CoordHeld' /\ Distinct'
      /\ TryOpen' /\ HandleOfPath' /\ Removing' /\ Unlinking'
      /\ DyingQuiet' /\ LiveExclusive' /\ OpenFiles'
  BY DEF Types, LockNeedsFile, GuardLocks, CoordHeld, Distinct, TryOpen,
         HandleOfPath, Removing, Unlinking, DyingQuiet, LiveExclusive,
         OpenFiles, Guarding, Coordinated
<1>. QED  BY <1>1, <1>2

\* A create or a resume is called.
LEMMA OpenThreadKeeps ==
    ASSUME Inv, NEW k \in Task, OpenThread(k)
    PROVE  Inv'
<1> USE TaskParts, NoInodeAssumption, NoTaskAssumption, BoundsAssumption
<1> USE DEF Inv, OpenThread, Ready, Counted, Goto, disk, memory
<1>1. Types'
  BY DEF Types, Places, Ops, Coordinated
<1>2. /\ LockNeedsFile' /\ GuardLocks' /\ CoordHeld' /\ Distinct'
      /\ TryOpen' /\ HandleOfPath' /\ Removing' /\ Unlinking'
      /\ DyingQuiet' /\ LiveExclusive' /\ OpenFiles'
  BY DEF Types, LockNeedsFile, GuardLocks, CoordHeld, Distinct, TryOpen,
         HandleOfPath, Removing, Unlinking, DyingQuiet, LiveExclusive,
         OpenFiles, Guarding, Coordinated
<1>. QED  BY <1>1, <1>2

\* A first write.
LEMMA WriteItemsKeeps ==
    ASSUME Inv, NEW k \in Task, WriteItems(k)
    PROVE  Inv'
<1> USE TaskParts, NoInodeAssumption, NoTaskAssumption, BoundsAssumption
<1> USE DEF Inv, WriteItems, Ready, disk, memory
<1>1. Types'
  BY DEF Types, Places, Ops, Coordinated
<1>2. /\ LockNeedsFile' /\ GuardLocks' /\ CoordHeld' /\ Distinct'
      /\ TryOpen' /\ HandleOfPath' /\ Removing' /\ Unlinking'
      /\ DyingQuiet' /\ LiveExclusive' /\ OpenFiles'
  BY DEF Types, LockNeedsFile, GuardLocks, CoordHeld, Distinct, TryOpen,
         HandleOfPath, Removing, Unlinking, DyingQuiet, LiveExclusive,
         OpenFiles, Guarding, Coordinated
<1>. QED  BY <1>1, <1>2

\* A shutdown or a discard is called.
LEMMA CloseThreadKeeps ==
    ASSUME Inv, NEW k \in Task, CloseThread(k)
    PROVE  Inv'
<1> USE TaskParts, NoInodeAssumption, NoTaskAssumption, BoundsAssumption
<1> USE DEF Inv, CloseThread, Ready, Counted, Goto, disk, memory
<1>1. Types'
  BY DEF Types, Places, Ops, Coordinated
<1>2. /\ LockNeedsFile' /\ GuardLocks' /\ CoordHeld' /\ Distinct'
      /\ TryOpen' /\ HandleOfPath' /\ Removing' /\ Unlinking'
      /\ DyingQuiet' /\ LiveExclusive' /\ OpenFiles'
  BY DEF Types, LockNeedsFile, GuardLocks, CoordHeld, Distinct, TryOpen,
         HandleOfPath, Removing, Unlinking, DyingQuiet, LiveExclusive,
         OpenFiles, Guarding, Coordinated
<1>. QED  BY <1>1, <1>2

\* An archive is called.
LEMMA ArchiveThreadKeeps ==
    ASSUME Inv, NEW k \in Task, ArchiveThread(k)
    PROVE  Inv'
<1> USE TaskParts, NoInodeAssumption, NoTaskAssumption, BoundsAssumption
<1> USE DEF Inv, ArchiveThread, Ready, Counted, Goto, disk, memory
<1>1. Types'
  BY DEF Types, Places, Ops, Coordinated
<1>2. /\ LockNeedsFile' /\ GuardLocks' /\ CoordHeld' /\ Distinct'
      /\ TryOpen' /\ HandleOfPath' /\ Removing' /\ Unlinking'
      /\ DyingQuiet' /\ LiveExclusive' /\ OpenFiles'
  BY DEF Types, LockNeedsFile, GuardLocks, CoordHeld, Distinct, TryOpen,
         HandleOfPath, Removing, Unlinking, DyingQuiet, LiveExclusive,
         OpenFiles, Guarding, Coordinated
<1>. QED  BY <1>1, <1>2

\* A delete is called.
LEMMA DeleteThreadKeeps ==
    ASSUME Inv, NEW k \in Task, DeleteThread(k)
    PROVE  Inv'
<1> USE TaskParts, NoInodeAssumption, NoTaskAssumption, BoundsAssumption
<1> USE DEF Inv, DeleteThread, Ready, Counted, Goto, disk, memory
<1>1. Types'
  BY DEF Types, Places, Ops, Coordinated
<1>2. /\ LockNeedsFile' /\ GuardLocks' /\ CoordHeld' /\ Distinct'
      /\ TryOpen' /\ HandleOfPath' /\ Removing' /\ Unlinking'
      /\ DyingQuiet' /\ LiveExclusive' /\ OpenFiles'
  BY DEF Types, LockNeedsFile, GuardLocks, CoordHeld, Distinct, TryOpen,
         HandleOfPath, Removing, Unlinking, DyingQuiet, LiveExclusive,
         OpenFiles, Guarding, Coordinated
<1>. QED  BY <1>1, <1>2

\* An unarchive takes no lock.
LEMMA UnarchiveThreadKeeps ==
    ASSUME Inv, NEW k \in Task, UnarchiveThread(k)
    PROVE  Inv'
<1> USE TaskParts, NoInodeAssumption, NoTaskAssumption, BoundsAssumption
<1> USE DEF Inv, UnarchiveThread, disk, memory
<1>1. Types'
  BY DEF Types, Places, Ops, Coordinated
<1>2. /\ LockNeedsFile' /\ GuardLocks' /\ CoordHeld' /\ Distinct'
      /\ TryOpen' /\ HandleOfPath' /\ Removing' /\ Unlinking'
      /\ DyingQuiet' /\ LiveExclusive' /\ OpenFiles'
  BY DEF Types, LockNeedsFile, GuardLocks, CoordHeld, Distinct, TryOpen,
         HandleOfPath, Removing, Unlinking, DyingQuiet, LiveExclusive,
         OpenFiles, Guarding, Coordinated
<1>. QED  BY <1>1, <1>2

\* The system closes a file of an ended process.
LEMMA SystemClosesFileKeeps ==
    ASSUME Inv, NEW k \in Task, SystemClosesFile(k)
    PROVE  Inv'
<1> USE TaskParts, NoInodeAssumption, NoTaskAssumption, BoundsAssumption
<1> USE DEF Inv, SystemClosesFile, Close, disk, memory
<1>1. Types'
  BY DEF Types, Places, Ops, Coordinated
<1>2. /\ LockNeedsFile' /\ GuardLocks' /\ CoordHeld' /\ Distinct'
      /\ TryOpen' /\ HandleOfPath' /\ Removing' /\ Unlinking'
      /\ DyingQuiet' /\ LiveExclusive' /\ OpenFiles'
  BY DEF Types, LockNeedsFile, GuardLocks, CoordHeld, Distinct, TryOpen,
         HandleOfPath, Removing, Unlinking, DyingQuiet, LiveExclusive,
         OpenFiles, Guarding, Coordinated
<1>. QED  BY <1>1, <1>2

\* The system releases its coordination lock.
LEMMA SystemClosesCoordinationKeeps ==
    ASSUME Inv, NEW k \in Task, SystemClosesCoordination(k)
    PROVE  Inv'
<1> USE TaskParts, NoInodeAssumption, NoTaskAssumption, BoundsAssumption
<1> USE DEF Inv, SystemClosesCoordination, disk, memory
<1>1. Types'
  BY DEF Types, Places, Ops, Coordinated
<1>2. /\ LockNeedsFile' /\ GuardLocks' /\ CoordHeld' /\ Distinct'
      /\ TryOpen' /\ HandleOfPath' /\ Removing' /\ Unlinking'
      /\ DyingQuiet' /\ LiveExclusive' /\ OpenFiles'
  BY DEF Types, LockNeedsFile, GuardLocks, CoordHeld, Distinct, TryOpen,
         HandleOfPath, Removing, Unlinking, DyingQuiet, LiveExclusive,
         OpenFiles, Guarding, Coordinated
<1>. QED  BY <1>1, <1>2

\* A crash forgets what the process did; its files are still open.
LEMMA CrashKeeps ==
    ASSUME Inv, NEW p \in Procs, Crash(p)
    PROVE  Inv'
<1> USE TaskParts, NoInodeAssumption, NoTaskAssumption, BoundsAssumption
<1> USE DEF Inv, Crash, disk
<1>1. Types'
  BY DEF Types, Places, Ops, Coordinated
<1>2. LockNeedsFile' /\ Distinct' /\ HandleOfPath' /\ DyingQuiet' /\ LiveExclusive'
  BY DEF Types, LockNeedsFile, Distinct, HandleOfPath, DyingQuiet, LiveExclusive
<1>3. GuardLocks' /\ CoordHeld' /\ TryOpen'
  BY DEF Types, GuardLocks, Guarding, CoordHeld, Coordinated, TryOpen
<1>4. Removing' /\ Unlinking' /\ OpenFiles'
  BY DEF Types, Removing, Unlinking, Guarding, OpenFiles
<1>. QED  BY <1>1, <1>2, <1>3, <1>4

\* A process starts again once its files are closed.
LEMMA RestartKeeps ==
    ASSUME Inv, NEW p \in Procs, Restart(p)
    PROVE  Inv'
<1> USE TaskParts, NoInodeAssumption, NoTaskAssumption, BoundsAssumption
<1> USE DEF Inv, Restart, disk
<1>1. Types' /\ LockNeedsFile' /\ Distinct' /\ HandleOfPath' /\ DyingQuiet' /\ LiveExclusive'
  BY DEF Types, LockNeedsFile, Distinct, HandleOfPath, DyingQuiet, LiveExclusive
<1>2. GuardLocks' /\ CoordHeld' /\ TryOpen' /\ Removing' /\ Unlinking' /\ OpenFiles'
  BY DEF Types, GuardLocks, Guarding, CoordHeld, TryOpen, Removing, Unlinking, OpenFiles
<1>. QED  BY <1>1, <1>2

-----------------------------------------------------------------------------

\* Every step of the store, of the system and of a crash preserves Inv.
LEMMA NextInv == Inv /\ [Next]_vars => Inv'
<1> SUFFICES ASSUME Inv, [Next]_vars PROVE Inv'
  OBVIOUS
<1>1. CASE UNCHANGED vars
  BY <1>1 DEF Inv, vars, Types, LockNeedsFile, GuardLocks, Guarding, CoordHeld, Distinct,
              TryOpen, HandleOfPath, Removing, Unlinking, DyingQuiet, LiveExclusive, OpenFiles
<1>2. ASSUME NEW k \in Task, Step(k) PROVE Inv'
  BY <1>2, TakeCoordinationKeeps, CoordinationFailsKeeps, ScanFileKeeps,
           RemoveStaleKeeps, ScanEndsKeeps, OpenFileKeeps, OpenFailsKeeps,
           TryLockKeeps, RefusedKeeps, DropTakesCoordinationKeeps,
           DropUncoordinatedKeeps, CloseGuardKeeps, RemoveFileKeeps,
           InsertLiveRecorderKeeps, RecorderFailsKeeps, MoveToArchiveKeeps,
           RemoveRolloutKeeps, DeleteFailsKeeps DEF Step
<1>3. ASSUME NEW k \in Task, System(k) PROVE Inv'
  BY <1>3, SystemClosesFileKeeps, SystemClosesCoordinationKeeps DEF System
<1>4. ASSUME NEW k \in Task, Call(k) PROVE Inv'
  BY <1>4, OpenThreadKeeps, WriteItemsKeeps, CloseThreadKeeps, ArchiveThreadKeeps,
     DeleteThreadKeeps, UnarchiveThreadKeeps DEF Call
<1>5. ASSUME NEW p \in Procs, Crash(p) \/ Restart(p) PROVE Inv'
  BY <1>5, CrashKeeps, RestartKeeps
<1>. QED  BY <1>1, <1>2, <1>3, <1>4, <1>5 DEF Next

\* Inv holds in every reachable state of the writer locks.
THEOREM Invariance == Spec => []Inv
  BY InitInv, NextInv, PTL DEF Spec

\* Inv tells which open files an idle task of a running process has.
LEMMA InvTypeOK == Inv => TypeOK
<1> SUFFICES ASSUME Inv, NEW k \in Task, Ready(k) PROVE fd[k] # NoInode <=> live[k]
  BY DEF Inv, Types, TypeOK
<1>1. live[k] => fd[k] # NoInode
  BY NoInodeAssumption DEF Inv, GuardLocks, Guarding
<1>2. fd[k] # NoInode => live[k]
  BY DEF Inv, OpenFiles, Ready
<1>. QED  BY <1>1, <1>2 DEF Inv, Types

\* Two writers of a thread would both have locked the file at its path.
LEMMA InvOneWriter == Inv => AtMostOneWriter
<1> SUFFICES ASSUME Inv, NEW j \in Task, NEW k \in Task,
                    Thread(j) = Thread(k), Writing(j), Writing(k)
             PROVE  j = k
  BY DEF AtMostOneWriter
<1>1. fd[j] \in Inodes /\ flock[fd[j]] = j /\ file[Thread(j)] = fd[j]
  BY DEF Inv, GuardLocks, Guarding, Writing
<1>2. fd[k] \in Inodes /\ flock[fd[k]] = k /\ file[Thread(k)] = fd[k]
  BY DEF Inv, GuardLocks, Guarding, Writing
<1>. QED  BY <1>1, <1>2

\* A lock found taken is held through a file open at the same path.
LEMMA InvRefusal == Inv => RefusalIsReal
<1> SUFFICES ASSUME Inv, NEW k \in Task, pc[k] = "try", flock[fd[k]] # NoTask
             PROVE  \E j \in Task : /\ j # k /\ Thread(j) = Thread(k)
                                    /\ Guarding(j) \/ Proc(j) \in dying
  BY DEF RefusalIsReal
<1> DEFINE j == flock[fd[k]]
<1>1. fd[k] \in Inodes /\ file[Thread(k)] = fd[k] /\ coord = k
  BY DEF Inv, TryOpen, CoordHeld, Coordinated
<1>2. j \in Task /\ fd[j] = fd[k]
  BY <1>1 DEF Inv, Types, LockNeedsFile
<1>3. Thread(j) = Thread(k)
  BY <1>1, <1>2, TaskParts, NoInodeAssumption DEF Inv, HandleOfPath
<1>4. j # k
  <2>1. SUFFICES ASSUME j = k PROVE FALSE
    OBVIOUS
  <2>. QED  BY <2>1, <1>1 DEF Inv, TryOpen
<1>5. Guarding(j) \/ Proc(j) \in dying
  BY <1>1, <1>2, <1>4, NoInodeAssumption, NoTaskAssumption
     DEF Inv, Types, OpenFiles, Guarding, CoordHeld, Coordinated
<1>. QED  BY <1>2, <1>3, <1>4, <1>5

\* Types of the writer locks, with the open files of idle tasks.
THEOREM TypeCorrect == Spec => []TypeOK
  BY Invariance, InvTypeOK, PTL

\* acquire gives a thread to one process at a time, through crashes, stale
\* lock files and failing removals.
THEOREM OneWriter == Spec => []AtMostOneWriter
  BY Invariance, InvOneWriter, PTL

\* No removal takes the lock file of a guard from its path.
THEOREM GuardsStayAtPath == Spec => []GuardIsAtPath
<1>1. Inv => GuardIsAtPath
  BY NoInodeAssumption DEF Inv, GuardLocks, GuardIsAtPath
<1>. QED  BY <1>1, Invariance, PTL

\* acquire refuses a thread only for a guard of it or a process ending.
THEOREM RefusalsAreReal == Spec => []RefusalIsReal
  BY Invariance, InvRefusal, PTL

\* The step that archives or deletes a rollout is the only writer's.
LEMMA MoveIsWriters ==
    ASSUME Inv, NEW k \in Task, pc[k] = "held", live'[k] = FALSE,
           \A j \in Task : j # k => live'[j] = live[j],
           NEW j \in Task, Thread(j) = Thread(k)
    PROVE  ~live'[j]
  BY InvOneWriter DEF AtMostOneWriter, Writing

\* archive_threads and delete_thread spare what a live recorder writes.
THEOREM NeverMovedUnderWriter == Spec => NotMovedUnderWriter
<1> DEFINE Spared == \A t \in Threads :
               rollout'[t] # rollout[t] /\ rollout'[t] \in {"archived", "deleted"} =>
                   \A k \in Task : Thread(k) = t => ~live'[k]
<1>1. ASSUME Inv, [Next]_vars PROVE Spared
  <2> USE <1>1, TaskParts
  <2>1. CASE UNCHANGED rollout
    BY <2>1
  <2>2. ASSUME NEW k \in Task, MoveToArchive(k) PROVE Spared
    <3>1. live'[k] = FALSE /\ pc[k] = "held" /\ live' = live
      BY <2>2 DEF MoveToArchive, Inv, Types, LiveExclusive
    <3>2. \A t \in Threads : t # Thread(k) => rollout'[t] = rollout[t]
      BY <2>2 DEF MoveToArchive, Inv, Types
    <3>. QED  BY <3>1, <3>2, MoveIsWriters
  <2>3. ASSUME NEW k \in Task, RemoveRollout(k) PROVE Spared
    <3>1. live'[k] = FALSE /\ pc[k] = "held" /\ \A j \in Task : j # k => live'[j] = live[j]
      BY <2>3 DEF RemoveRollout, Inv, Types
    <3>2. \A t \in Threads : t # Thread(k) => rollout'[t] = rollout[t]
      BY <2>3 DEF RemoveRollout, Inv, Types
    <3>. QED  BY <3>1, <3>2, MoveIsWriters
  <2>4. ASSUME NEW k \in Task, WriteItems(k) \/ UnarchiveThread(k) PROVE Spared
    BY <2>4 DEF WriteItems, UnarchiveThread, Inv, Types
  <2>5. ASSUME NEW k \in Task, Step(k), ~MoveToArchive(k), ~RemoveRollout(k)
        PROVE  UNCHANGED rollout
    BY <2>5 DEF Step, memory, TakeCoordination, CoordinationFails, ScanFile, RemoveStale,
            ScanEnds, OpenFile, OpenFails, TryLock, Refused,
            DropTakesCoordination, DropUncoordinated, CloseGuard, RemoveFile,
            InsertLiveRecorder, RecorderFails, DeleteFails
  <2>6. ASSUME NEW k \in Task, Call(k), ~WriteItems(k), ~UnarchiveThread(k)
        PROVE  UNCHANGED rollout
    BY <2>6 DEF Call, OpenThread, CloseThread, ArchiveThread, DeleteThread
  <2>7. ASSUME NEW k \in Task, System(k) PROVE UNCHANGED rollout
    BY <2>7 DEF System, SystemClosesFile, SystemClosesCoordination, memory
  <2>8. ASSUME NEW p \in Procs, Crash(p) \/ Restart(p) PROVE UNCHANGED rollout
    BY <2>8 DEF Crash, Restart
  <2>9. CASE UNCHANGED vars
    BY <2>9, <2>1 DEF vars
  <2>. QED
    BY <2>1, <2>2, <2>3, <2>4, <2>5, <2>6, <2>7, <2>8, <2>9 DEF Next
<1>2. Inv /\ [Next]_vars => [Spared]_vars
  BY <1>1
<1>3. NotMovedUnderWriter <=> [][Spared]_vars
  BY DEF NotMovedUnderWriter
<1>. QED  BY <1>2, <1>3, Invariance, PTL DEF Spec

=============================================================================
