------------------------------ MODULE SlowLock ------------------------------
(***************************************************************************)
(* The slow lock of ccontrol-lock.c, system call by system call: one SysV  *)
(* semaphore per user, found with semget, created by whichever process     *)
(* does not find it, and decremented with SEM_UNDO so that the kernel      *)
(* gives back what a dead process held.  Every process of the user runs    *)
(* this code with nothing but the kernel objects in common.                *)
(*                                                                         *)
(* The kernel (semget, semctl, semop, fcntl, process exit) is external and *)
(* is modelled by what the code relies on: a semaphore created with no     *)
(* permission bits refuses semop to an unprivileged user, its value is 0   *)
(* until SETVAL, SETVAL clears every SEM_UNDO adjustment, and the exit of  *)
(* a process adds its adjustment and drops its record locks.               *)
(***************************************************************************)
EXTENDS Integers, FiniteSets

CONSTANTS
  Proc,        \* the ccontrol processes of one user
  File,        \* lock files: the config file, and what lock-file names
  LockFile,    \* LockFile[p]: the file whose byte 0 p locks (sec.lock_fd)
  Cpus,        \* Cpus[p]: the "cpus" p read in its own section
  NoProc,      \* owner of an unlocked byte
  Privileged,  \* TRUE for root, whom a mode of 0 does not stop
  Mortal       \* the processes that may be killed at any moment

ASSUME ConstantsOK ==
  /\ IsFiniteSet(Proc)
  /\ LockFile \in [Proc -> File]
  /\ Cpus \in [Proc -> Nat \ {0}]
  /\ NoProc \notin Proc
  /\ Privileged \in BOOLEAN
  /\ Mortal \subseteq Proc

VARIABLES
  pc,        \* where each process is in grab_sem, make_semaphore, drop_slow_lock
  initLock,  \* owner of byte 0 of each lock file
  exists,    \* the semaphore has been created
  mode,      \* its permissions have been set to 0600
  val,       \* its value
  semadj,    \* per process: what the kernel adds to val when it exits
  cap        \* the value SETVAL gave it (history; 0 before)

vars == <<pc, initLock, exists, mode, val, semadj, cap>>

Label == {"off", "lookup", "lockinit", "create", "setperm", "setval",
          "unlockinit", "semop", "held", "dropped", "fatal"}

Holders == {p \in Proc : pc[p] = "held"}

Trying == {"lookup", "lockinit", "create", "setperm", "setval",
           "unlockinit", "semop"}

Init ==
  /\ pc = [p \in Proc |-> "off"]
  /\ initLock = [f \in File |-> NoProc]
  /\ exists = FALSE
  /\ mode = FALSE
  /\ val = 0
  /\ semadj = [p \in Proc |-> 0]
  /\ cap = 0

Goto(p, from, to) ==
  /\ pc[p] = from
  /\ pc' = [pc EXCEPT ![p] = to]

-----------------------------------------------------------------------------
(* grab_sem and the make_semaphore it calls.                               *)

\* grab_lock decides that p needs the slow lock and calls grab_sem.
Start(p) ==
  /\ Goto(p, "off", "lookup")
  /\ UNCHANGED <<initLock, exists, mode, val, semadj, cap>>

\* id = semget(key, 1, 0): ENOENT sends p to make_semaphore.
Lookup(p) ==
  /\ Goto(p, "lookup", IF exists THEN "semop" ELSE "lockinit")
  /\ UNCHANGED <<initLock, exists, mode, val, semadj, cap>>

\* fcntl_lock(fd, true, 0) sleeps until byte 0 of p's lock file is free.
LockInit(p) ==
  /\ Goto(p, "lockinit", "create")
  /\ initLock[LockFile[p]] = NoProc
  /\ initLock' = [initLock EXCEPT ![LockFile[p]] = p]
  /\ UNCHANGED <<exists, mode, val, semadj, cap>>

\* semget(key, 1, IPC_CREAT|IPC_EXCL): one process creates it, a process
\* that raced finds it with the plain semget and leaves it alone.
\* Mutant: without IPC_EXCL whoever raced initializes it again.
CreateShared(p) ==
  /\ Goto(p, "create", "setperm")
  /\ exists' = TRUE
  /\ UNCHANGED <<initLock, mode, val, semadj, cap>>
Create(p) ==
  /\ Goto(p, "create", IF exists THEN "unlockinit" ELSE "setperm")
  /\ exists' = TRUE
  /\ UNCHANGED <<initLock, mode, val, semadj, cap>>

\* semctl(id, 0, IPC_SET, ...) with mode 0600.
SetPerm(p) ==
  /\ Goto(p, "setperm", "setval")
  /\ mode' = TRUE
  /\ UNCHANGED <<initLock, exists, val, semadj, cap>>

\* semctl(id, 0, SETVAL, sec.cpus); SETVAL forgets every adjustment.
SetVal(p) ==
  /\ Goto(p, "setval", "unlockinit")
  /\ val' = Cpus[p]
  /\ cap' = Cpus[p]
  /\ semadj' = [q \in Proc |-> 0]
  /\ UNCHANGED <<initLock, exists, mode>>

\* fcntl_lock(fd, false, 0).
UnlockInit(p) ==
  /\ Goto(p, "unlockinit", "semop")
  /\ initLock' = [initLock EXCEPT ![LockFile[p]] = NoProc]
  /\ UNCHANGED <<exists, mode, val, semadj, cap>>

\* semop(id, -1, SEM_UNDO) sleeps until the value is positive.  A signal
\* (EINTR) sends p round to the same call, which is a stuttering step.
\* Mutant: without SEM_UNDO, the unit of a process that exits is lost.
SemOpNoUndo(p) ==
  /\ Goto(p, "semop", "held")
  /\ mode \/ Privileged
  /\ val > 0
  /\ val' = val - 1
  /\ UNCHANGED <<initLock, exists, mode, semadj, cap>>
SemOp(p) ==
  /\ Goto(p, "semop", "held")
  /\ mode \/ Privileged
  /\ val > 0
  /\ val' = val - 1
  /\ semadj' = [semadj EXCEPT ![p] = @ + 1]
  /\ UNCHANGED <<initLock, exists, mode, cap>>

\* semop fails with EACCES before IPC_SET: fatal("cannot decrement semaphore").
SemOpDenied(p) ==
  /\ Goto(p, "semop", "fatal")
  /\ ~(mode \/ Privileged)
  /\ UNCHANGED <<initLock, exists, mode, val, semadj, cap>>

-----------------------------------------------------------------------------
(* drop_slow_lock, what may follow it in main, and the end of a process.   *)

\* semop(id, +1, SEM_UNDO): gives the unit back and cancels the adjustment.
\* Mutant: without SEM_UNDO the adjustment stays.
DropKeepsUndo(p) ==
  /\ Goto(p, "held", "dropped")
  /\ val' = val + 1
  /\ UNCHANGED <<initLock, exists, mode, semadj, cap>>
DropSlowLock(p) ==
  /\ Goto(p, "held", "dropped")
  /\ val' = val + 1
  /\ semadj' = [semadj EXCEPT ![p] = @ - 1]
  /\ UNCHANGED <<initLock, exists, mode, cap>>

\* main: "goto again" after the config file changed, back into grab_lock.
Retry(p) ==
  /\ Goto(p, "dropped", "lookup")
  /\ UNCHANGED <<initLock, exists, mode, val, semadj, cap>>

\* The kernel's side of process exit: SEM_UNDO and the record locks.
Undo(p) ==
  /\ val' = val + semadj[p]
  /\ semadj' = [semadj EXCEPT ![p] = 0]

Unlocked(p) ==
  initLock' = [f \in File |-> IF initLock[f] = p THEN NoProc ELSE initLock[f]]

Vanish(p) ==
  /\ pc' = [pc EXCEPT ![p] = "off"]
  /\ Undo(p)
  /\ Unlocked(p)
  /\ UNCHANGED <<exists, mode, cap>>

\* The program p became by execv ends still holding the lock; or main exits
\* after dropping it; or fatal() exits.
Exit(p) ==
  /\ pc[p] \in {"held", "dropped", "fatal"}
  /\ Vanish(p)

\* p dies wherever it is: the user interrupts the build.
Kill(p) ==
  /\ p \in Mortal
  /\ pc[p] # "off"
  /\ Vanish(p)

Step(p) ==
  \/ Lookup(p) \/ LockInit(p) \/ Create(p) \/ SetPerm(p) \/ SetVal(p)
  \/ UnlockInit(p) \/ SemOp(p) \/ SemOpDenied(p)

Next ==
  \E p \in Proc :
    \/ Start(p) \/ Step(p)
    \/ DropSlowLock(p) \/ Retry(p) \/ Exit(p) \/ Kill(p)

Spec == Init /\ [][Next]_vars

(***************************************************************************)
(* Fairness.  The kernel keeps running every process that can run (weak    *)
(* fairness of each call); it queues the sleepers of fcntl and of semop    *)
(* and wakes them in turn, so one that could be served again and again is  *)
(* served (strong fairness); and a program that holds the lock ends.       *)
(* Nothing makes a user start, retry or kill anything.                     *)
(***************************************************************************)
Fairness ==
  \A p \in Proc :
    /\ WF_vars(Step(p))
    /\ SF_vars(LockInit(p))
    /\ SF_vars(SemOp(p))
    /\ WF_vars(Exit(p))

FairSpec == Spec /\ Fairness

-----------------------------------------------------------------------------
(* Properties.                                                             *)

TypeOK ==
  /\ pc \in [Proc -> Label]
  /\ initLock \in [File -> Proc \cup {NoProc}]
  /\ exists \in BOOLEAN
  /\ mode \in BOOLEAN
  /\ val \in Nat
  /\ semadj \in [Proc -> {0, 1}]
  /\ cap \in Nat

\* The units of the semaphore are neither lost nor made: what is free and
\* what is held add up to the value it was given, however processes drop it
\* (drop_slow_lock), exec and end (SEM_UNDO) or are killed.
Conservation == val + Cardinality(Holders) = cap

\* No more processes hold the slow lock than the creator's cpus: "to grab a
\* lock to restrict number of parallel processes" (ccontrol-lock.c:1).
SlowLimit == Cardinality(Holders) <= cap

\* make_semaphore initializes the semaphore once: nobody gives it a value a
\* second time, whatever lock file the racing processes synchronize on, and
\* nobody holds it when it gets its value (SETVAL would forget the holder).
InitOnce == [][cap' # cap => cap = 0 /\ Holders = {}]_vars

\* A process exits with an adjustment of 1 exactly if it holds a unit.
UndoMatches ==
  \A p \in Proc : semadj[p] = IF p \in Holders THEN 1 ELSE 0

\* Between its creation and its value the semaphore belongs to one process.
Creating == {p \in Proc : pc[p] \in {"setperm", "setval"}}
OneCreator ==
  /\ ~exists => cap = 0
  /\ \A p \in Creating : exists /\ cap = 0
  /\ \A p, q \in Creating : p = q

\* The inductive invariant: why no unit is lost (the adjustments match the
\* holders) and why nobody initializes twice (one creator, while cap = 0).
IndInv == TypeOK /\ Conservation /\ UndoMatches /\ OneCreator

\* A semaphore that was created, has no value yet, and whose creator died.
Orphaned ==
  /\ exists
  /\ cap = 0
  /\ Creating = {}

\* Whoever asks for the slow lock gets it, fails with an error message or is
\* killed, unless the creator died half way through make_semaphore: that
\* crash is the only one after which the others wait for ever.
Served ==
  \A p \in Proc :
    pc[p] \in Trying ~> (pc[p] \in {"held", "fatal", "off"} \/ Orphaned)

\* No process is turned away: "To create an initialized semaphore, we need a
\* lock" (ccontrol-lock.c:34) says nobody meets one that is not initialized.
NeverDenied == \A p \in Proc : pc[p] # "fatal"

\* The slow lock is a counting lock: every system call is a step of
\* CountingLock or none.
Lock == INSTANCE CountingLock WITH holders <- Holders
Refinement == Lock!Spec
=============================================================================
