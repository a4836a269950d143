--------------------------- MODULE CcontrolProofs ---------------------------
(***************************************************************************)
(* main and grab_lock, for any number of processes.                        *)
(*                                                                         *)
(* For any config files and programs that call ccontrol in any order: a    *)
(* process has no lock until grab_lock gives it one, and whenever it       *)
(* starts again it has first given back exactly what it had; so nobody     *)
(* sleeps holding anything, and the slow lock is used as a counting lock.  *)
(* Everything follows from IndInv (Ccontrol): one lemma per kind of step,  *)
(* then the theorems.                                                      *)
(*                                                                         *)
(* Where the config file and the programs are orderly (CcontrolOrder): the *)
(* slow lock bounds the compiles and links at work, for whoever runs under *)
(* CCONTROL_LOCK=0 stands in a line that begins at a holder of the slow    *)
(* lock and has one worker at its end.  LineInv says so process by         *)
(* process; IndInv says who holds.                                         *)
(*                                                                         *)
(* Where, besides, all sections have the same ranges and distcc calls      *)
(* nothing (Ranked), nobody waits for a byte of an ancestor: the byte a    *)
(* make waits for is of a deeper range than those of the makes above it,   *)
(* and a compile's range is before all of theirs.                          *)
(*                                                                         *)
(* Where all sections lock in one file (Counted), the bytes bound what     *)
(* runs under them.                                                        *)
(*                                                                         *)
(* Last, for any config files and programs again: CCONTROL_LOCK fits in a  *)
(* char (LockIsChar), as long as makes nest no deeper than it can say.     *)
(***************************************************************************)
EXTENDS CcontrolOrder, FiniteSetTheorems, TLAPS

-----------------------------------------------------------------------------
(* Types of the records processes are made of.                             *)

\* The locals of main before it has read the config file.
LEMMA NoSectionType == NoSection \in Section
<1>1. (CHOOSE f \in File : TRUE) \in File
  BY ConstantsOK
<1>2. QED
  BY <1>1 DEF NoSection, Section

\* An unused slot.
LEMMA IdleType == Idle \in Process
<1>1. (CHOOSE d \in Dir : TRUE) \in Dir
  BY ConstantsOK
<1>2. CleanEnv \in Env
  BY DEF CleanEnv, Env, Unset
<1>3. MaxCalls \in Nat
  BY ConstantsOK
<1>4. QED
  BY <1>1, <1>2, <1>3, NoSectionType DEF Idle, Process, Label, Cmd

\* execv yields a process at the label it is given.
LEMMA ExecType ==
  ASSUME NEW r \in Process, NEW label \in Label
  PROVE  /\ Exec(r, label) \in Process
         /\ Exec(r, label).pc = label
<1>1. /\ r.cmd \in Cmd /\ r.dir \in Dir /\ r.parent \in Pid \cup {NoPid}
      /\ r.env \in Env /\ r.wfd \in SUBSET Pid
  BY DEF Process
<1>2. QED
  BY <1>1, IdleType DEF Exec, Process

\* What the exit of p makes of each slot: p's own is free or a zombie, a zombie
\* it had not collected is gone, and the rest of main's state stays as it is.
LEMMA EndedType ==
  ASSUME TypeOK, NEW p \in Pid,
         NEW status \in {"none", "done", "nodist", "killed"}
  PROVE  /\ Ended(p, status) \in [Pid -> Process]
         /\ Ended(p, status)[p].pc \in {"free", "zombie"}
         /\ \A q \in Pid \ {p} :
              \/ /\ Ended(p, status)[q].pc = "free"
                 /\ proc[q].pc = "zombie"
              \/ /\ Ended(p, status)[q].pc = proc[q].pc
                 /\ Ended(p, status)[q].undo = proc[q].undo
                 /\ Ended(p, status)[q].sec = proc[q].sec
<1>0. Ended(p, status) = [q \in Pid |-> Ended(p, status)[q]]
  BY DEF Ended
<1> SUFFICES ASSUME NEW q \in Pid
    PROVE /\ Ended(p, status)[q] \in Process
          /\ q = p => Ended(p, status)[q].pc \in {"free", "zombie"}
          /\ q # p =>
              \/ /\ Ended(p, status)[q].pc = "free"
                 /\ proc[q].pc = "zombie"
              \/ /\ Ended(p, status)[q].pc = proc[q].pc
                 /\ Ended(p, status)[q].undo = proc[q].undo
                 /\ Ended(p, status)[q].sec = proc[q].sec
   BY <1>0
<1>1. proc[q] \in Process /\ proc[p] \in Process
  BY DEF TypeOK
<1>2. Idle.pc = "free"
  BY DEF Idle
<1>3. DEFINE z == [Idle EXCEPT !.pc = "zombie", !.parent = proc[p].parent,
                               !.status = status]
<1>4. z \in Process /\ z.pc = "zombie"
  BY <1>1, IdleType DEF Process, Label
<1>5. [proc[q] EXCEPT !.parent = NoPid] \in Process
  BY <1>1 DEF Process
<1>6. /\ [proc[q] EXCEPT !.parent = NoPid].pc = proc[q].pc
      /\ [proc[q] EXCEPT !.parent = NoPid].undo = proc[q].undo
      /\ [proc[q] EXCEPT !.parent = NoPid].sec = proc[q].sec
  BY <1>1 DEF Process
<1>7. QED
  BY <1>1, <1>2, <1>4, <1>5, <1>6, IdleType DEF Ended, At

-----------------------------------------------------------------------------
(* The slow lock: taking a unit, giving it back.                           *)

\* The holders can be counted.
LEMMA HoldersFinite ==
  /\ IsFiniteSet(SlowHolders)
  /\ Cardinality(SlowHolders) \in Nat
<1>1. SlowHolders \subseteq Pid
  BY DEF SlowHolders
<1>2. IsFiniteSet(SlowHolders)
  BY <1>1, ConstantsOK, FS_Subset
<1>3. QED
  BY <1>2, FS_CardinalityType

\* p gives back the unit it has, if it has one: undo, and every exit.
GivesBack(p) ==
  /\ semval' = semval + semadj[p]
  /\ semadj' = [semadj EXCEPT ![p] = 0]
  /\ semcap' = semcap

\* Then p holds nothing, and as many units are missing as before, less its own.
LEMMA GivesBackHolders ==
  ASSUME TypeOK, NEW p \in Pid, GivesBack(p)
  PROVE  /\ SlowHolders' = SlowHolders \ {p}
         /\ p \in SlowHolders <=> semadj[p] = 1
         /\ Cardinality(SlowHolders') = Cardinality(SlowHolders) - semadj[p]
<1> USE DEF GivesBack, TypeOK
<1>1. SlowHolders' = SlowHolders \ {p}
  BY DEF SlowHolders
<1>2. p \in SlowHolders <=> semadj[p] = 1
  BY DEF SlowHolders
<1>3. CASE semadj[p] = 1
  BY <1>1, <1>2, <1>3, HoldersFinite, FS_RemoveElement
<1>4. CASE semadj[p] = 0
  <2>1. SlowHolders' = SlowHolders
    BY <1>1, <1>2, <1>4
  <2>2. Cardinality(SlowHolders') = Cardinality(SlowHolders)
    BY <2>1
  <2>3. QED
    BY <1>1, <1>2, <2>2, <1>4, HoldersFinite
<1>5. QED
  BY <1>3, <1>4

\* No unit is lost or made.
LEMMA GivesBackKeeps ==
  ASSUME TypeOK, UnitsConserved, NEW p \in Pid, GivesBack(p)
  PROVE  /\ UnitsConserved'
         /\ semval' \in Nat /\ semcap' \in Nat
         /\ semadj' \in [Pid -> {0, 1}]
<1>1. semval' \in Nat /\ semcap' \in Nat /\ semadj' \in [Pid -> {0, 1}]
  BY DEF TypeOK, GivesBack
<1>2. Cardinality(SlowHolders') = Cardinality(SlowHolders) - semadj[p]
  BY GivesBackHolders
<1>3. semadj[p] \in Nat
  BY DEF TypeOK
<1>4. UnitsConserved'
  BY <1>1, <1>2, <1>3, HoldersFinite DEF UnitsConserved, TypeOK, GivesBack
<1>5. QED
  BY <1>1, <1>4

\* undo() of a process that runs on with its lock is such a step.
LEMMA UndoGivesBack ==
  ASSUME IndInv, NEW p \in Pid, proc[p].pc \in Locked, UndoSem(p)
  PROVE  GivesBack(p)
<1>1. semadj \in [Pid -> {0, 1}] /\ semval \in Nat
  BY DEF IndInv, TypeOK
<1>2. semadj[p] = 1 <=> proc[p].undo = "drop"
  BY DEF IndInv, UndoKnows
<1>3. CASE proc[p].undo = "drop"
  BY <1>1, <1>2, <1>3 DEF UndoSem, GivesBack
<1>4. CASE proc[p].undo # "drop"
  <2>1. semadj[p] = 0
    BY <1>1, <1>2, <1>4
  <2>2. semadj = [semadj EXCEPT ![p] = 0]
    BY <1>1, <2>1
  <2>3. semval = semval + semadj[p]
    BY <1>1, <2>1
  <2>4. QED
    BY <1>4, <2>2, <2>3 DEF UndoSem, GivesBack
<1>5. QED
  BY <1>3, <1>4

-----------------------------------------------------------------------------
(* NothingHeld and UndoKnows, step by step.                                *)

\* A step of p leaves the others alone, but for zombies it reaps, children it
\* starts, and what its end does to its children.
OthersKeep(p) ==
  \A q \in Pid \ {p} :
    /\ semadj'[q] = semadj[q]
    /\ \A l \in locks' : l[3] = q => l \in locks
    /\ \/ proc'[q].pc \in Unlocked /\ proc[q].pc \in Unlocked
       \/ proc'[q].pc \in Program
       \/ proc'[q].pc = proc[q].pc /\ proc'[q].undo = proc[q].undo
                                   /\ proc'[q].sec = proc[q].sec
    /\ q \in Creating' => q \in Creating

\* What p itself must be left with.
OwnKeep(p) ==
  /\ proc'[p].pc \in Unlocked =>
       semadj'[p] = 0 /\ \A l \in locks' : l[3] # p
  /\ proc'[p].pc \in Locked =>
       /\ semadj'[p] = 1 <=> proc'[p].undo = "drop"
       /\ \A l \in locks' : l[3] = p => l[1] = proc'[p].sec.lock_file

\* Together they keep the two invariants about locks.
LEMMA StepKeeps ==
  ASSUME IndInv, NEW p \in Pid, OthersKeep(p), OwnKeep(p)
  PROVE  NothingHeld' /\ UndoKnows'
<1>1. Program \cap (Unlocked \cup Locked) = {}
  BY DEF Program, Unlocked, SemCalls, Locked
<1>2. Unlocked \cap Locked = {}
  BY DEF Unlocked, SemCalls, Locked
<1>3. NothingHeld'
  <2> SUFFICES ASSUME NEW q \in Pid, proc'[q].pc \in Unlocked
               PROVE  semadj'[q] = 0 /\ \A l \in locks' : l[3] # q
    BY DEF NothingHeld
  <2>1. CASE q = p
    BY <2>1 DEF OwnKeep
  <2>2. CASE q # p
    BY <2>2, <1>1 DEF OthersKeep, IndInv, NothingHeld
  <2>3. QED
    BY <2>1, <2>2
<1>4. UndoKnows'
  <2> SUFFICES ASSUME NEW q \in Pid, proc'[q].pc \in Locked
               PROVE  /\ semadj'[q] = 1 <=> proc'[q].undo = "drop"
                      /\ \A l \in locks' : l[3] = q => l[1] = proc'[q].sec.lock_file
    BY DEF UndoKnows
  <2>1. CASE q = p
    BY <2>1 DEF OwnKeep
  <2>2. CASE q # p
    BY <2>2, <1>1, <1>2 DEF OthersKeep, IndInv, UndoKnows
  <2>3. QED
    BY <2>1, <2>2
<1>5. QED
  BY <1>3, <1>4

\* Nobody else has come to create the semaphore.
LEMMA CreatorKeeps ==
  ASSUME OneCreator, UNCHANGED <<semcap, semmode>>, Creating' \subseteq Creating
  PROVE  OneCreator'
BY DEF OneCreator

\* See CreatorKeeps.
LEMMA NotCreating ==
  ASSUME IndInv, NEW p \in Pid, OthersKeep(p), UNCHANGED <<semcap, semmode>>,
         proc'[p].pc \notin {"setperm", "setval"}
  PROVE  OneCreator'
<1>1. Creating' \subseteq Creating
  BY DEF Creating, OthersKeep
<1>2. QED
  BY <1>1, CreatorKeeps DEF IndInv

\* Steps that leave the config file, or the semaphore, as it is.
LEMMA FileTyped ==
  ASSUME TypeOK, UNCHANGED file
  PROVE  config' \in Configs /\ stamp' \in Nat /\ edits' \in 0 .. MaxEdits
BY DEF TypeOK, file

\* See FileTyped.
LEMMA SemSame ==
  ASSUME IndInv, UNCHANGED sem
  PROVE  /\ semval' \in Nat /\ semcap' \in Nat /\ semadj' \in [Pid -> {0, 1}]
         /\ semmode' \in {"none", "denied", "granted"}
         /\ UnitsConserved'
         /\ semadj' = semadj /\ semcap' = semcap /\ semmode' = semmode
BY DEF IndInv, TypeOK, sem, UnitsConserved, SlowHolders

\* Exit, of any process at any point, keeps the invariant.
LEMMA ExitKeeps ==
  ASSUME IndInv, NEW p \in Pid,
         NEW status \in {"none", "done", "nodist", "killed"},
         Exit(p, status)
  PROVE  IndInv'
<1>1. TypeOK /\ GivesBack(p)
  BY DEF Exit, GivesBack, IndInv
<1>2. UnitsConserved'
  BY <1>1, GivesBackKeeps DEF IndInv
<1>3. TypeOK'
  BY <1>1, EndedType, GivesBackKeeps, FileTyped DEF TypeOK, Exit, IndInv
<1>4. OthersKeep(p)
  BY <1>1, EndedType
  DEF Exit, OthersKeep, GivesBack, TypeOK, Unlocked, SemCalls, Creating
<1>5. OwnKeep(p)
  BY <1>1, EndedType DEF Exit, OwnKeep, GivesBack, TypeOK, Locked
<1>6. OneCreator'
  BY <1>1, <1>4, EndedType, NotCreating DEF Exit
<1>7. QED
  BY <1>2, <1>3, <1>4, <1>5, <1>6, StepKeeps DEF IndInv

\* Where p may go while nothing but its own record changes.
Goes(p, r) ==
  /\ r \in Process
  /\ r.pc \notin {"setperm", "setval"}
  /\ \/ proc[p].pc \in Unlocked /\ r.pc \in Unlocked
     \/ proc[p].pc \in Unlocked /\ r.pc \in Locked /\ r.undo # "drop"
     \/ proc[p].pc \in Locked /\ r.pc \in Locked /\ r.undo = proc[p].undo
                              /\ r.sec = proc[p].sec
     \/ r.pc \in Program

\* Going there leaves p with what it should have.
LEMMA GoesKeeps ==
  ASSUME IndInv, NEW p \in Pid, NEW r, Goes(p, r), proc'[p] = r,
         UNCHANGED <<locks, sem>>
  PROVE  OwnKeep(p)
<1>1. Program \cap (Unlocked \cup Locked) = {} /\ Unlocked \cap Locked = {}
  BY DEF Program, Unlocked, SemCalls, Locked
<1>2. QED
  BY <1>1, SemSame DEF Goes, OwnKeep, IndInv, NothingHeld, UndoKnows

\* Steps of one process; steps that start a child; the same or an exit.
LEMMA LocalKeeps ==
  ASSUME IndInv, NEW p \in Pid, NEW r, Goes(p, r), Local(p, r)
  PROVE  IndInv'
<1>1. proc' = [proc EXCEPT ![p] = r] /\ UNCHANGED <<locks, sem, file>>
  BY DEF Local
<1>2. r \in Process /\ TypeOK
  BY DEF Goes, IndInv
<1>3. TypeOK'
  BY <1>1, <1>2, SemSame, FileTyped DEF TypeOK
<1>4. OthersKeep(p)
  BY <1>1, <1>2, SemSame DEF OthersKeep, TypeOK, Creating
<1>5. OwnKeep(p)
  BY <1>1, <1>2, GoesKeeps DEF TypeOK
<1>6. OneCreator'
  BY <1>1, <1>2, <1>4, SemSame, NotCreating DEF Goes, TypeOK
<1>7. QED
  BY <1>1, <1>3, <1>4, <1>5, <1>6, SemSame, StepKeeps DEF IndInv

\* See LocalKeeps.
LEMMA SpawnKeeps ==
  ASSUME IndInv, NEW p \in Pid, proc[p].pc # "free", NEW r, Goes(p, r),
         NEW image \in Process, image.pc \in Program \cup {"main"},
         Spawn(p, r, image)
  PROVE  IndInv'
<1>1. PICK q \in Pid : /\ Usable(q)
                       /\ proc' = [proc EXCEPT ![p] = r,
                                     ![q] = [image EXCEPT !.parent = p]]
  BY DEF Spawn
<1>2. UNCHANGED <<locks, sem, file>>
  BY DEF Spawn
<1>3. q # p /\ proc[q].pc = "free"
  BY <1>1 DEF Usable, At
<1>4. /\ [image EXCEPT !.parent = p] \in Process
      /\ [image EXCEPT !.parent = p].pc = image.pc
  BY DEF Process
<1>5. r \in Process /\ TypeOK
  BY DEF Goes, IndInv
<1>6. /\ proc'[p] = r
      /\ proc'[q] = [image EXCEPT !.parent = p]
      /\ \A x \in Pid \ {p, q} : proc'[x] = proc[x]
  BY <1>1, <1>3, <1>5 DEF TypeOK
<1>7. TypeOK'
  BY <1>1, <1>2, <1>4, <1>5, SemSame, FileTyped DEF TypeOK
<1>8. OthersKeep(p)
  BY <1>2, <1>3, <1>4, <1>6, SemSame
  DEF OthersKeep, Unlocked, SemCalls, Creating, Program
<1>9. OwnKeep(p)
  BY <1>2, <1>6, GoesKeeps
<1>10. OneCreator'
  BY <1>2, <1>6, <1>8, SemSame, NotCreating DEF Goes
<1>11. QED
  BY <1>2, <1>7, <1>8, <1>9, <1>10, SemSame, StepKeeps DEF IndInv

\* See LocalKeeps.
LEMMA ForkKeeps ==
  ASSUME IndInv, NEW p \in Pid, proc[p].pc # "free", NEW r, Goes(p, r),
         NEW image \in Process, image.pc \in Program \cup {"main"},
         Fork(p, r, image)
  PROVE  IndInv'
BY SpawnKeeps, ExitKeeps DEF Fork

-----------------------------------------------------------------------------
(* The actions.                                                            *)

\* The type of a process and of its parts.
LEMMA OwnType ==
  ASSUME TypeOK, NEW p \in Pid
  PROVE  /\ proc[p] \in Process
         /\ proc[p].env \in Env
         /\ proc[p].sec \in Section
BY DEF TypeOK, Process

\* execv may be called anywhere: the program never comes back to main.
LEMMA GoesExec ==
  ASSUME IndInv, NEW p \in Pid, NEW r \in Process, NEW label \in Program
  PROVE  Goes(p, Exec(r, label))
BY ExecType DEF Goes, Label, Program

\* The compile proper goes on from again, without ccache.
LEMMA CompilingType ==
  ASSUME NEW r \in Process
  PROVE  /\ Compiling(r) \in Process
         /\ Compiling(r).pc = "again"
<1>1. r.env \in Env
  BY DEF Process
<1>2. [[r.env EXCEPT !.prefix = FALSE] EXCEPT !.lockfd = NoPid] \in Env
  BY <1>1 DEF Env
<1>3. QED
  BY <1>2 DEF Compiling, Process, Label, MainLabel, SemCalls

\* The steps of main that change nothing but the process: before grab_lock
\* nothing is held, and after it what is held stays.
LEMMA MainKeeps ==
  ASSUME IndInv, NEW p \in Pid,
         \/ Preprocess(p) \/ TellNobody(p) \/ Main(p) \/ ReadConfig(p)
         \/ NoName(p) \/ Fstat(p)
         \/ PickMakeByte(p) \/ NeedSlow(p) \/ PickFastByte(p)
         \/ AlreadyGotIt(p) \/ GrabTopMake(p) \/ Unaltered(p) \/ RunExec(p)
  PROVE  IndInv'
<1>a. TypeOK
  BY DEF IndInv
<1>b. proc[p] \in Process /\ proc[p].env \in Env /\ proc[p].sec \in Section
  BY <1>a, OwnType
<1> USE DEF At, Grabbing
<1>1. CASE Preprocess(p)
  BY <1>1, <1>b, GoesExec, LocalKeeps DEF Preprocess, Program
<1>2. CASE Main(p)
  <2>1. Goes(p, [proc[p] EXCEPT !.pc = "again"])
    BY <1>2, <1>b DEF Main, Goes, Process, Label, MainLabel, SemCalls, Unlocked
  <2>2. QED
    BY <1>2, <2>1, LocalKeeps DEF Main
<1>3. CASE ReadConfig(p)
  <2> DEFINE s == config[proc[p].dir]
             t == [s EXCEPT !.ccache = s.ccache /\ ~proc[p].noccache,
                            !.distcc = DistccDirectly(proc[p], s)]
             r == [proc[p] EXCEPT !.pc = "fstat", !.sec = t,
                     !.ccache_then_distcc = @ \/ DistccByCcache(proc[p], s)]
  <2>1. s \in Section
    BY <1>a, <1>b, ConstantsOK DEF TypeOK, Process
  <2>2. DistccDirectly(proc[p], s) \in BOOLEAN /\ DistccByCcache(proc[p], s) \in BOOLEAN
    BY DEF DistccDirectly, DistccByCcache
  <2>3. t \in Section
    BY <2>1, <2>2 DEF Section
  <2>4. r \in Process /\ r.pc = "fstat"
    BY <2>2, <2>3, <1>b DEF Process, Label, MainLabel, SemCalls
  <2>5. Goes(p, r)
    BY <1>3, <2>4 DEF ReadConfig, Goes, Unlocked, SemCalls
  <2>6. QED
    BY <1>3, <2>5, LocalKeeps DEF ReadConfig
<1>4. CASE NoName(p)
  <2>1. Goes(p, [proc[p] EXCEPT !.pc = "crash"])
    BY <1>4, <1>b DEF NoName, Goes, Process, Label, MainLabel, SemCalls,
       Unlocked
  <2>2. QED
    BY <1>4, <2>1, LocalKeeps DEF NoName
<1>5. CASE Fstat(p)
  <2>1. Goes(p, [proc[p] EXCEPT !.pc = "grab", !.st = stamp])
    BY <1>5, <1>a, <1>b DEF Fstat, TypeOK, Goes, Process, Label, MainLabel,
       SemCalls, Unlocked
  <2>2. QED
    BY <1>5, <2>1, LocalKeeps DEF Fstat
<1>6. CASE PickMakeByte(p) \/ PickFastByte(p)
  <2>0. /\ MakeBytes(proc[p].sec, Depth(proc[p].env.lock)) \subseteq Int
        /\ FastBytes(proc[p].sec) \subseteq Int
    BY DEF MakeBytes, FastBytes
  <2>1. PICK b \in Int : Local(p, [proc[p] EXCEPT !.pc = "fcntl", !.want = b])
    BY <1>6, <2>0 DEF PickMakeByte, PickFastByte
  <2>2. Goes(p, [proc[p] EXCEPT !.pc = "fcntl", !.want = b])
    BY <1>6, <1>b DEF PickMakeByte, PickFastByte, Goes, Process, Label,
       MainLabel, SemCalls, Unlocked
  <2>3. QED
    BY <2>1, <2>2, LocalKeeps
<1>7. CASE NeedSlow(p)
  <2>1. Goes(p, [proc[p] EXCEPT !.pc = "sem"])
    BY <1>7, <1>b DEF NeedSlow, Goes, Process, Label, MainLabel, SemCalls,
       Unlocked
  <2>2. QED
    BY <1>7, <2>1, LocalKeeps DEF NeedSlow
<1>8. CASE AlreadyGotIt(p)
  <2>1. Goes(p, [proc[p] EXCEPT !.pc = "restat", !.undo = "nothing"])
    BY <1>8, <1>b DEF AlreadyGotIt, Goes, Process, Label, MainLabel, SemCalls,
       Unlocked, Locked
  <2>2. QED
    BY <1>8, <2>1, LocalKeeps DEF AlreadyGotIt
<1>9. CASE GrabTopMake(p)
  <2> DEFINE r == [proc[p] EXCEPT !.pc = "restat", !.undo = "decrement",
                                  !.env.lock = Level(0)]
  <2>1. [proc[p].env EXCEPT !.lock = Level(0)] \in Env
    BY <1>b DEF Env, Level
  <2>2. r \in Process /\ r.pc = "restat" /\ r.undo = "decrement"
    BY <2>1, <1>b DEF Process, Label, MainLabel, SemCalls
  <2>3. Goes(p, r)
    BY <1>9, <2>2 DEF GrabTopMake, Goes, Unlocked, SemCalls, Locked
  <2>4. QED
    BY <1>9, <2>3, LocalKeeps DEF GrabTopMake
<1>10. CASE Unaltered(p)
  <2>1. Goes(p, [proc[p] EXCEPT !.pc = "run"])
    BY <1>10, <1>b DEF Unaltered, Goes, Process, Label, MainLabel, SemCalls,
       Locked
  <2>2. QED
    BY <1>10, <2>1, LocalKeeps DEF Unaltered
<1>11. CASE RunExec(p)
  <2>1. Target(proc[p]) \in Program
    BY DEF Target, Program
  <2>2. QED
    BY <1>11, <2>1, <1>b, GoesExec, LocalKeeps DEF RunExec
<1>12. CASE TellNobody(p)
  <2>1. /\ Compiling(proc[p]) \in Process
        /\ Compiling(proc[p]).pc = "again"
    BY <1>b, CompilingType
  <2>2. Goes(p, Compiling(proc[p]))
    BY <1>12, <2>1 DEF TellNobody, Goes, Unlocked, SemCalls
  <2>3. QED
    BY <1>12, <2>2, LocalKeeps DEF TellNobody
<1>13. QED
  BY <1>1, <1>2, <1>3, <1>4, <1>5, <1>6, <1>7, <1>8, <1>9, <1>10, <1>11, <1>12

\* The '#' changes nothing the invariant speaks of, also not in its owner.
LEMMA TellOwnerKeeps ==
  ASSUME IndInv, NEW p \in Pid, TellOwner(p)
  PROVE  IndInv'
<1> DEFINE owner == proc[p].env.lockfd
           told == [proc EXCEPT ![owner].told = TRUE]
           r == Compiling(told[p])
<1>a. TypeOK
  BY DEF IndInv
<1>1. owner \in Pid
  BY DEF TellOwner
<1>2. /\ told \in [Pid -> Process]
      /\ \A q \in Pid : /\ told[q].pc = proc[q].pc
                        /\ told[q].undo = proc[q].undo
                        /\ told[q].sec = proc[q].sec
  <2> DEFINE o == [proc[owner] EXCEPT !.told = TRUE]
  <2>1. proc[owner] \in Process
    BY <1>1, <1>a, OwnType
  <2>2. /\ o \in Process /\ o.pc = proc[owner].pc
        /\ o.undo = proc[owner].undo /\ o.sec = proc[owner].sec
    BY <2>1 DEF Process
  <2>3. told = [proc EXCEPT ![owner] = o]
    OBVIOUS
  <2> HIDE DEF o, told
  <2>4. QED
    BY <1>1, <1>a, <2>2, <2>3 DEF TypeOK
<1>3. r \in Process /\ r.pc = "again"
  BY <1>2, CompilingType
<1>4. proc' = [told EXCEPT ![p] = r] /\ UNCHANGED <<locks, sem, file>>
  BY DEF TellOwner
<1> HIDE DEF told, r, owner
<1>5. TypeOK'
  BY <1>a, <1>2, <1>3, <1>4, SemSame, FileTyped DEF TypeOK
<1>6. OthersKeep(p)
  BY <1>2, <1>4, SemSame DEF OthersKeep, Creating
<1>7. proc'[p].pc = "again"
  BY <1>2, <1>3, <1>4
<1>8. OwnKeep(p)
  <2>1. proc[p].pc \in Unlocked
    BY DEF TellOwner, At, Unlocked, SemCalls
  <2>2. QED
    BY <2>1, <1>7, <1>4, SemSame
    DEF OwnKeep, Locked, IndInv, NothingHeld
<1>9. OneCreator'
  BY <1>4, <1>6, <1>7, SemSame, NotCreating
<1>10. QED
  BY <1>4, <1>5, <1>6, <1>8, <1>9, SemSame, StepKeeps DEF IndInv

\* grab_fcntl_lock: the byte is on the file main will close.
LEMMA LockByteKeeps ==
  ASSUME IndInv, NEW p \in Pid, LockByte(p)
  PROVE  IndInv'
<1>a. TypeOK
  BY DEF IndInv
<1>b. proc[p] \in Process /\ proc[p].env \in Env /\ proc[p].sec \in Section
  BY <1>a, OwnType
<1>1. PICK r \in Process : /\ proc' = [proc EXCEPT ![p] = r]
                           /\ r.pc = "restat" /\ r.undo # "drop"
                           /\ r.sec = proc[p].sec
  <2> DEFINE lock == IF IsMake(proc[p]) THEN Level(Depth(proc[p].env.lock))
                                        ELSE Fast
             undo == IF IsMake(proc[p]) THEN "decrement" ELSE "unset"
             env == [proc[p].env EXCEPT !.lock = lock]
             none == 0
             r == [proc[p] EXCEPT !.pc = "restat", !.want = none, !.undo = undo,
                                  !.env = env]
  <2>1. lock \in Int
    BY <1>b DEF Env, Level, Depth, Fast
  <2>2. proc' = [proc EXCEPT ![p] = r]
    BY DEF LockByte
  <2>3. undo \in {"decrement", "unset"} /\ none \in Int
    OBVIOUS
  <2> HIDE DEF lock, undo, none
  <2>4. env \in Env
    BY <1>b, <2>1 DEF Env
  <2> HIDE DEF env
  <2>5. /\ r \in Process /\ r.pc = "restat" /\ r.undo # "drop"
        /\ r.sec = proc[p].sec
    BY <1>b, <2>3, <2>4 DEF Process, Label, MainLabel, SemCalls
  <2> HIDE DEF r
  <2>6. QED
    BY <2>2, <2>5
<1>2. /\ locks' = locks \cup {<<proc[p].sec.lock_file, proc[p].want, p>>}
      /\ UNCHANGED <<sem, file>>
  BY DEF LockByte
<1>3. proc[p].sec.lock_file \in File /\ proc[p].want \in Int
  BY <1>b DEF Process, Section
<1>4. TypeOK'
  <2>1. locks' \subseteq File \X Int \X Pid
    BY <1>a, <1>2, <1>3 DEF TypeOK
  <2>2. proc' \in [Pid -> Process]
    BY <1>a, <1>1 DEF TypeOK
  <2>3. QED
    BY <1>a, <1>2, <2>1, <2>2, SemSame, FileTyped DEF TypeOK
<1>5. OthersKeep(p)
  <2>1. \A q \in Pid \ {p} : proc'[q] = proc[q]
    BY <1>a, <1>1 DEF TypeOK
  <2>2. \A l \in locks' : l[3] # p => l \in locks
    BY <1>2
  <2>3. QED
    BY <1>2, <2>1, <2>2, SemSame DEF OthersKeep, Creating
<1>6. semadj[p] = 0 /\ \A l \in locks : l[3] # p
  BY DEF LockByte, At, Unlocked, SemCalls, IndInv, NothingHeld
<1>7. proc'[p].pc = "restat" /\ proc'[p].undo # "drop"
      /\ proc'[p].sec = proc[p].sec
  BY <1>a, <1>1 DEF TypeOK
<1>8. OwnKeep(p)
  BY <1>2, <1>6, <1>7, SemSame DEF OwnKeep, Unlocked, SemCalls
<1>9. OneCreator'
  BY <1>2, <1>5, <1>7, SemSame, NotCreating
<1>10. QED
  BY <1>2, <1>4, <1>5, <1>8, <1>9, SemSame, StepKeeps DEF IndInv

\* Before the semaphore has a value nobody has a unit.
LEMMA NoUnits ==
  ASSUME IndInv, semcap = 0
  PROVE  semval = 0 /\ SlowHolders = {}
<1>1. semval = 0 /\ Cardinality(SlowHolders) = 0
  BY HoldersFinite DEF IndInv, TypeOK, UnitsConserved
<1>2. QED
  BY <1>1, HoldersFinite, FS_EmptySet

\* p goes from one call of make_semaphore to the next.
LEMMA NextCall ==
  ASSUME IndInv, NEW p \in Pid, proc[p].pc \in SemCalls, NEW label \in SemCalls,
         proc' = [proc EXCEPT ![p].pc = label]
  PROVE  /\ proc' \in [Pid -> Process]
         /\ proc'[p].pc = label
         /\ \A q \in Pid \ {p} : proc'[q] = proc[q]
         /\ \A q \in Pid : proc[q].pc \in Unlocked <=> proc'[q].pc \in Unlocked
<1>1. proc \in [Pid -> Process]
  BY DEF IndInv, TypeOK
<1> DEFINE r == [proc[p] EXCEPT !.pc = label]
<1>2. r \in Process /\ r.pc = label
  BY <1>1 DEF Process, Label, MainLabel, SemCalls
<1>3. proc' = [proc EXCEPT ![p] = r]
  OBVIOUS
<1> HIDE DEF r
<1>4. proc' \in [Pid -> Process] /\ proc'[p] = r
      /\ \A q \in Pid \ {p} : proc'[q] = proc[q]
  BY <1>1, <1>2, <1>3
<1>5. QED
  BY <1>2, <1>4 DEF Unlocked, SemCalls

\* semget(IPC_CREAT | IPC_EXCL): p is the only one to create the semaphore.
LEMMA CreateSemKeeps ==
  ASSUME IndInv, NEW p \in Pid, CreateSem(p)
  PROVE  IndInv'
<1>1. /\ proc[p].pc = "sem" /\ semmode = "none" /\ semmode' = "denied"
      /\ proc' = [proc EXCEPT ![p].pc = "setperm"]
      /\ UNCHANGED <<locks, semval, semadj, semcap, file>>
  BY DEF CreateSem, At
<1>2. /\ proc' \in [Pid -> Process] /\ proc'[p].pc = "setperm"
      /\ \A q \in Pid \ {p} : proc'[q] = proc[q]
      /\ \A q \in Pid : proc[q].pc \in Unlocked <=> proc'[q].pc \in Unlocked
  BY <1>1, NextCall DEF SemCalls
<1>3. TypeOK'
  BY <1>1, <1>2, FileTyped DEF TypeOK, IndInv
<1>4. NothingHeld'
  BY <1>1, <1>2 DEF IndInv, NothingHeld
<1>5. UndoKnows'
  BY <1>1, <1>2 DEF IndInv, UndoKnows, Locked
<1>6. UnitsConserved'
  BY <1>1 DEF IndInv, UnitsConserved, SlowHolders
<1>7. OneCreator'
  <2>1. Creating = {} /\ semcap = 0
    BY <1>1 DEF IndInv, OneCreator
  <2>2. Creating' = {p}
    BY <1>2, <2>1 DEF Creating
  <2>3. QED
    BY <1>1, <2>1, <2>2 DEF OneCreator
<1>8. QED
  BY <1>3, <1>4, <1>5, <1>6, <1>7 DEF IndInv

\* semctl(IPC_SET): from here on semop is permitted, and sleeps.
LEMMA SetPermKeeps ==
  ASSUME IndInv, NEW p \in Pid, SetPerm(p)
  PROVE  IndInv'
<1>1. /\ proc[p].pc = "setperm" /\ semmode' = "granted"
      /\ proc' = [proc EXCEPT ![p].pc = "setval"]
      /\ UNCHANGED <<locks, semval, semadj, semcap, file>>
  BY DEF SetPerm, At
<1>2. /\ proc' \in [Pid -> Process] /\ proc'[p].pc = "setval"
      /\ \A q \in Pid \ {p} : proc'[q] = proc[q]
      /\ \A q \in Pid : proc[q].pc \in Unlocked <=> proc'[q].pc \in Unlocked
  BY <1>1, NextCall DEF SemCalls
<1>3. TypeOK'
  BY <1>1, <1>2, FileTyped DEF TypeOK, IndInv
<1>4. NothingHeld'
  BY <1>1, <1>2 DEF IndInv, NothingHeld
<1>5. UndoKnows'
  BY <1>1, <1>2 DEF IndInv, UndoKnows, Locked
<1>6. UnitsConserved'
  BY <1>1 DEF IndInv, UnitsConserved, SlowHolders
<1>7. OneCreator'
  <2>1. Creating' = Creating
    BY <1>1, <1>2 DEF Creating
  <2>2. QED
    BY <1>1, <2>1 DEF IndInv, OneCreator
<1>8. QED
  BY <1>3, <1>4, <1>5, <1>6, <1>7 DEF IndInv

\* semctl(SETVAL) opens the counting lock; the adjustments it clears are none.
LEMMA SetValKeeps ==
  ASSUME IndInv, NEW p \in Pid, SetVal(p)
  PROVE  /\ IndInv'
         /\ semcap = 0 /\ semcap' \in Nat \ {0}
         /\ SlowHolders' = SlowHolders
<1>1. /\ proc[p].pc = "setval"
      /\ semval' = proc[p].sec.cpus /\ semcap' = proc[p].sec.cpus
      /\ semadj' = [q \in Pid |-> 0]
      /\ proc' = [proc EXCEPT ![p].pc = "sem"]
      /\ UNCHANGED <<locks, semmode, file>>
  BY DEF SetVal, At
<1>2. /\ proc' \in [Pid -> Process] /\ proc'[p].pc = "sem"
      /\ \A q \in Pid \ {p} : proc'[q] = proc[q]
      /\ \A q \in Pid : proc[q].pc \in Unlocked <=> proc'[q].pc \in Unlocked
  BY <1>1, NextCall DEF SemCalls
<1>3. p \in Creating /\ semcap = 0 /\ semmode # "none"
  BY <1>1 DEF IndInv, OneCreator, Creating
<1>4. semcap' \in Nat \ {0} /\ semval' \in Nat
  BY <1>1, OwnType DEF Section, IndInv
<1>5. SlowHolders = {}
  BY <1>3, NoUnits
<1>6. \A q \in Pid : semadj[q] = 0
  BY <1>5 DEF SlowHolders
<1>7. SlowHolders' = {}
  BY <1>1 DEF SlowHolders
<1>8. Cardinality(SlowHolders') = 0
  BY <1>7, FS_EmptySet
<1>9. UnitsConserved'
  BY <1>1, <1>4, <1>8 DEF UnitsConserved
<1>10. TypeOK'
  BY <1>1, <1>2, <1>4, FileTyped DEF TypeOK, IndInv
<1>11. NothingHeld'
  BY <1>1, <1>2 DEF IndInv, NothingHeld
<1>12. UndoKnows'
  BY <1>1, <1>2, <1>6 DEF IndInv, UndoKnows, Locked
<1>13. OneCreator'
  <2>1. Creating' = {}
    BY <1>2, <1>3 DEF Creating, IndInv, OneCreator
  <2>2. QED
    BY <1>1, <1>3, <2>1 DEF OneCreator
<1>14. QED
  BY <1>3, <1>4, <1>5, <1>7, <1>9, <1>10, <1>11, <1>12, <1>13 DEF IndInv

\* All three change nothing else that a process, or a byte, depends on.
LEMMA SemCallsStep ==
  ASSUME IndInv, NEW p \in Pid, CreateSem(p) \/ SetPerm(p) \/ SetVal(p)
  PROVE  /\ proc[p].pc \in SemCalls
         /\ UNCHANGED <<locks, semadj, config>>
         /\ \E label \in SemCalls :
              proc' = [proc EXCEPT ![p] = [proc[p] EXCEPT !.pc = label]]
<1>1. CASE CreateSem(p)
  BY <1>1 DEF CreateSem, SemCalls, At, file
<1>2. CASE SetPerm(p)
  BY <1>2 DEF SetPerm, SemCalls, At, file
<1>3. CASE SetVal(p)
  <2>1. SlowHolders = {}
    BY <1>3, SetValKeeps, NoUnits
  <2>2. semadj = [q \in Pid |-> 0]
    BY <2>1 DEF SlowHolders, IndInv, TypeOK
  <2>3. QED
    BY <1>3, <2>2 DEF SetVal, SemCalls, At, file
<1>4. QED
  BY <1>1, <1>2, <1>3

\* grab_sem: p had no unit, one was free, now it is p's.
LEMMA GrabSemKeeps ==
  ASSUME IndInv, NEW p \in Pid, GrabSem(p)
  PROVE  /\ IndInv'
         /\ p \notin SlowHolders
         /\ Cardinality(SlowHolders) < semcap
         /\ SlowHolders' = SlowHolders \cup {p}
<1>a. TypeOK
  BY DEF IndInv
<1>b. proc[p] \in Process /\ proc[p].env \in Env
  BY <1>a, OwnType
<1>1. semadj[p] = 0 /\ \A l \in locks : l[3] # p
  BY DEF GrabSem, At, Unlocked, SemCalls, IndInv, NothingHeld
<1>2. semadj' = [semadj EXCEPT ![p] = 1]
  BY <1>1 DEF GrabSem
<1>3. /\ semval > 0 /\ semval' = semval - 1
      /\ UNCHANGED <<semcap, semmode, locks, file>>
  BY DEF GrabSem
<1>4. p \notin SlowHolders /\ SlowHolders' = SlowHolders \cup {p}
  BY <1>a, <1>1, <1>2 DEF SlowHolders, TypeOK
<1>5. Cardinality(SlowHolders') = Cardinality(SlowHolders) + 1
  BY <1>4, HoldersFinite, FS_AddElement
<1>6. UnitsConserved' /\ Cardinality(SlowHolders) < semcap
  BY <1>a, <1>3, <1>5, HoldersFinite DEF IndInv, UnitsConserved, TypeOK
<1>7. PICK r \in Process : /\ proc' = [proc EXCEPT ![p] = r]
                           /\ r.pc = "restat" /\ r.undo = "drop"
  <2> DEFINE env == [proc[p].env EXCEPT !.lock = Slow, !.by = p]
             r == [proc[p] EXCEPT !.pc = "restat", !.undo = "drop",
                                  !.env = env]
  <2>0. Slow \in Int
    BY DEF Slow
  <2>1. env \in Env
    BY <1>b, <2>0 DEF Env
  <2>2. proc' = [proc EXCEPT ![p] = r]
    BY DEF GrabSem
  <2> HIDE DEF env
  <2>3. r \in Process /\ r.pc = "restat" /\ r.undo = "drop"
    BY <1>b, <2>1 DEF Process, Label, MainLabel, SemCalls
  <2> HIDE DEF r
  <2>4. QED
    BY <2>2, <2>3
<1>8. TypeOK'
  BY <1>a, <1>2, <1>3, <1>7, FileTyped DEF TypeOK
<1>9. OthersKeep(p)
  BY <1>a, <1>2, <1>3, <1>7 DEF OthersKeep, TypeOK, Creating
<1>10. OwnKeep(p)
  BY <1>a, <1>1, <1>2, <1>3, <1>7 DEF OwnKeep, TypeOK, Unlocked, SemCalls
<1>11. OneCreator'
  BY <1>a, <1>3, <1>7, <1>9, NotCreating DEF TypeOK
<1>12. QED
  BY <1>4, <1>6, <1>8, <1>9, <1>10, <1>11, StepKeeps DEF IndInv

\* What undo leaves in the environment.
LEMMA UndoType ==
  ASSUME NEW r \in Process
  PROVE  UndoEnv(r) \in Env
<1>1. r.env \in Env
  BY DEF Process
<1>2. [r.env EXCEPT !.lock = r.env.lock - 1] \in Env
  BY <1>1 DEF Env
<1>3. Unset \in Int
  BY DEF Unset
<1>4. [r.env EXCEPT !.lock = Unset, !.by = NoPid] \in Env
  BY <1>1, <1>3 DEF Env
<1>5. QED
  BY <1>1, <1>2, <1>4 DEF UndoEnv

\* goto again.
LEMMA RestartType ==
  ASSUME NEW r \in Process, NEW nodistcc \in BOOLEAN
  PROVE  /\ Restart(r, nodistcc) \in Process
         /\ Restart(r, nodistcc).pc = "again"
BY UndoType, NoSectionType DEF Restart, Process, Label, MainLabel, SemCalls

\* What Altered, DistccFailed and ReadPipe have in common.
LEMMA LetGoKeeps ==
  ASSUME IndInv, NEW p \in Pid, proc[p].pc \in Locked, UndoSem(p),
         proc' \in [Pid -> Process],
         \A q \in Pid \ {p} :
           proc'[q] = proc[q] \/ (proc'[q] = Idle /\ proc[q].pc = "zombie"),
         \/ proc'[p].pc = "again" /\ CloseLockFile(p)
         \/ proc'[p].pc = "collect" /\ UNCHANGED locks,
         UNCHANGED file
  PROVE  IndInv'
<1>a. TypeOK
  BY DEF IndInv
<1>1. GivesBack(p)
  BY UndoGivesBack
<1>2. /\ UnitsConserved' /\ semval' \in Nat /\ semcap' \in Nat
      /\ semadj' \in [Pid -> {0, 1}]
  BY <1>1, GivesBackKeeps DEF IndInv
<1>3. locks' \subseteq locks /\ UNCHANGED <<semcap, semmode>>
  BY DEF CloseLockFile, UndoSem
<1>4. TypeOK'
  BY <1>a, <1>2, <1>3, FileTyped DEF TypeOK
<1>5. OthersKeep(p)
  BY <1>a, <1>1, <1>3
  DEF OthersKeep, GivesBack, TypeOK, Idle, Unlocked, SemCalls, Creating
<1>6. OwnKeep(p)
  <2>1. CASE proc'[p].pc = "again" /\ CloseLockFile(p)
    <3>1. \A l \in locks : l[3] = p => l[1] = proc[p].sec.lock_file
      BY DEF IndInv, UndoKnows
    <3>2. semadj'[p] = 0 /\ \A l \in locks' : l[3] # p
      BY <1>a, <1>1, <2>1, <3>1 DEF CloseLockFile, GivesBack, TypeOK
    <3>3. QED
      BY <2>1, <3>2 DEF OwnKeep, Locked
  <2>2. CASE proc'[p].pc = "collect"
    BY <2>2 DEF OwnKeep, Locked, Unlocked, SemCalls
  <2>3. QED
    BY <2>1, <2>2
<1>7. OneCreator'
  BY <1>3, <1>5, NotCreating
<1>8. QED
  BY <1>2, <1>4, <1>5, <1>6, <1>7, StepKeeps DEF IndInv

\* The three steps at which main lets go of its lock.
LEMMA AlteredKeeps ==
  ASSUME IndInv, NEW p \in Pid, Altered(p) \/ ReadPipe(p) \/ DistccFailed(p)
  PROVE  IndInv' /\ GivesBack(p)
<1>a. TypeOK /\ proc[p] \in Process
  BY OwnType DEF IndInv
<1>0. proc[p].pc \in Locked /\ UndoSem(p) /\ UNCHANGED file
  BY DEF Altered, ReadPipe, DistccFailed, At, Locked
<1>b. GivesBack(p)
  BY <1>0, UndoGivesBack
<1>1. CASE Altered(p)
  <2>1. proc' = [proc EXCEPT ![p] = Restart(proc[p], FALSE)] /\ CloseLockFile(p)
    BY <1>1 DEF Altered
  <2>2. QED
    BY <1>a, <1>b, <1>0, <2>1, RestartType, LetGoKeeps DEF TypeOK
<1>2. CASE ReadPipe(p)
  <2> DEFINE r == [proc[p] EXCEPT !.pc = "collect", !.env = UndoEnv(proc[p]),
                                  !.undo = "none"]
  <2>1. r \in Process /\ r.pc = "collect"
    BY <1>a, UndoType DEF Process, Label, MainLabel, SemCalls
  <2>2. proc' = [proc EXCEPT ![p] = r] /\ UNCHANGED locks
    BY <1>2 DEF ReadPipe
  <2> HIDE DEF r
  <2>3. QED
    BY <1>a, <1>b, <1>0, <2>1, <2>2, LetGoKeeps DEF TypeOK
<1>3. CASE DistccFailed(p)
  <2> DEFINE r == [Restart(proc[p], TRUE) EXCEPT !.env.prefix = FALSE]
  <2>1. PICK q \in Children(p) : /\ At(q, "zombie")
                                 /\ proc' = [proc EXCEPT ![q] = Idle, ![p] = r]
    BY <1>3 DEF DistccFailed
  <2>2. q \in Pid /\ q # p /\ proc[q].pc = "zombie"
    BY <2>1, <1>3 DEF Children, At, DistccFailed
  <2>3. r \in Process /\ r.pc = "again"
    <3>1. Restart(proc[p], TRUE) \in Process
          /\ Restart(proc[p], TRUE).pc = "again"
      BY <1>a, RestartType
    <3>2. Restart(proc[p], TRUE).env \in Env
      BY <3>1 DEF Process
    <3>3. [Restart(proc[p], TRUE).env EXCEPT !.prefix = FALSE] \in Env
      BY <3>2 DEF Env
    <3>4. QED
      BY <3>1, <3>3 DEF Process
  <2> HIDE DEF r
  <2>4. /\ proc' \in [Pid -> Process] /\ proc'[p] = r /\ proc'[q] = Idle
        /\ \A x \in Pid \ {p, q} : proc'[x] = proc[x]
    BY <1>a, <2>1, <2>2, <2>3, IdleType DEF TypeOK
  <2>5. CloseLockFile(p)
    BY <1>3 DEF DistccFailed
  <2>6. QED
    BY <1>b, <1>0, <2>2, <2>3, <2>4, <2>5, LetGoKeeps
<1>4. QED
  BY <1>1, <1>2, <1>3

\* The steps that are an exit and nothing else.
LEMMA ExitSteps ==
  ASSUME TypeOK, NEW p \in Pid,
         \/ CalledMyself(p) \/ SemDenied(p) \/ Collect(p) \/ DistccReturned(p)
         \/ ProgramEnds(p) \/ CcacheHit(p) \/ DistccWorks(p) \/ Crash(p)
         \/ Kill(p)
  PROVE  \E status \in {"none", "done", "nodist", "killed"} : Exit(p, status)
<1>1. \A q \in Children(p) : proc[q].status \in {"none", "done", "nodist", "killed"}
  BY DEF Children, TypeOK, Process
<1>2. QED
  BY <1>1 DEF CalledMyself, SemDenied, Collect, DistccReturned, ProgramEnds,
              CcacheHit, DistccWorks, Crash, Kill

\* ccache is forked by a process that keeps its lock.
LEMMA RunCcacheKeeps ==
  ASSUME IndInv, NEW p \in Pid, RunCcache(p)
  PROVE  \E r, image \in Process :
           /\ Goes(p, r) /\ image.pc \in Program \cup {"main"}
           /\ Fork(p, r, image)
<1> DEFINE r == [proc[p] EXCEPT !.env.lockfd = p, !.env.prefix = TRUE]
           s == [r EXCEPT !.pc = "pipe"]
           c == [r EXCEPT !.wfd = @ \cup {p}]
           image == Exec(c, Target(r))
<1>b. proc[p] \in Process /\ proc[p].env \in Env
  BY OwnType DEF IndInv
<1>1. [[proc[p].env EXCEPT !.lockfd = p] EXCEPT !.prefix = TRUE] \in Env
  BY <1>b DEF Env
<1>2. r \in Process /\ r.undo = proc[p].undo /\ r.sec = proc[p].sec
  BY <1>b, <1>1 DEF Process
<1>3. Target(r) \in Program
  BY DEF Target, Program
<1>4. proc[p].pc = "run" /\ Fork(p, s, image)
  BY DEF RunCcache, At
<1> HIDE DEF r
<1>5. /\ s \in Process /\ s.pc = "pipe" /\ s.undo = proc[p].undo
      /\ s.sec = proc[p].sec
  BY <1>2 DEF Process, Label, MainLabel, SemCalls
<1>6. c \in Process
  <2>1. r.wfd \cup {p} \in SUBSET Pid
    BY <1>2 DEF Process
  <2>2. QED
    BY <1>2, <2>1 DEF Process
<1> HIDE DEF s, c
<1>7. image \in Process /\ image.pc \in Program
  BY <1>3, <1>6, ExecType DEF Label
<1> HIDE DEF image
<1>8. Goes(p, s)
  BY <1>4, <1>5 DEF Goes, Locked
<1>9. QED
  BY <1>4, <1>5, <1>7, <1>8

\* So is distcc.
LEMMA RunDistccKeeps ==
  ASSUME IndInv, NEW p \in Pid, RunDistcc(p)
  PROVE  \E r, image \in Process :
           /\ Goes(p, r) /\ image.pc \in Program \cup {"main"}
           /\ Fork(p, r, image)
<1> DEFINE env == NoFallback(proc[p].env)
           r == [proc[p] EXCEPT !.env = env]
           s == [r EXCEPT !.pc = "wait"]
           image == Exec(r, Target(r))
<1>b. proc[p] \in Process /\ proc[p].env \in Env
  BY OwnType DEF IndInv
<1>1. env \in Env
  BY <1>b DEF NoFallback, Env
<1>3. Target(r) \in Program
  BY DEF Target, Program
<1>4. proc[p].pc = "run" /\ Fork(p, s, image)
  BY DEF RunDistcc, At
<1> HIDE DEF env
<1>2. r \in Process /\ r.undo = proc[p].undo /\ r.sec = proc[p].sec
  BY <1>b, <1>1 DEF Process
<1> HIDE DEF r
<1>5. /\ s \in Process /\ s.pc = "wait" /\ s.undo = proc[p].undo
      /\ s.sec = proc[p].sec
  BY <1>2 DEF Process, Label, MainLabel, SemCalls
<1> HIDE DEF s
<1>7. image \in Process /\ image.pc \in Program
  BY <1>2, <1>3, ExecType DEF Label
<1> HIDE DEF image
<1>8. Goes(p, s)
  BY <1>4, <1>5 DEF Goes, Locked
<1>9. QED
  BY <1>4, <1>5, <1>7, <1>8

\* The two steps of main that fork.
LEMMA ForkSteps ==
  ASSUME IndInv, NEW p \in Pid, RunCcache(p) \/ RunDistcc(p)
  PROVE  IndInv'
<1>1. PICK r \in Process, image \in Process :
        /\ Goes(p, r) /\ image.pc \in Program \cup {"main"} /\ Fork(p, r, image)
  BY RunCcacheKeeps, RunDistccKeeps
<1>2. proc[p].pc # "free"
  BY DEF RunCcache, RunDistcc, At
<1>3. QED
  BY <1>1, <1>2, ForkKeeps

\* make, compilers, ccache and distcc start commands, or go on themselves.
LEMMA ProgramKeeps ==
  ASSUME IndInv, NEW p \in Pid,
         ProgramCalls(p) \/ CcacheStarts(p) \/ CcacheMiss(p) \/ DistccHasNoHost(p)
  PROVE  IndInv'
<1>b. proc[p] \in Process
  BY OwnType DEF IndInv
<1>c. Program \subseteq Label /\ "main" \in Label
  BY DEF Label, MainLabel, SemCalls
<1>1. CASE ProgramCalls(p)
  <2> DEFINE r == [proc[p] EXCEPT !.calls = @ + 1]
  <2>1. PICK c \in Cmd, d \in Dir :
          Spawn(p, r, Exec([proc[p] EXCEPT !.cmd = c, !.dir = d], "main"))
    <3>1. proc[p].pc \in Callers
      BY <1>1 DEF ProgramCalls
    <3>2. Spawns[proc[p].pc] \subseteq Cmd
      BY <3>1, ConstantsOK
    <3>3. QED
      BY <1>1, <3>2 DEF ProgramCalls
  <2>2. proc[p].calls + 1 \in 0 .. MaxCalls
    <3>1. proc[p].calls \in 0 .. MaxCalls /\ MaxCalls \in Nat
      BY <1>b, ConstantsOK DEF Process
    <3>2. proc[p].calls < MaxCalls
      BY <1>1 DEF ProgramCalls
    <3>3. QED
      BY <3>1, <3>2
  <2>3. proc[p].pc \in Program /\ proc[p].pc # "free"
    BY <1>1 DEF ProgramCalls, Callers, Program
  <2>4. Goes(p, r)
    BY <1>b, <2>2, <2>3 DEF Goes, Process, Program
  <2>5. [proc[p] EXCEPT !.cmd = c, !.dir = d] \in Process
    BY <1>b DEF Process
  <2> DEFINE image == Exec([proc[p] EXCEPT !.cmd = c, !.dir = d], "main")
  <2>6. image \in Process /\ image.pc = "main"
    BY <1>c, <2>5, ExecType
  <2>7. Spawn(p, r, image)
    BY <2>1
  <2> HIDE DEF r, image
  <2>8. QED
    BY <2>3, <2>4, <2>6, <2>7, SpawnKeeps
<1>2. CASE CcacheStarts(p)
  <2> DEFINE r == [proc[p] EXCEPT !.pc = "cached"]
             c == [r EXCEPT !.cmd = "pre"]
  <2>1. r \in Process /\ r.pc \in Program
    BY <1>b DEF Process, Label, Program
  <2>2. Goes(p, r)
    BY <2>1 DEF Goes
  <2>3. c \in Process
    BY <2>1 DEF Process, Cmd
  <2>4. proc[p].pc # "free" /\ (Fork(p, r, Exec(c, "main")) \/ Local(p, r))
    BY <1>2 DEF CcacheStarts, At
  <2> HIDE DEF r, c
  <2>5. QED
    BY <1>c, <2>2, <2>3, <2>4, ExecType, ForkKeeps, LocalKeeps
<1>3. CASE CcacheMiss(p)
  <2> DEFINE r == [proc[p] EXCEPT !.pc = "ccached"]
             s == [proc[p] EXCEPT !.pc = "compile"]
  <2>1. Goes(p, r) /\ Goes(p, s)
    BY <1>b DEF Goes, Process, Label, Program
  <2>2. proc[p].pc # "free" /\ (Fork(p, r, Exec(proc[p], "main")) \/ Local(p, s))
    BY <1>3 DEF CcacheMiss, At
  <2> HIDE DEF r, s
  <2>3. QED
    BY <1>b, <1>c, <2>1, <2>2, ExecType, ForkKeeps, LocalKeeps
<1>4. CASE DistccHasNoHost(p)
  <2> DEFINE s == [proc[p] EXCEPT !.pc = "compile"]
  <2>1. Goes(p, s)
    BY <1>b DEF Goes, Process, Label, Program
  <2>2. Exit(p, "nodist") \/ Local(p, s)
    BY <1>4 DEF DistccHasNoHost
  <2> HIDE DEF s
  <2>3. QED
    BY <2>1, <2>2, ExitKeeps, LocalKeeps
<1>5. QED
  BY <1>1, <1>2, <1>3, <1>4

\* A command the user types, with a clean environment.
LEMMA StartKeeps ==
  ASSUME IndInv, NEW p \in Pid, Start(p)
  PROVE  IndInv'
<1>1. PICK c \in Cmd, d \in Dir :
        Local(p, [Idle EXCEPT !.pc = "main", !.cmd = c, !.dir = d])
  BY ConstantsOK DEF Start
<1>2. [Idle EXCEPT !.pc = "main", !.cmd = c, !.dir = d] \in Process
  BY IdleType DEF Process, Label, MainLabel, SemCalls
<1>3. [Idle EXCEPT !.pc = "main", !.cmd = c, !.dir = d].pc = "main"
  BY IdleType DEF Process
<1>4. proc[p].pc = "free"
  BY DEF Start, Usable, At
<1>5. Goes(p, [Idle EXCEPT !.pc = "main", !.cmd = c, !.dir = d])
  BY <1>2, <1>3, <1>4 DEF Goes, Unlocked, SemCalls
<1>6. QED
  BY <1>1, <1>5, LocalKeeps

\* An edit of the config file.
LEMMA EditKeeps ==
  ASSUME IndInv, Edit
  PROVE  IndInv'
<1>1. config' \in Configs /\ stamp' \in Nat /\ edits' \in 0 .. MaxEdits
  BY ConstantsOK DEF Edit, IndInv, TypeOK
<1>2. UNCHANGED <<proc, locks, semval, semadj, semcap, semmode>>
  BY DEF Edit, sem
<1>3. TypeOK'
  BY <1>1, <1>2 DEF IndInv, TypeOK
<1>4. QED
  BY <1>2, <1>3 DEF IndInv, NothingHeld, UndoKnows, UnitsConserved,
     SlowHolders, OneCreator, Creating

-----------------------------------------------------------------------------
(* The invariant and the theorems.                                         *)

\* IndInv holds before the user types anything.
LEMMA InitInv == Init => IndInv
<1> SUFFICES ASSUME Init PROVE IndInv
  OBVIOUS
<1> USE DEF Init
<1>1. TypeOK
  BY IdleType, ConstantsOK DEF TypeOK
<1>2. NothingHeld
  BY DEF NothingHeld
<1>3. UndoKnows
  BY DEF UndoKnows, Idle, Locked
<1>4. SlowHolders = {}
  BY DEF SlowHolders
<1>5. UnitsConserved
  BY <1>4, FS_EmptySet DEF UnitsConserved
<1>6. OneCreator
  BY DEF OneCreator, Creating, Idle
<1>7. QED
  BY <1>1, <1>2, <1>3, <1>5, <1>6 DEF IndInv

\* Every step keeps IndInv, and says what it does to the semaphore.
LEMMA NextKeeps ==
  ASSUME IndInv, [Next]_vars
  PROVE  /\ IndInv'
         /\ \/ UNCHANGED <<semval, semadj, semcap>>
            \/ \E p \in Pid : GivesBack(p) \/ SetVal(p) \/ GrabSem(p)
<1>a. TypeOK
  BY DEF IndInv
<1>1. CASE UNCHANGED vars
  BY <1>1 DEF vars, sem, file, IndInv, TypeOK, NothingHeld, UndoKnows,
              UnitsConserved, SlowHolders, OneCreator, Creating
<1>2. CASE Edit
  BY <1>2, EditKeeps DEF Edit, sem
<1>3. ASSUME NEW p \in Pid,
             \/ Step(p) \/ ProgramCalls(p) \/ ProgramProgress(p)
             \/ Start(p) \/ Kill(p)
      PROVE  /\ IndInv'
             /\ \/ UNCHANGED <<semval, semadj, semcap>>
                \/ GivesBack(p) \/ SetVal(p) \/ GrabSem(p)
  <2>1. ASSUME NEW status, Exit(p, status)
        PROVE  GivesBack(p)
    BY <2>1 DEF Exit, GivesBack
  <2>2. ASSUME NEW r, NEW image, Fork(p, r, image)
        PROVE  UNCHANGED <<semval, semadj, semcap>> \/ GivesBack(p)
    BY <2>2, <2>1 DEF Fork, Spawn, sem
  <2>3. ASSUME NEW r, Local(p, r)
        PROVE  UNCHANGED <<semval, semadj, semcap>>
    BY <2>3 DEF Local, sem
  <2>4. CASE \/ CalledMyself(p) \/ SemDenied(p) \/ Collect(p)
             \/ DistccReturned(p) \/ ProgramEnds(p) \/ CcacheHit(p)
             \/ DistccWorks(p) \/ Crash(p) \/ Kill(p)
    BY <2>4, <2>1, <1>a, ExitSteps, ExitKeeps
  <2>5. CASE \/ Preprocess(p) \/ TellNobody(p) \/ Main(p) \/ ReadConfig(p)
             \/ NoName(p) \/ Fstat(p) \/ PickMakeByte(p) \/ NeedSlow(p)
             \/ PickFastByte(p) \/ AlreadyGotIt(p) \/ GrabTopMake(p)
             \/ Unaltered(p) \/ RunExec(p)
    <3>1. \E r : Local(p, r)
      BY <2>5 DEF Preprocess, TellNobody, Main, ReadConfig, NoName, Fstat,
                  PickMakeByte, NeedSlow, PickFastByte, AlreadyGotIt,
                  GrabTopMake, Unaltered, RunExec
    <3>2. QED
      BY <2>5, <2>3, <3>1, MainKeeps
  <2>6. CASE TellOwner(p)
    BY <2>6, TellOwnerKeeps DEF TellOwner, sem
  <2>7. CASE LockByte(p)
    BY <2>7, LockByteKeeps DEF LockByte, sem
  <2>8. CASE CreateSem(p) \/ SetPerm(p) \/ SetVal(p)
    BY <2>8, CreateSemKeeps, SetPermKeeps, SetValKeeps DEF CreateSem, SetPerm
  <2>9. CASE GrabSem(p)
    BY <2>9, GrabSemKeeps
  <2>10. CASE Altered(p) \/ ReadPipe(p) \/ DistccFailed(p)
    BY <2>10, AlteredKeeps
  <2>11. CASE RunCcache(p) \/ RunDistcc(p)
    BY <2>11, <2>2, ForkSteps DEF RunCcache, RunDistcc
  <2>12. CASE \/ ProgramCalls(p) \/ CcacheStarts(p) \/ CcacheMiss(p)
              \/ DistccHasNoHost(p)
    <3>1. IndInv'
      BY <2>12, ProgramKeeps
    <3>2. UNCHANGED <<semval, semadj, semcap>> \/ GivesBack(p)
      BY <2>12, <2>1, <2>2, <2>3
      DEF ProgramCalls, CcacheStarts, CcacheMiss, DistccHasNoHost, Spawn, sem
    <3>3. QED
      BY <3>1, <3>2
  <2>13. CASE Start(p)
    BY <2>13, <2>3, StartKeeps DEF Start
  <2>14. QED
    BY <1>3, <2>4, <2>5, <2>6, <2>7, <2>8, <2>9, <2>10, <2>11, <2>12, <2>13
    DEF Step, ProgramProgress
<1>4. QED
  BY <1>1, <1>2, <1>3 DEF Next

(***************************************************************************)
(* The invariant of main and grab_lock, for any number of processes, any   *)
(* config files and any programs that call ccontrol in any order.          *)
(***************************************************************************)
THEOREM Invariance == Spec => []IndInv
<1>1. IndInv /\ [Next]_vars => IndInv'
  BY NextKeeps
<1>2. QED
  BY InitInv, <1>1, PTL DEF Spec

(***************************************************************************)
(* Every variable keeps its type: no process gives back a unit of the slow *)
(* lock it does not hold, or takes a second one.                           *)
(***************************************************************************)
THEOREM TypeCorrect == Spec => []TypeOK
<1>1. IndInv => TypeOK
  BY DEF IndInv
<1>2. QED
  BY <1>1, Invariance, PTL

(***************************************************************************)
(* Whoever is about to sleep in grab_lock has let go of everything, also   *)
(* when it comes back from a config change or from a failed distcc.        *)
(***************************************************************************)
THEOREM NothingHeldWhileWaiting == Spec => []NoHoldAndWait
<1>1. IndInv => NoHoldAndWait
  BY DEF IndInv, NothingHeld, NoHoldAndWait, Unlocked, SemCalls
<1>2. QED
  BY <1>1, Invariance, PTL

\* Each step is one of CountingLock's, or invisible to it.
LEMMA StepRefines ==
  IndInv /\ [Next]_vars => [Lock!Next]_(Lock!vars)
<1> SUFFICES ASSUME IndInv, [Next]_vars PROVE [Lock!Next]_(Lock!vars)
  OBVIOUS
<1> USE DEF Lock!Next, Lock!vars
<1>1. CASE UNCHANGED <<semval, semadj, semcap>>
  BY <1>1 DEF SlowHolders
<1>2. ASSUME NEW p \in Pid, GivesBack(p)
      PROVE  [Lock!Next]_(Lock!vars)
  <2>1. /\ SlowHolders' = SlowHolders \ {p}
        /\ semcap' = semcap
    BY <1>2, GivesBackHolders DEF IndInv, GivesBack
  <2>2. CASE p \in SlowHolders
    BY <2>1, <2>2 DEF Lock!Release
  <2>3. CASE p \notin SlowHolders
    BY <2>1, <2>3
  <2>4. QED
    BY <2>2, <2>3
<1>3. ASSUME NEW p \in Pid, SetVal(p)
      PROVE  [Lock!Next]_(Lock!vars)
  BY <1>3, SetValKeeps DEF Lock!Open
<1>4. ASSUME NEW p \in Pid, GrabSem(p)
      PROVE  [Lock!Next]_(Lock!vars)
  <2>1. Lock!Cardinality(SlowHolders) = Cardinality(SlowHolders)
    BY DEF Lock!Cardinality, Cardinality
  <2>2. semcap' = semcap
    BY <1>4 DEF GrabSem
  <2>3. Lock!Acquire(p)
    BY <1>4, <2>1, <2>2, GrabSemKeeps DEF Lock!Acquire
  <2>4. QED
    BY <2>3
<1>5. QED
  BY <1>1, <1>2, <1>3, <1>4, NextKeeps

(***************************************************************************)
(* Whatever main does with undo, restat, the pipe and distcc's failure, it *)
(* uses the slow lock as CountingLock allows.                              *)
(***************************************************************************)
THEOREM UsesCountingLock == Spec => SlowLockUse
<1>1. Init => Lock!Init
  BY DEF Init, Lock!Init, SlowHolders
<1>2. QED
  BY <1>1, StepRefines, Invariance, PTL DEF Spec, SlowLockUse, Lock!Spec

(***************************************************************************)
(* Where the config file and the programs are orderly.                     *)
(***************************************************************************)

-----------------------------------------------------------------------------
(* Kinds of steps.                                                         *)

\* What children depend on in their parent.
SameParent(x) ==
  /\ proc'[x].pc = proc[x].pc
  /\ proc'[x].env.lock = proc[x].env.lock
  /\ proc'[x].env.by = proc[x].env.by

\* What a process under the slow lock depends on in itself.
SameLine(q) ==
  /\ proc[q].env.lock = Slow /\ proc[q].env.by = proc'[q].env.by
  /\ proc[q].parent = proc'[q].parent /\ semadj[q] = semadj'[q]

\* Nothing comes to wait for anything in a new way.
LEMMA LineKeeps ==
  ASSUME TypeOK, LineInv, proc' \in [Pid -> Process],
         \A q \in Pid : Proper(proc'[q]),
         \A q \in Pid : proc'[q].parent \in Pid =>
           proc'[q].parent = proc[q].parent /\ SameParent(proc[q].parent),
         \A q \in Pid : proc'[q].env.lock = Slow => HoldsUnit(q)' \/ SameLine(q)
  PROVE  LineInv'
<1>1. FewChildren'
  BY DEF LineInv, FewChildren, SameParent, At
<1>2. Acyclic'
  <2> SUFFICES ASSUME NEW S \in SUBSET Pid, S # {}
               PROVE  \E q \in S : proc'[q].parent \notin S
    BY DEF Acyclic
  <2>1. PICK q \in S : proc[q].parent \notin S
    BY DEF LineInv, Acyclic
  <2>2. QED
    BY <2>1
<1>3. SlowInherited'
  <2> SUFFICES ASSUME NEW q \in Pid, proc'[q].env.lock = Slow, ~HoldsUnit(q)'
               PROVE  /\ proc'[q].parent \in Pid
                      /\ proc'[proc'[q].parent].env.lock = Slow
                      /\ proc'[proc'[q].parent].env.by = proc'[q].env.by
    BY DEF SlowInherited
  <2>1. SameLine(q) /\ ~HoldsUnit(q)
    BY DEF SameLine, HoldsUnit
  <2>2. /\ proc[q].parent \in Pid
        /\ proc[proc[q].parent].env.lock = Slow
        /\ proc[proc[q].parent].env.by = proc[q].env.by
    BY <2>1 DEF LineInv, SlowInherited, SameLine
  <2>3. QED
    BY <2>1, <2>2 DEF SameLine, SameParent
<1>4. QED
  BY <1>1, <1>2, <1>3 DEF LineInv

\* Where no children are.
LEMMA Childless ==
  ASSUME LineInv, NEW p \in Pid, proc[p].pc \notin Callers \cup {"wait"}
  PROVE  NoChild(p)
BY DEF LineInv, FewChildren, NoChild, Children

\* Nobody is the parent of itself.
LEMMA NotOwnParent ==
  ASSUME LineInv, NEW p \in Pid
  PROVE  proc[p].parent # p
<1>1. {p} \in SUBSET Pid /\ {p} # {}
  OBVIOUS
<1>2. QED
  BY <1>1 DEF LineInv, Acyclic

\* A step of a process that has no children.
LEMMA AloneKeeps ==
  ASSUME TypeOK, LineInv, NEW p \in Pid, NoChild(p), NEW r \in Process,
         proc' = [proc EXCEPT ![p] = r],
         r.parent = proc[p].parent \/ r.parent = NoPid,
         Proper(r),
         \A q \in Pid \ {p} : semadj'[q] = semadj[q],
         r.env.lock = Slow =>
           \/ r.env.by = p /\ semadj'[p] = 1
           \/ /\ proc[p].env.lock = Slow /\ proc[p].env.by = r.env.by
              /\ r.parent = proc[p].parent /\ semadj'[p] = semadj[p]
  PROVE  LineInv'
<1>1. /\ proc' \in [Pid -> Process] /\ proc'[p] = r
      /\ \A q \in Pid \ {p} : proc'[q] = proc[q]
  BY DEF TypeOK
<1>2. \A q \in Pid : Proper(proc'[q])
  BY <1>1 DEF LineInv
<1>3. ASSUME NEW q \in Pid, proc'[q].parent \in Pid
      PROVE  proc'[q].parent = proc[q].parent /\ SameParent(proc[q].parent)
  <2>1. proc'[q].parent = proc[q].parent
    BY <1>1, <1>3, ConstantsOK
  <2>2. proc[q].parent # p
    BY DEF NoChild, Children
  <2>3. QED
    BY <1>1, <1>3, <2>1, <2>2 DEF SameParent
<1>4. ASSUME NEW q \in Pid, proc'[q].env.lock = Slow
      PROVE  HoldsUnit(q)' \/ SameLine(q)
  BY <1>1, <1>4 DEF HoldsUnit, SameLine
<1>5. QED
  BY <1>1, <1>2, <1>3, <1>4, LineKeeps

\* The exit of a process whose children have all ended.
LEMMA ExitLine ==
  ASSUME TypeOK, LineInv, NEW p \in Pid,
         NEW status \in {"none", "done", "nodist", "killed"},
         Exit(p, status), \A q \in Children(p) : At(q, "zombie")
  PROVE  LineInv'
<1>1. proc' = Ended(p, status) /\ proc' \in [Pid -> Process]
  BY EndedType DEF Exit
<1>2. \A q \in Pid \ {p} : semadj'[q] = semadj[q]
  BY DEF Exit, TypeOK
<1>3. Idle.env = CleanEnv /\ Idle.parent = NoPid /\ Idle \in Process
  BY IdleType DEF Idle
<1>4. Proper(Idle)
  BY ConstantsOK DEF Proper, Idle, CleanEnv, NoSection, Unset, Level, Program
<1> DEFINE z == [Idle EXCEPT !.pc = "zombie", !.parent = proc[p].parent,
                             !.status = status]
<1>5. /\ z.env = CleanEnv /\ z.parent = proc[p].parent /\ Proper(z)
  BY ConstantsOK DEF Proper, Idle, CleanEnv, NoSection, Unset, Level, Program
<1> HIDE DEF z
<1>6. proc'[p] = z \/ proc'[p] = Idle
  BY <1>1 DEF Ended, z
<1>7. ASSUME NEW q \in Pid \ {p}
      PROVE  \/ proc'[q] = Idle /\ At(q, "zombie")
             \/ proc'[q] = proc[q] /\ proc[q].parent # p
  BY <1>1 DEF Ended, Children
<1>8. \A q \in Pid : Proper(proc'[q])
  BY <1>4, <1>5, <1>6, <1>7 DEF LineInv
<1>9. ASSUME NEW q \in Pid, proc'[q].parent \in Pid
      PROVE  proc'[q].parent = proc[q].parent /\ SameParent(proc[q].parent)
  <2>1. proc'[q].parent = proc[q].parent /\ proc[q].parent # p
    BY <1>3, <1>5, <1>6, <1>7, <1>9, NotOwnParent, ConstantsOK
  <2>2. proc[proc[q].parent].pc # "zombie"
    BY <1>9, <2>1 DEF LineInv, FewChildren, Callers
  <2>3. proc'[proc[q].parent] = proc[proc[q].parent]
    BY <1>7, <1>9, <2>1, <2>2 DEF At
  <2>4. QED
    BY <2>1, <2>3 DEF SameParent
<1>10. ASSUME NEW q \in Pid, proc'[q].env.lock = Slow
       PROVE  HoldsUnit(q)' \/ SameLine(q)
  <2>1. CleanEnv.lock # Slow
    BY DEF CleanEnv, Unset, Slow
  <2>2. q # p /\ proc'[q] = proc[q]
    BY <1>3, <1>5, <1>6, <1>7, <1>10, <2>1
  <2>3. QED
    BY <1>2, <1>10, <2>2 DEF SameLine
<1>11. QED
  BY <1>1, <1>8, <1>9, <1>10, LineKeeps
\* A program, or main, starts a child that works on its behalf.
LEMMA SpawnLine ==
  ASSUME TypeOK, LineInv, NEW p \in Pid, NEW r \in Process, NEW image \in Process,
         Spawn(p, r, image), proc[p].pc # "free",
         r.pc \in Callers \cup {"wait"},
         NoChild(p) \/ (r.pc = "make" /\ proc[p].pc = "make"),
         r.parent = proc[p].parent, Proper(r),
         Proper([image EXCEPT !.parent = p]),
         r.env.lock = proc[p].env.lock, r.env.by = proc[p].env.by,
         image.env.lock = r.env.lock, image.env.by = r.env.by
  PROVE  LineInv'
<1> DEFINE c == [image EXCEPT !.parent = p]
<1>1. PICK q \in Pid : Usable(q) /\ proc' = [proc EXCEPT ![p] = r, ![q] = c]
  BY DEF Spawn
<1>2. q # p /\ proc[q].pc = "free" /\ NoChild(q)
  BY <1>1, Childless DEF Usable, At, Callers
<1>3. c.parent = p /\ c.env = image.env /\ c \in Process /\ Proper(c)
  BY DEF Process
<1>4. semadj' = semadj
  BY DEF Spawn, sem
<1> HIDE DEF c
<1>5. /\ proc'[p] = r /\ proc'[q] = c
      /\ \A x \in Pid \ {p, q} : proc'[x] = proc[x]
  BY <1>1, <1>2 DEF TypeOK
<1>6. \A x \in Pid : Proper(proc'[x])
  BY <1>3, <1>5 DEF LineInv
<1>7. \A x \in Pid \ {q} : proc'[x].parent = proc[x].parent
  BY <1>5
<1>8. FewChildren'
  <2> SUFFICES ASSUME NEW x \in Pid, proc'[x].parent \in Pid
               PROVE  /\ proc'[proc'[x].parent].pc \in Callers \cup {"wait"}
                      /\ \A y \in Pid \ {x} :
                           proc'[y].parent = proc'[x].parent =>
                             proc'[proc'[x].parent].pc = "make"
    BY DEF FewChildren, At
  <2>1. CASE proc'[x].parent = p
    <3>1. NoChild(p) => \A y \in Pid \ {q} : proc'[y].parent # p
      BY <1>7 DEF NoChild, Children
    <3>2. QED
      BY <2>1, <3>1, <1>5
  <2>2. CASE proc'[x].parent # p
    <3>1. x # q /\ proc[x].parent = proc'[x].parent
      BY <2>2, <1>3, <1>5, <1>7
    <3>2. proc[x].parent # q
      BY <1>2 DEF NoChild, Children
    <3>3. proc'[proc[x].parent] = proc[proc[x].parent]
      BY <2>2, <3>1, <3>2, <1>5
    <3>4. \A y \in Pid \ {x} : proc'[y].parent = proc'[x].parent =>
            proc[y].parent = proc[x].parent
      BY <2>2, <3>1, <1>3, <1>5, <1>7
    <3>5. QED
      BY <3>1, <3>3, <3>4 DEF LineInv, FewChildren, At
  <2>3. QED
    BY <2>1, <2>2
<1>9. Acyclic'
  <2> SUFFICES ASSUME NEW S \in SUBSET Pid, S # {}
               PROVE  \E x \in S : proc'[x].parent \notin S
    BY DEF Acyclic
  <2>1. CASE S = {q}
    BY <2>1, <1>2, <1>3, <1>5
  <2>2. CASE S # {q}
    <3>1. S \ {q} \in SUBSET Pid /\ S \ {q} # {}
      BY <2>2
    <3>2. PICK x \in S \ {q} : proc[x].parent \notin S \ {q}
      BY <3>1 DEF LineInv, Acyclic
    <3>3. proc[x].parent # q
      BY <3>2, <1>2 DEF NoChild, Children
    <3>4. QED
      BY <3>2, <3>3, <1>7
  <2>3. QED
    BY <2>1, <2>2
<1>10. SlowInherited'
  <2> SUFFICES ASSUME NEW x \in Pid, proc'[x].env.lock = Slow, ~HoldsUnit(x)'
               PROVE  /\ proc'[x].parent \in Pid
                      /\ proc'[proc'[x].parent].env.lock = Slow
                      /\ proc'[proc'[x].parent].env.by = proc'[x].env.by
    BY DEF SlowInherited
  <2>1. CASE x = q
    BY <2>1, <1>2, <1>3, <1>5
  <2>2. CASE x # q
    <3>1. /\ proc[x].env.lock = Slow /\ ~HoldsUnit(x)
          /\ proc'[x].env.by = proc[x].env.by
          /\ proc'[x].parent = proc[x].parent
      BY <2>2, <1>4, <1>5 DEF HoldsUnit
    <3>2. /\ proc[x].parent \in Pid
          /\ proc[proc[x].parent].env.lock = Slow
          /\ proc[proc[x].parent].env.by = proc[x].env.by
      BY <3>1 DEF LineInv, SlowInherited
    <3>3. proc[x].parent # q
      BY <1>2 DEF NoChild, Children
    <3>4. QED
      BY <3>1, <3>2, <3>3, <1>5
  <2>3. QED
    BY <2>1, <2>2
<1>11. QED
  BY <1>6, <1>8, <1>9, <1>10 DEF LineInv

\* See SpawnLine; where nobody can be forked, the process exits.
LEMMA ForkLine ==
  ASSUME TypeOK, LineInv, NEW p \in Pid, NEW r \in Process, NEW image \in Process,
         Fork(p, r, image), proc[p].pc # "free",
         r.pc \in Callers \cup {"wait"}, NoChild(p),
         r.parent = proc[p].parent, Proper(r),
         Proper([image EXCEPT !.parent = p]),
         r.env.lock = proc[p].env.lock, r.env.by = proc[p].env.by,
         image.env.lock = r.env.lock, image.env.by = r.env.by
  PROVE  LineInv'
BY SpawnLine, ExitLine DEF Fork, NoChild

-----------------------------------------------------------------------------
(* The actions.                                                            *)

\* A step that changes nothing but a process without children.
LEMMA LocalLine ==
  ASSUME TypeOK, TypeOK', LineInv, NEW p \in Pid, NoChild(p), NEW r, Local(p, r),
         r.parent = proc[p].parent, Proper(r),
         r.env.lock = Slow =>
           proc[p].env.lock = Slow /\ proc[p].env.by = r.env.by
  PROVE  LineInv'
<1>1. proc' = [proc EXCEPT ![p] = r] /\ semadj' = semadj
  BY DEF Local, sem
<1>2. r \in Process
  BY <1>1 DEF TypeOK
<1>3. QED
  BY <1>1, <1>2, AloneKeeps

\* main, up to the lock.
LEMMA BeforeLock ==
  ASSUME IndInv, IndInv', LineInv, Orderly, NEW p \in Pid,
         \/ Main(p) \/ ReadConfig(p) \/ NoName(p) \/ Fstat(p)
         \/ PickMakeByte(p) \/ NeedSlow(p) \/ PickFastByte(p)
         \/ AlreadyGotIt(p) \/ GrabTopMake(p)
  PROVE  LineInv'
<1>a. TypeOK /\ TypeOK' /\ proc[p] \in Process /\ Proper(proc[p])
  BY OwnType DEF IndInv, LineInv
<1>b. NoChild(p)
  BY Childless DEF Main, ReadConfig, NoName, Fstat, PickMakeByte, NeedSlow,
     PickFastByte, AlreadyGotIt, GrabTopMake, Grabbing, At, Callers
<1> USE DEF At, Grabbing, Program
<1>1. CASE Main(p)
  <2> DEFINE r == [proc[p] EXCEPT !.pc = "again"]
  <2>1. /\ r.parent = proc[p].parent /\ r.env = proc[p].env /\ Proper(r)
    BY <1>a, <1>1 DEF Main, Process, Proper, SemCalls
  <2>2. Local(p, r)
    BY <1>1 DEF Main
  <2> HIDE DEF r
  <2>3. QED
    BY <1>a, <1>b, <2>1, <2>2, LocalLine
<1>2. CASE ReadConfig(p)
  <2> DEFINE s == config[proc[p].dir]
             t == [s EXCEPT !.ccache = s.ccache /\ ~proc[p].noccache,
                            !.distcc = DistccDirectly(proc[p], s)]
             r == [proc[p] EXCEPT !.pc = "fstat", !.sec = t,
                     !.ccache_then_distcc = @ \/ DistccByCcache(proc[p], s)]
  <2>1. s \in Section /\ ~(s.ccache /\ s.distcc)
    BY <1>a, ConstantsOK DEF TypeOK, Process, Orderly
  <2>2. t.distcc => ~t.ccache /\ proc[p].cmd \in {"cc", "cxx"}
    BY <2>1 DEF Section, DistccDirectly, can_distcc
  <2>3. ~DistccByCcache(proc[p], s)
    BY <2>1 DEF DistccByCcache
  <2> HIDE DEF t, s
  <2>4. /\ r.parent = proc[p].parent /\ r.env = proc[p].env /\ r.sec = t
        /\ r.pc = "fstat" /\ r.cmd = proc[p].cmd /\ r.undo = proc[p].undo
        /\ ~r.ccache_then_distcc
    BY <1>a, <2>3 DEF Process, Proper
  <2>5. Local(p, r)
    BY <1>2 DEF ReadConfig, t, s
  <2> HIDE DEF r
  <2>6. Proper(r)
    BY <1>a, <2>2, <2>4 DEF Proper, SemCalls
  <2>7. QED
    BY <1>a, <1>b, <2>4, <2>5, <2>6, LocalLine
<1>3. CASE NoName(p)
  <2> DEFINE r == [proc[p] EXCEPT !.pc = "crash"]
  <2>1. /\ r.parent = proc[p].parent /\ r.env = proc[p].env /\ Proper(r)
    BY <1>a DEF Process, Proper, SemCalls
  <2>2. Local(p, r)
    BY <1>3 DEF NoName
  <2> HIDE DEF r
  <2>3. QED
    BY <1>a, <1>b, <2>1, <2>2, LocalLine
<1>4. CASE Fstat(p)
  <2> DEFINE r == [proc[p] EXCEPT !.pc = "grab", !.st = stamp]
  <2>1. /\ r.parent = proc[p].parent /\ r.env = proc[p].env /\ Proper(r)
    BY <1>a DEF Process, Proper, SemCalls
  <2>2. Local(p, r)
    BY <1>4 DEF Fstat
  <2> HIDE DEF r
  <2>3. QED
    BY <1>a, <1>b, <2>1, <2>2, LocalLine
<1>5. CASE PickMakeByte(p) \/ PickFastByte(p)
  <2>1. PICK b : Local(p, [proc[p] EXCEPT !.pc = "fcntl", !.want = b])
    BY <1>5 DEF PickMakeByte, PickFastByte
  <2> DEFINE r == [proc[p] EXCEPT !.pc = "fcntl", !.want = b]
  <2>2. IsMake(proc[p]) => proc[p].cmd = "make"
    BY <1>a DEF IsMake, TypeOf, Process
  <2>3. proc[p].sec.distcc \/ (proc[p].cmd = "make" /\ proc[p].env.lock # Unset)
    BY <1>5, <2>2 DEF PickMakeByte, PickFastByte
  <2>4. /\ r.parent = proc[p].parent /\ r.env = proc[p].env /\ Proper(r)
    BY <1>a, <2>3 DEF Process, Proper, SemCalls
  <2>5. Local(p, r)
    BY <2>1
  <2> HIDE DEF r
  <2>6. QED
    BY <1>a, <1>b, <2>4, <2>5, LocalLine
<1>6. CASE NeedSlow(p)
  <2> DEFINE r == [proc[p] EXCEPT !.pc = "sem"]
  <2>1. proc[p].cmd # "make"
    BY <1>6 DEF NeedSlow, IsMake, TypeOf
  <2>2. /\ r.parent = proc[p].parent /\ r.env = proc[p].env /\ Proper(r)
    BY <1>a, <2>1 DEF Process, Proper
  <2>3. Local(p, r)
    BY <1>6 DEF NeedSlow
  <2> HIDE DEF r
  <2>4. QED
    BY <1>a, <1>b, <2>2, <2>3, LocalLine
<1>7. CASE AlreadyGotIt(p)
  <2> DEFINE r == [proc[p] EXCEPT !.pc = "restat", !.undo = "nothing"]
  <2>1. /\ r.parent = proc[p].parent /\ r.env = proc[p].env /\ Proper(r)
    BY <1>a, <1>7 DEF AlreadyGotIt, Process, Proper, SemCalls
  <2>2. Local(p, r)
    BY <1>7 DEF AlreadyGotIt
  <2> HIDE DEF r
  <2>3. QED
    BY <1>a, <1>b, <2>1, <2>2, LocalLine
<1>8. CASE GrabTopMake(p)
  <2> DEFINE r == [proc[p] EXCEPT !.pc = "restat", !.undo = "decrement",
                                  !.env.lock = Level(0)]
  <2>1. proc[p].cmd = "make"
    BY <1>8, <1>a DEF GrabTopMake, IsMake, TypeOf, Process
  <2>2. /\ r.parent = proc[p].parent /\ r.cmd = proc[p].cmd
        /\ r.env.lock = Level(0) /\ r.pc = "restat" /\ r.sec = proc[p].sec
        /\ r.ccache_then_distcc = proc[p].ccache_then_distcc
        /\ r.env.prefix = proc[p].env.prefix /\ r.env.lockfd = proc[p].env.lockfd
    BY <1>a DEF Process, Env
  <2>3. Local(p, r)
    BY <1>8 DEF GrabTopMake
  <2> HIDE DEF r
  <2>4. Proper(r) /\ r.env.lock # Slow
    BY <1>a, <2>1, <2>2 DEF Proper, Level, Slow, SemCalls
  <2>5. QED
    BY <1>a, <1>b, <2>2, <2>3, <2>4, LocalLine
<1>9. QED
  BY <1>1, <1>2, <1>3, <1>4, <1>5, <1>6, <1>7, <1>8

\* make_semaphore.
LEMMA SemCallsLine ==
  ASSUME IndInv, LineInv, NEW p \in Pid,
         CreateSem(p) \/ SetPerm(p) \/ SetVal(p)
  PROVE  LineInv'
<1>a. TypeOK /\ proc[p] \in Process /\ Proper(proc[p])
  BY OwnType DEF IndInv, LineInv
<1>1. PICK label \in SemCalls :
        proc' = [proc EXCEPT ![p] = [proc[p] EXCEPT !.pc = label]]
  BY SemCallsStep
<1>2. proc[p].pc \in SemCalls /\ semadj' = semadj
  BY SemCallsStep
<1>3. NoChild(p)
  BY <1>2, Childless DEF SemCalls, Callers
<1> DEFINE r == [proc[p] EXCEPT !.pc = label]
<1>4. r \in Process /\ Proper(r)
  BY <1>a, <1>2 DEF Process, Label, MainLabel, SemCalls, Proper, Program
<1>5. r.parent = proc[p].parent /\ r.env = proc[p].env
  BY <1>a DEF Process
<1>6. proc' = [proc EXCEPT ![p] = r]
  BY <1>1
<1> HIDE DEF r
<1>7. QED
  BY <1>a, <1>2, <1>3, <1>4, <1>5, <1>6, AloneKeeps

\* The two kinds of locks: the byte of a make or of a distcc, and the unit.
LEMMA LocksLine ==
  ASSUME IndInv, IndInv', LineInv, NEW p \in Pid, LockByte(p) \/ GrabSem(p)
  PROVE  LineInv'
<1>a. /\ TypeOK /\ proc[p] \in Process /\ proc[p].env \in Env
      /\ Proper(proc[p]) /\ proc' \in [Pid -> Process] /\ semadj \in [Pid -> {0, 1}]
  BY OwnType DEF IndInv, TypeOK, LineInv
<1>b. NoChild(p)
  BY Childless DEF LockByte, GrabSem, At, Callers
<1>1. CASE LockByte(p)
  <2> DEFINE env == [proc[p].env EXCEPT !.lock =
                IF IsMake(proc[p]) THEN Level(Depth(proc[p].env.lock)) ELSE Fast]
             r == [proc[p] EXCEPT !.pc = "restat", !.want = 0,
                     !.undo = IF IsMake(proc[p]) THEN "decrement" ELSE "unset",
                     !.env = env]
  <2>1. proc' = [proc EXCEPT ![p] = r] /\ semadj' = semadj
    BY <1>1 DEF LockByte, sem
  <2>2. /\ env.prefix = proc[p].env.prefix /\ env.lockfd = proc[p].env.lockfd
        /\ env.lock = IF IsMake(proc[p]) THEN Level(Depth(proc[p].env.lock)) ELSE Fast
    BY <1>a DEF Env
  <2> HIDE DEF env
  <2>3. /\ r.parent = proc[p].parent /\ r.env = env /\ r.cmd = proc[p].cmd
        /\ r.pc = "restat" /\ r.sec = proc[p].sec
        /\ r.undo = IF IsMake(proc[p]) THEN "decrement" ELSE "unset"
        /\ r.ccache_then_distcc = proc[p].ccache_then_distcc
    BY <1>a DEF Process
  <2> HIDE DEF r
  <2>4. r \in Process
    BY <1>a, <2>1
  <2>5. proc[p].sec.distcc \/ (proc[p].cmd = "make" /\ proc[p].env.lock # Unset)
    BY <1>a, <1>1 DEF LockByte, At, Proper
  <2>6. IsMake(proc[p]) <=> proc[p].cmd = "make"
    BY <1>a DEF IsMake, TypeOf, Process
  <2>7. proc[p].env.lock \in Int
    BY <1>a DEF Env
  <2>8. /\ proc[p].cmd = "make" => env.lock >= 65 /\ env.lock # Slow
        /\ proc[p].cmd # "make" => env.lock # Slow
        /\ env.lock \in Int
    BY <1>a, <2>2, <2>5, <2>6, <2>7 DEF Proper, Level, Depth, Fast, Slow
  <2>9. Proper(r) /\ r.env.lock # Slow
    BY <1>a, <2>2, <2>3, <2>5, <2>6, <2>8 DEF Proper, Level, Program, SemCalls
  <2>10. QED
    BY <1>a, <1>b, <2>1, <2>3, <2>4, <2>9, AloneKeeps
<1>2. CASE GrabSem(p)
  <2> DEFINE env == [proc[p].env EXCEPT !.lock = Slow, !.by = p]
             r == [proc[p] EXCEPT !.pc = "restat", !.undo = "drop", !.env = env]
  <2>1. /\ proc' = [proc EXCEPT ![p] = r]
        /\ semadj' = [semadj EXCEPT ![p] = @ + 1]
    BY <1>2 DEF GrabSem
  <2>2. /\ env.prefix = proc[p].env.prefix /\ env.lockfd = proc[p].env.lockfd
        /\ env.lock = Slow /\ env.by = p
    BY <1>a DEF Env
  <2> HIDE DEF env
  <2>3. /\ r.parent = proc[p].parent /\ r.env = env /\ r.cmd = proc[p].cmd
        /\ r.pc = "restat" /\ r.sec = proc[p].sec /\ r.undo = "drop"
        /\ r.ccache_then_distcc = proc[p].ccache_then_distcc
    BY <1>a DEF Process
  <2> HIDE DEF r
  <2>4. r \in Process
    BY <1>a, <2>1
  <2>5. semadj[p] = 0 /\ semadj'[p] = 1
    <3>1. semadj[p] = 0
      BY <1>2 DEF GrabSem, At, IndInv, NothingHeld, Unlocked, SemCalls
    <3>2. QED
      BY <1>a, <2>1, <3>1
  <2>6. Proper(r)
    BY <1>a, <1>2, <2>2, <2>3 DEF GrabSem, At, Proper, Program, SemCalls
  <2>7. \A q \in Pid \ {p} : semadj'[q] = semadj[q]
    BY <1>a, <2>1
  <2>8. QED
    BY <1>a, <1>b, <2>1, <2>2, <2>3, <2>4, <2>5, <2>6, <2>7, AloneKeeps
<1>3. QED
  BY <1>1, <1>2

\* What execv keeps and what it drops.
LEMMA ExecFields ==
  ASSUME NEW r \in Process, NEW label \in Label
  PROVE  /\ Exec(r, label).pc = label /\ Exec(r, label).cmd = r.cmd
         /\ Exec(r, label).parent = r.parent /\ Exec(r, label).env = r.env
         /\ Exec(r, label).sec = NoSection /\ Exec(r, label).undo = "none"
         /\ Exec(r, label).ccache_then_distcc = FALSE
BY DEF Exec, Idle

\* What a program needs to be proper.
LEMMA ExecProper ==
  ASSUME NEW r \in Process, NEW label \in (Program \cup {"main"}) \ {"ccached"},
         ~r.env.prefix, r.env.lockfd = NoPid,
         r.cmd = "make" => r.env.lock = Unset \/ r.env.lock >= Level(-1),
         label = "make" => r.cmd = "make",
         label \in Program \ {"make", "distcc"} => r.env.lock = Slow,
         label = "distcc" => r.env.fallback0
  PROVE  Proper(Exec(r, label))
<1>1. label \in Label
  BY DEF Label, MainLabel, SemCalls
<1>2. NoSection.distcc = FALSE
  BY DEF NoSection
<1>3. QED
  BY <1>1, <1>2, ExecFields DEF Proper, Program, SemCalls

\* What undo does to somebody who runs under the slow lock, or not.
LEMMA UndoLine ==
  ASSUME TypeOK, NEW p \in Pid, Proper(proc[p]), UndoSem(p)
  PROVE  /\ UndoEnv(proc[p]).prefix = proc[p].env.prefix
         /\ UndoEnv(proc[p]).lockfd = proc[p].env.lockfd
         /\ proc[p].cmd = "make" =>
              \/ UndoEnv(proc[p]).lock = Unset
              \/ UndoEnv(proc[p]).lock >= Level(-1)
         /\ UndoEnv(proc[p]).lock = Slow =>
              /\ UndoEnv(proc[p]) = proc[p].env
              /\ semadj'[p] = semadj[p]
         /\ \A q \in Pid \ {p} : semadj'[q] = semadj[q]
<1>1. proc[p].env \in Env /\ proc[p].env.lock \in Int
  BY OwnType DEF Env
<1>2. \A q \in Pid \ {p} : semadj'[q] = semadj[q]
  BY DEF UndoSem, TypeOK
<1>3. CASE proc[p].undo = "decrement"
  <2>1. UndoEnv(proc[p]) = [proc[p].env EXCEPT !.lock = proc[p].env.lock - 1]
    BY <1>3 DEF UndoEnv
  <2>2. /\ UndoEnv(proc[p]).prefix = proc[p].env.prefix
        /\ UndoEnv(proc[p]).lockfd = proc[p].env.lockfd
        /\ UndoEnv(proc[p]).lock = proc[p].env.lock - 1
    BY <1>1, <2>1 DEF Env
  <2>3. proc[p].env.lock >= 65
    BY <1>3 DEF Proper, Level
  <2>4. QED
    BY <1>1, <1>2, <2>2, <2>3 DEF Level, Slow
<1>4. CASE proc[p].undo \in {"unset", "drop"}
  <2>1. UndoEnv(proc[p]) = [proc[p].env EXCEPT !.lock = Unset, !.by = NoPid]
    BY <1>4 DEF UndoEnv
  <2>2. /\ UndoEnv(proc[p]).prefix = proc[p].env.prefix
        /\ UndoEnv(proc[p]).lockfd = proc[p].env.lockfd
        /\ UndoEnv(proc[p]).lock = Unset
    BY <1>1, <2>1 DEF Env
  <2>3. QED
    BY <1>2, <2>2 DEF Unset, Slow
<1>5. CASE proc[p].undo \notin {"decrement", "unset", "drop"}
  <2>1. UndoEnv(proc[p]) = proc[p].env /\ semadj' = semadj
    BY <1>5 DEF UndoEnv, UndoSem
  <2>2. QED
    BY <1>2, <2>1 DEF Proper
<1>6. QED
  BY <1>3, <1>4, <1>5

\* goto again keeps a process proper.
LEMMA RestartProper ==
  ASSUME TypeOK, NEW p \in Pid, Proper(proc[p]), UndoSem(p), NEW nodistcc
  PROVE  /\ Proper(Restart(proc[p], nodistcc))
         /\ Restart(proc[p], nodistcc).parent = proc[p].parent
         /\ Restart(proc[p], nodistcc).env = UndoEnv(proc[p])
<1> DEFINE r == Restart(proc[p], nodistcc)
<1>1. /\ r.parent = proc[p].parent /\ r.env = UndoEnv(proc[p])
      /\ r.cmd = proc[p].cmd /\ r.pc = "again" /\ r.sec = NoSection
      /\ r.undo = "none" /\ r.ccache_then_distcc = proc[p].ccache_then_distcc
  BY OwnType DEF Restart, Process
<1>2. NoSection.distcc = FALSE
  BY DEF NoSection
<1> HIDE DEF r
<1>3. Proper(r)
  BY <1>1, <1>2, UndoLine DEF Proper, Program, SemCalls
<1>4. QED
  BY <1>1, <1>3 DEF r

\* main after the lock: run, or let go of it and start again.
LEMMA AfterLock ==
  ASSUME IndInv, IndInv', LineInv, NEW p \in Pid,
         Unaltered(p) \/ RunExec(p) \/ Altered(p) \/ RunDistcc(p)
  PROVE  LineInv'
<1>a. TypeOK /\ TypeOK' /\ proc[p] \in Process /\ Proper(proc[p])
  BY OwnType DEF IndInv, LineInv
<1>b. NoChild(p)
  BY Childless DEF Unaltered, RunExec, Altered, RunDistcc, At, Callers
<1>1. CASE Unaltered(p)
  <2> DEFINE r == [proc[p] EXCEPT !.pc = "run"]
  <2>1. /\ r.parent = proc[p].parent /\ r.env = proc[p].env /\ Proper(r)
    BY <1>a, <1>1 DEF Unaltered, At, Process, Proper, Program, SemCalls
  <2>2. Local(p, r)
    BY <1>1 DEF Unaltered
  <2> HIDE DEF r
  <2>3. QED
    BY <1>a, <1>b, <2>1, <2>2, LocalLine
<1>2. CASE RunExec(p)
  <2> DEFINE label == Target(proc[p])
             r == Exec(proc[p], label)
  <2>1. ~proc[p].sec.distcc /\ Local(p, r) /\ proc[p].pc = "run"
    BY <1>2 DEF RunExec, At
  <2>2. /\ label \in {"make", "link", "other", "ccache", "compile"}
        /\ label = "make" <=> proc[p].cmd = "make"
    BY <1>a, <2>1 DEF Target, TypeOf, Process, Cmd
  <2>3. label # "make" => proc[p].env.lock = Slow
    BY <1>a, <2>1, <2>2 DEF Proper
  <2>4. label \in (Program \cup {"main"}) \ {"ccached"} /\ label \in Label
    BY <2>2 DEF Program, Label
  <2> HIDE DEF label
  <2>5. Proper(r)
    BY <1>a, <2>2, <2>3, <2>4, ExecProper DEF Proper
  <2>6. r.parent = proc[p].parent /\ r.env = proc[p].env
    BY <1>a, <2>4, ExecFields
  <2> HIDE DEF r
  <2>7. QED
    BY <1>a, <1>b, <2>1, <2>5, <2>6, LocalLine
<1>3. CASE Altered(p)
  <2> DEFINE r == Restart(proc[p], FALSE)
  <2>1. proc' = [proc EXCEPT ![p] = r] /\ UndoSem(p)
    BY <1>3 DEF Altered
  <2>2. r \in Process /\ Proper(r) /\ r.parent = proc[p].parent
        /\ r.env = UndoEnv(proc[p])
    BY <1>a, <2>1, RestartType, RestartProper
  <2> HIDE DEF r
  <2>3. QED
    BY <1>a, <1>b, <2>1, <2>2, UndoLine, AloneKeeps
<1>4. CASE RunDistcc(p)
  <2> DEFINE env == NoFallback(proc[p].env)
             r == [proc[p] EXCEPT !.env = env]
             s == [r EXCEPT !.pc = "wait"]
             image == Exec(r, Target(r))
             c == [image EXCEPT !.parent = p]
  <2>1. Fork(p, s, image) /\ proc[p].pc = "run" /\ proc[p].sec.distcc
    BY <1>a, <1>4 DEF RunDistcc, At, Process
  <2>2. /\ env \in Env /\ env.fallback0 /\ env.lock = proc[p].env.lock
        /\ env.by = proc[p].env.by /\ env.prefix = proc[p].env.prefix
        /\ env.lockfd = proc[p].env.lockfd
    BY <1>a DEF NoFallback, Env, Process
  <2> HIDE DEF env
  <2>3. /\ r \in Process /\ r.env = env /\ r.parent = proc[p].parent
        /\ r.sec = proc[p].sec /\ r.cmd = proc[p].cmd /\ r.undo = proc[p].undo
        /\ r.ccache_then_distcc = proc[p].ccache_then_distcc
    BY <1>a, <2>2 DEF Process
  <2> HIDE DEF r
  <2>4. /\ s \in Process /\ s.env = env /\ s.parent = proc[p].parent
        /\ s.sec = proc[p].sec /\ s.cmd = proc[p].cmd /\ s.undo = proc[p].undo
        /\ s.ccache_then_distcc = proc[p].ccache_then_distcc /\ s.pc = "wait"
    BY <2>3 DEF Process, Label, MainLabel, SemCalls
  <2> HIDE DEF s
  <2>5. Proper(s)
    BY <1>a, <2>1, <2>2, <2>4 DEF Proper, Program
  <2>6. Target(r) = "distcc" /\ "distcc" \in Label
    BY <1>a, <2>1, <2>3 DEF Target, TypeOf, Proper, Label, Program
  <2>7. image \in Process /\ image.env = env /\ Proper(image)
    <3>1. image = Exec(r, "distcc")
      BY <2>6
    <3>2. image \in Process /\ image.env = env
      BY <2>3, <2>6, <3>1, ExecType, ExecFields
    <3>3. r.cmd # "make"
      BY <1>a, <2>1, <2>3 DEF Proper
    <3>4. "distcc" \in (Program \cup {"main"}) \ {"ccached"}
          /\ "distcc" \notin Program \ {"make", "distcc"}
      BY DEF Program
    <3>5. Proper(Exec(r, "distcc"))
      <4>1. ~r.env.prefix /\ r.env.lockfd = NoPid /\ r.env.fallback0
        BY <1>a, <2>2, <2>3 DEF Proper
      <4>2. QED
        BY <2>3, <3>3, <3>4, <4>1, ExecProper
    <3>6. QED
      BY <3>1, <3>2, <3>5
  <2> HIDE DEF image
  <2>8. Proper(c)
    BY <2>7 DEF Proper, Process
  <2>9. QED
    BY <1>a, <1>b, <2>1, <2>2, <2>4, <2>5, <2>7, <2>8, ForkLine
<1>5. QED
  BY <1>1, <1>2, <1>3, <1>4

\* distcc failed: its zombie is gone, and main starts again without it.
LEMMA DistccFailedLine ==
  ASSUME IndInv, IndInv', LineInv, NEW p \in Pid, DistccFailed(p)
  PROVE  LineInv'
<1>a. /\ TypeOK /\ proc[p] \in Process /\ Proper(proc[p])
      /\ proc' \in [Pid -> Process] /\ UndoSem(p) /\ proc[p].pc = "wait"
  BY OwnType DEF IndInv, LineInv, TypeOK, DistccFailed, At
<1> DEFINE s == Restart(proc[p], TRUE)
           r == [s EXCEPT !.env.prefix = FALSE]
<1>1. PICK q \in Children(p) : /\ At(q, "zombie")
                               /\ proc' = [proc EXCEPT ![q] = Idle, ![p] = r]
  BY DEF DistccFailed
<1>2. q \in Pid /\ q # p /\ proc[q].pc = "zombie" /\ proc[q].parent = p
  BY <1>a, <1>1 DEF Children, At
<1>3. /\ s \in Process /\ s.env \in Env /\ Proper(s)
      /\ s.parent = proc[p].parent /\ s.env = UndoEnv(proc[p])
  <2>1. TRUE \in BOOLEAN
    OBVIOUS
  <2>2. s \in Process
    BY <1>a, <2>1, RestartType
  <2>3. s.env \in Env
    BY <2>2 DEF Process
  <2>4. QED
    BY <1>a, <2>2, <2>3, RestartProper
<1> HIDE DEF s
<1>4. r.env = s.env /\ r.parent = s.parent /\ Proper(r)
  <2>1. s.env.prefix = FALSE
    BY <1>3 DEF Proper, Env
  <2>2. [s.env EXCEPT !.prefix = FALSE] = s.env
    BY <1>3, <2>1 DEF Env
  <2>3. r = s
    BY <1>3, <2>2 DEF Process
  <2>4. QED
    BY <1>3, <2>3
<1> HIDE DEF r
<1>5. /\ proc'[p] = r /\ proc'[q] = Idle
      /\ \A x \in Pid \ {p, q} : proc'[x] = proc[x]
  BY <1>a, <1>1, <1>2 DEF TypeOK
<1>6. /\ Proper(Idle) /\ Idle.parent = NoPid /\ Idle.env.lock # Slow
  BY DEF Proper, Idle, CleanEnv, NoSection, Unset, Slow, Program
<1>7. \A x \in Pid : Proper(proc'[x])
  BY <1>4, <1>5, <1>6 DEF LineInv
<1>8. ASSUME NEW x \in Pid, proc'[x].parent \in Pid
      PROVE  proc'[x].parent = proc[x].parent /\ SameParent(proc[x].parent)
  <2>1. x # q /\ proc'[x].parent = proc[x].parent
    BY <1>3, <1>4, <1>5, <1>6, <1>8, ConstantsOK
  <2>2. proc[x].parent # p
    BY <1>a, <1>2, <2>1 DEF LineInv, FewChildren, At
  <2>3. proc[x].parent # q
    BY <1>2, <1>8, <2>1 DEF LineInv, FewChildren, Callers
  <2>4. QED
    BY <1>5, <1>8, <2>1, <2>2, <2>3 DEF SameParent
<1>9. ASSUME NEW x \in Pid, proc'[x].env.lock = Slow
      PROVE  HoldsUnit(x)' \/ SameLine(x)
  <2>1. x # q
    BY <1>5, <1>6, <1>9
  <2>2. CASE x = p
    BY <1>a, <1>3, <1>4, <1>5, <1>9, <2>2, UndoLine DEF SameLine
  <2>3. CASE x # p
    BY <1>a, <1>5, <1>9, <2>1, <2>3, UndoLine DEF SameLine
  <2>4. QED
    BY <2>2, <2>3
<1>10. QED
  BY <1>a, <1>7, <1>8, <1>9, LineKeeps

\* make, compilers and distcc call ccontrol; ccache, without the pipe, and
\* distcc, where it may, go on themselves.
LEMMA ProgramLine ==
  ASSUME IndInv, IndInv', LineInv, Orderly, NEW p \in Pid,
         ProgramCalls(p) \/ CcacheStarts(p) \/ CcacheMiss(p) \/ DistccHasNoHost(p)
  PROVE  LineInv'
<1>a. TypeOK /\ TypeOK' /\ proc[p] \in Process /\ Proper(proc[p])
  BY OwnType DEF IndInv, LineInv
<1>1. CASE ProgramCalls(p)
  <2> DEFINE r == [proc[p] EXCEPT !.calls = @ + 1]
  <2>1. PICK c \in Spawns[proc[p].pc], d \in Dir :
          Spawn(p, r, Exec([proc[p] EXCEPT !.cmd = c, !.dir = d], "main"))
    BY <1>1 DEF ProgramCalls
  <2>2. /\ proc[p].pc \in Callers
        /\ NoChild(p) \/ proc[p].pc = "make"
    BY <1>1 DEF ProgramCalls, At
  <2>3. c \in Cmd
    BY <2>2, ConstantsOK
  <2> DEFINE b == [proc[p] EXCEPT !.cmd = c, !.dir = d]
             image == Exec(b, "main")
             e == [image EXCEPT !.parent = p]
  <2>4. /\ b \in Process /\ b.cmd = c /\ b.env = proc[p].env
    BY <1>a, <2>3 DEF Process
  <2>5. c = "make" => proc[p].cmd = "make"
    BY <1>a, <2>2 DEF Orderly, Proper
  <2>6. Spawn(p, r, image)
    BY <2>1
  <2> HIDE DEF b
  <2>7. "main" \in Label /\ "main" \notin Program
    BY DEF Label, MainLabel, SemCalls, Program
  <2>8. image \in Process /\ image.env = proc[p].env
    BY <2>4, <2>7, ExecType, ExecFields
  <2>9. Proper(image)
    <3>1. /\ ~b.env.prefix /\ b.env.lockfd = NoPid
          /\ b.cmd = "make" => b.env.lock = Unset \/ b.env.lock >= Level(-1)
      BY <1>a, <2>4, <2>5 DEF Proper
    <3>2. QED
      BY <2>4, <2>7, <3>1, ExecProper
  <2> HIDE DEF image
  <2>10. Proper(e)
    BY <2>8, <2>9 DEF Proper, Process
  <2>11. /\ r.pc = proc[p].pc /\ r.env = proc[p].env /\ r.parent = proc[p].parent
         /\ Proper(r)
    BY <1>a DEF Process, Proper
  <2>12. r \in Process
    <3>1. p \in Pid /\ proc'[p] = r
      <4>1. PICK q \in Pid : Usable(q) /\ proc' = [proc EXCEPT ![p] = r, ![q] = e]
        BY <2>6 DEF Spawn
      <4>2. q # p
        BY <2>2, <4>1 DEF Usable, At, Callers
      <4>3. QED
        BY <1>a, <4>1, <4>2 DEF TypeOK
    <3>2. QED
      BY <1>a, <3>1 DEF TypeOK
  <2>13. proc[p].pc # "free"
    BY <2>2 DEF Callers
  <2> HIDE DEF r
  <2>14. QED
    BY <1>a, <2>2, <2>6, <2>8, <2>10, <2>11, <2>12, <2>13, SpawnLine
<1>2. CASE CcacheStarts(p)
  <2> DEFINE r == [proc[p] EXCEPT !.pc = "cached"]
  <2>1. Local(p, r) /\ proc[p].pc = "ccache"
    BY <1>a, <1>2 DEF CcacheStarts, At, Process, Proper
  <2>2. /\ r.parent = proc[p].parent /\ r.env = proc[p].env /\ Proper(r)
    BY <1>a, <2>1 DEF Process, Proper, Program, SemCalls
  <2>3. NoChild(p)
    BY <2>1, Childless DEF Callers
  <2> HIDE DEF r
  <2>4. QED
    BY <1>a, <2>1, <2>2, <2>3, LocalLine
<1>3. CASE CcacheMiss(p)
  <2> DEFINE r == [proc[p] EXCEPT !.pc = "compile"]
  <2>1. Local(p, r) /\ proc[p].pc = "cached" /\ NoChild(p)
    BY <1>a, <1>3 DEF CcacheMiss, At, Proper
  <2>2. /\ r.parent = proc[p].parent /\ r.env = proc[p].env /\ Proper(r)
    BY <1>a, <2>1 DEF Process, Proper, Program, SemCalls
  <2> HIDE DEF r
  <2>3. QED
    BY <1>a, <2>1, <2>2, LocalLine
<1>4. CASE DistccHasNoHost(p)
  <2>1. Exit(p, "nodist") /\ NoChild(p)
    BY <1>a, <1>4 DEF DistccHasNoHost, At, Proper, SemCalls
  <2>2. QED
    BY <1>a, <2>1, ExitLine DEF NoChild
<1>5. QED
  BY <1>1, <1>2, <1>3, <1>4

\* Every exit is one of a process whose children have ended.
LEMMA ExitsAlone ==
  ASSUME LineInv, NEW p \in Pid,
         \/ CalledMyself(p) \/ SemDenied(p) \/ DistccReturned(p)
         \/ ProgramEnds(p) \/ CcacheHit(p) \/ DistccWorks(p) \/ Crash(p)
  PROVE  \A q \in Children(p) : At(q, "zombie")
<1>1. CASE DistccReturned(p)
  <2>1. PICK q \in Children(p) : At(q, "zombie")
    BY <1>1 DEF DistccReturned
  <2>2. proc[p].pc = "wait"
    BY <1>1 DEF DistccReturned, At
  <2>3. \A x \in Children(p) : x = q
    BY <2>1, <2>2 DEF Children, LineInv, FewChildren, At
  <2>4. QED
    BY <2>1, <2>3
<1>2. CASE ~DistccReturned(p)
  <2>1. NoChild(p)
    BY <1>2, Childless DEF CalledMyself, SemDenied, ProgramEnds, CcacheHit,
       DistccWorks, Crash, Grabbing, At, Callers
  <2>2. QED
    BY <2>1 DEF NoChild
<1>3. QED
  BY <1>1, <1>2

\* So exits keep LineInv.
LEMMA ExitsLine ==
  ASSUME IndInv, LineInv, NEW p \in Pid,
         \/ CalledMyself(p) \/ SemDenied(p) \/ DistccReturned(p)
         \/ ProgramEnds(p) \/ CcacheHit(p) \/ DistccWorks(p) \/ Crash(p)
  PROVE  LineInv'
<1>1. TypeOK
  BY DEF IndInv
<1>2. PICK status \in {"none", "done", "nodist", "killed"} : Exit(p, status)
  BY <1>1, ExitSteps
<1>3. QED
  BY <1>1, <1>2, ExitsAlone, ExitLine

\* A command the user types.
LEMMA StartLine ==
  ASSUME IndInv, IndInv', LineInv, NEW p \in Pid, Start(p)
  PROVE  LineInv'
<1>1. PICK c \in Cmd, d \in Dir :
        Local(p, [Idle EXCEPT !.pc = "main", !.cmd = c, !.dir = d])
  BY ConstantsOK DEF Start
<1> DEFINE r == [Idle EXCEPT !.pc = "main", !.cmd = c, !.dir = d]
<1>2. r.parent = NoPid /\ r.env.lock # Slow /\ Proper(r)
  BY DEF Idle, CleanEnv, NoSection, Unset, Slow, Proper, Program, SemCalls
<1>3. proc' = [proc EXCEPT ![p] = r] /\ semadj' = semadj
  BY <1>1 DEF Local, sem
<1>4. NoChild(p)
  BY Childless DEF Start, Usable, At, Callers
<1> HIDE DEF r
<1>5. TypeOK /\ r \in Process
  BY <1>3 DEF IndInv, TypeOK
<1>6. QED
  BY <1>2, <1>3, <1>4, <1>5, AloneKeeps

-----------------------------------------------------------------------------
(* The invariant.                                                          *)

\* LineInv holds before the user types anything.
LEMMA InitLine == Init => LineInv
<1> SUFFICES ASSUME Init PROVE LineInv
  OBVIOUS
<1>1. \A p \in Pid : proc[p] = Idle
  BY DEF Init
<1>2. Idle.parent \notin Pid /\ Idle.env.lock # Slow /\ Proper(Idle)
  BY ConstantsOK DEF Idle, CleanEnv, NoSection, Unset, Slow, Proper, Program
<1>3. \A p \in Pid : Proper(proc[p])
  BY <1>1, <1>2
<1>4. FewChildren
  BY <1>1, <1>2 DEF FewChildren
<1>5. Acyclic
  BY <1>1, <1>2 DEF Acyclic
<1>6. SlowInherited
  BY <1>1, <1>2 DEF SlowInherited
<1>7. QED
  BY <1>3, <1>4, <1>5, <1>6 DEF LineInv

\* Without the pipe, and without kills, some steps are never taken.
LEMMA NeverTaken ==
  ASSUME Orderly, IndInv, LineInv, NEW p \in Pid
  PROVE  /\ ~Preprocess(p) /\ ~TellOwner(p) /\ ~TellNobody(p)
         /\ ~RunCcache(p) /\ ~ReadPipe(p) /\ ~Collect(p) /\ ~Kill(p)
<1>1. Proper(proc[p]) /\ NoPid \notin Pid
  BY ConstantsOK DEF LineInv
<1>2. ~Preprocess(p) /\ ~TellOwner(p) /\ ~TellNobody(p)
  BY <1>1 DEF Proper, Preprocess, TellOwner, TellNobody
<1>3. ~ReadPipe(p) /\ ~Collect(p) /\ ~Kill(p)
  BY <1>1 DEF Proper, ReadPipe, Collect, Kill, Orderly, At
<1>4. ~RunCcache(p)
  <2>1. proc[p] \in Process
    BY OwnType DEF IndInv
  <2>2. [proc[p] EXCEPT !.env.lockfd = p, !.env.prefix = TRUE].ccache_then_distcc
          = proc[p].ccache_then_distcc
    BY <2>1 DEF Process
  <2>3. QED
    BY <1>1, <2>2 DEF Proper, RunCcache
<1>5. QED
  BY <1>2, <1>3, <1>4

\* Every step keeps LineInv.
LEMMA NextLine ==
  ASSUME Orderly, IndInv, IndInv', LineInv, [Next]_vars
  PROVE  LineInv'
<1>1. ASSUME UNCHANGED <<proc, semadj>>
      PROVE  LineInv'
  BY <1>1 DEF LineInv, FewChildren, Acyclic, SlowInherited, HoldsUnit, At
<1>2. CASE UNCHANGED vars
  BY <1>1, <1>2 DEF vars, sem
<1>3. CASE Edit
  BY <1>1, <1>3 DEF Edit, sem
<1>4. ASSUME NEW p \in Pid,
             \/ Step(p) \/ ProgramCalls(p) \/ ProgramProgress(p)
             \/ Start(p) \/ Kill(p)
      PROVE  LineInv'
  <2>2. /\ ~Preprocess(p) /\ ~TellOwner(p) /\ ~TellNobody(p)
        /\ ~RunCcache(p) /\ ~ReadPipe(p) /\ ~Collect(p) /\ ~Kill(p)
    BY NeverTaken
  <2>3. CASE CreateSem(p) \/ SetPerm(p) \/ SetVal(p)
    BY <2>3, SemCallsLine
  <2>4. CASE \/ Main(p) \/ ReadConfig(p) \/ NoName(p) \/ Fstat(p)
             \/ PickMakeByte(p) \/ NeedSlow(p) \/ PickFastByte(p)
             \/ AlreadyGotIt(p) \/ GrabTopMake(p)
    BY <2>4, BeforeLock
  <2>5. CASE LockByte(p) \/ GrabSem(p)
    BY <2>5, LocksLine
  <2>6. CASE Unaltered(p) \/ RunExec(p) \/ Altered(p) \/ RunDistcc(p)
    BY <2>6, AfterLock
  <2>7. CASE DistccFailed(p)
    BY <2>7, DistccFailedLine
  <2>8. CASE \/ ProgramCalls(p) \/ CcacheStarts(p) \/ CcacheMiss(p)
             \/ DistccHasNoHost(p)
    BY <2>8, ProgramLine
  <2>9. CASE \/ CalledMyself(p) \/ SemDenied(p) \/ DistccReturned(p) \/ ProgramEnds(p)
             \/ CcacheHit(p) \/ DistccWorks(p) \/ Crash(p)
    BY <2>9, ExitsLine
  <2>10. CASE Start(p)
    BY <2>10, StartLine
  <2>11. QED
    BY <1>4, <2>2, <2>3, <2>4, <2>5, <2>6, <2>7, <2>8, <2>9, <2>10
    DEF Step, ProgramProgress
<1>5. QED
  BY <1>2, <1>3, <1>4 DEF Next

(***************************************************************************)
(* The invariant of the line that stands behind each unit of the slow      *)
(* lock, for any number of processes and edits.                            *)
(***************************************************************************)
THEOREM LineInvariance ==
  ASSUME Orderly
  PROVE  Spec => [](IndInv /\ LineInv)
<1>1. Init => IndInv /\ LineInv
  BY InitInv, InitLine
<1>2. IndInv /\ LineInv /\ [Next]_vars => (IndInv /\ LineInv)'
  BY NextKeeps, NextLine
<1>3. QED
  BY <1>1, <1>2, PTL DEF Spec

-----------------------------------------------------------------------------
(* What follows.                                                           *)

(***************************************************************************)
(* CCONTROL_LOCK=0 tells the truth: whoever believes that it "already has  *)
(* the slow lock" (ccontrol-lock.c:168) runs on behalf of a process that   *)
(* holds it at this moment.                                                *)
(***************************************************************************)
THEOREM SlowLockIsHeld ==
  ASSUME Orderly
  PROVE  Spec => []SlowMeansHeld
<1>1. IndInv /\ LineInv => SlowMeansHeld
  <2> SUFFICES ASSUME IndInv, LineInv PROVE SlowMeansHeld
    OBVIOUS
  <2> DEFINE Held(p) == proc[p].env.by \in Pid /\ semadj[proc[p].env.by] = 1
             S == {p \in Pid : proc[p].env.lock = Slow /\ ~Held(p)}
  <2>1. ASSUME NEW p \in S
        PROVE  proc[p].parent \in S
    <3>1. ~HoldsUnit(p)
      BY DEF HoldsUnit
    <3>2. QED
      BY <3>1 DEF LineInv, SlowInherited
  <2>2. S \in SUBSET Pid
    OBVIOUS
  <2>3. S = {}
    BY <2>1, <2>2 DEF LineInv, Acyclic
  <2>4. QED
    BY <2>3 DEF SlowMeansHeld
<1>2. QED
  BY <1>1, LineInvariance, PTL

\* A line has one end: the holders are as many as the ends, or more.
LEMMA EndsOfLines ==
  ASSUME IndInv, LineInv
  PROVE  Cardinality(LocalJobs) <= Cardinality(SlowHolders)
<1> DEFINE S == {p \in Pid : proc[p].env.lock = Slow}
           H == {p \in S : HoldsUnit(p)}
           L == LocalJobs
           f == [p \in S \ H |-> proc[p].parent]
<1>1. IsFiniteSet(S) /\ H \subseteq S
  BY ConstantsOK, FS_Subset
<1>2. L \subseteq S
  BY DEF LocalJobs, LineInv, Proper, Program
<1>3. ASSUME NEW p \in S \ H
      PROVE  proc[p].parent \in S \ L
  BY DEF LineInv, SlowInherited, LocalJobs, NoChild, Children
<1>4. ASSUME NEW p \in S \ H, NEW q \in S \ H, proc[p].parent = proc[q].parent
      PROVE  p = q
  <2>1. proc[p].parent \in Pid /\ proc[proc[p].parent].env.lock = Slow
    BY <1>3
  <2>2. proc[proc[p].parent].pc # "make"
    BY <2>1 DEF LineInv, Proper, Level, Unset, Slow
  <2>3. QED
    BY <1>4, <2>1, <2>2 DEF LineInv, FewChildren, At
<1>5. f \in Injection(S \ H, S \ L)
  BY <1>3, <1>4 DEF Injection, IsInjective
<1>6. IsFiniteSet(S \ L) /\ IsFiniteSet(S \ H)
  BY <1>1, FS_Difference
<1> DEFINE A == S \ H
           B == S \ L
<1>7. Cardinality(A) <= Cardinality(B)
  <2> HIDE DEF f, A, B
  <2>1. f \in Injection(A, B) /\ IsFiniteSet(B)
    BY <1>5, <1>6 DEF A, B
  <2>2. QED
    BY <2>1, FS_Injection
<1>8. /\ Cardinality(A) = Cardinality(S) - Cardinality(H)
      /\ Cardinality(B) = Cardinality(S) - Cardinality(L)
  <2>1. S \cap H = H /\ S \cap L = L
    BY <1>1, <1>2
  <2> HIDE DEF S, H, L
  <2>2. QED
    BY <1>1, <2>1, FS_Difference
<1>9. H \subseteq SlowHolders /\ IsFiniteSet(SlowHolders)
  BY HoldersFinite DEF HoldsUnit, SlowHolders
<1>10. Cardinality(H) <= Cardinality(SlowHolders)
  BY <1>9, FS_Subset
<1>11. /\ Cardinality(S) \in Nat /\ Cardinality(H) \in Nat
       /\ Cardinality(L) \in Nat /\ Cardinality(SlowHolders) \in Nat
  BY <1>1, <1>2, <1>9, FS_Subset, FS_CardinalityType
<1> HIDE DEF S, H, L, A, B
<1>12. Cardinality(L) <= Cardinality(SlowHolders)
  BY <1>7, <1>8, <1>10, <1>11
<1>13. QED
  BY <1>12 DEF L

(***************************************************************************)
(* ccontrol restricts the "number of parallel processes"                   *)
(* (ccontrol-lock.c:1): the compiles and links at work are never more than *)
(* the units of the slow lock, whatever fails and whatever is edited.      *)
(***************************************************************************)
THEOREM JobsAreBounded ==
  ASSUME Orderly
  PROVE  Spec => []JobsBounded
<1>1. IndInv /\ LineInv => JobsBounded
  <2> SUFFICES ASSUME IndInv, LineInv PROVE JobsBounded
    OBVIOUS
  <2>1. semval \in Nat /\ semval + Cardinality(SlowHolders) = semcap
    BY DEF IndInv, TypeOK, UnitsConserved
  <2>2. IsFiniteSet(SlowHolders) /\ LocalJobs \subseteq Pid
    BY HoldersFinite DEF LocalJobs
  <2>3. /\ Cardinality(SlowHolders) \in Nat /\ Cardinality(LocalJobs) \in Nat
    BY <2>2, ConstantsOK, FS_Subset, FS_CardinalityType
  <2>4. QED
    BY <2>1, <2>3, EndsOfLines DEF JobsBounded
<1>2. QED
  BY <1>1, LineInvariance, PTL

-----------------------------------------------------------------------------
(* The ranges.                                                             *)

\* Numbers of the ranges; every section of a config file has the same.
LEMMA SameRanges ==
  ASSUME Ranked, NEW s, s.cpus = AnySection.cpus
  PROVE  /\ FastBytes(s) = FastBytes(AnySection)
         /\ \A depth : MakeBytes(s, depth) = MakeBytes(AnySection, depth)
BY DEF FastBytes, MakeBytes

\* AnySection is a section.
LEMMA AnySectionType ==
  AnySection.cpus \in Nat /\ AnySection.cpus > 0
<1>1. (CHOOSE d \in Dir : TRUE) \in Dir
  BY ConstantsOK
<1>2. AnySection \in Section
  BY <1>1, ConstantsOK DEF AnySection
<1>3. QED
  BY <1>2 DEF Section

\* The range of a depth ends where that of the next begins.
LEMMA RangesApart ==
  ASSUME NEW i \in Int, NEW j \in Int, 0 <= i, i < j, NEW b
  PROVE  /\ ~(b \in MakeBytes(AnySection, i) /\ b \in MakeBytes(AnySection, j))
         /\ ~(b \in MakeBytes(AnySection, i) /\ b \in FastBytes(AnySection))
<1> DEFINE c == AnySection.cpus
           m == c * MakeLimit
           f == c * DistccLimit
<1>1. c \in Nat /\ MakeLimit \in Nat /\ DistccLimit \in Nat
  BY AnySectionType, ConstantsOK
<1> HIDE DEF c
<1>2. m \in Nat /\ f \in Nat
  BY <1>1
<1>3. i * c * MakeLimit = i * m /\ j * c * MakeLimit = j * m
  BY <1>1
<1> HIDE DEF m, f
<1>4. i * m \in Int /\ j * m \in Int /\ 0 <= i * m
  BY <1>2
<1>5. i * m + m <= j * m
  <2>1. j * m = i * m + m + (j - i - 1) * m
    BY <1>2
  <2>2. (j - i - 1) * m >= 0
    BY <1>2
  <2>3. (j - i - 1) * m \in Int
    BY <1>2
  <2>4. QED
    BY <1>2, <1>4, <2>1, <2>2, <2>3
<1>6. /\ MakeBytes(AnySection, i) = (1 + f + i * m) .. (1 + f + i * m + m - 1)
      /\ MakeBytes(AnySection, j) = (1 + f + j * m) .. (1 + f + j * m + m - 1)
      /\ FastBytes(AnySection) = 1 .. f
  BY <1>3 DEF MakeBytes, FastBytes, c, m, f
<1>7. QED
  BY <1>2, <1>4, <1>5, <1>6

-----------------------------------------------------------------------------
(* Kinds of steps.                                                         *)

\* Numbers of CCONTROL_LOCK.
LEMMA LockType ==
  ASSUME TypeOK, NEW p \in Pid
  PROVE  proc[p].env.lock \in Int
BY OwnType DEF Env

\* A step of a process that has no children.
LEMMA AloneBytes ==
  ASSUME TypeOK, LineInv, ByteInv, NEW p \in Pid, NoChild(p), NEW r \in Process,
         proc' = [proc EXCEPT ![p] = r],
         r.parent = proc[p].parent \/ r.parent = NoPid,
         InOrder(r),
         r.parent \in Pid => Follows(r, proc[proc[p].parent]),
         \A l \in locks' :
           \/ l \in locks /\ l[3] # p
           \/ l[3] = p /\ InRange(r, l[2], Depth(r.env.lock) - 1)
  PROVE  ByteInv'
<1>1. /\ proc'[p] = r /\ \A q \in Pid \ {p} : proc'[q] = proc[q]
  BY DEF TypeOK
<1>2. ASSUME NEW q \in Pid
      PROVE  /\ InOrder(proc'[q])
             /\ proc'[q].parent \in Pid =>
                  Follows(proc'[q], proc'[proc'[q].parent])
  <2>1. CASE q = p
    <3>1. proc[p].parent # p
      BY NotOwnParent
    <3>2. QED
      BY <2>1, <3>1, <1>1, ConstantsOK
  <2>2. CASE q # p
    <3>1. proc[q].parent # p
      BY DEF NoChild, Children
    <3>2. QED
      BY <2>2, <3>1, <1>1 DEF ByteInv
  <2>3. QED
    BY <2>1, <2>2
<1>3. ASSUME NEW l \in locks'
      PROVE  InRange(proc'[l[3]], l[2], Depth(proc'[l[3]].env.lock) - 1)
  <2>1. CASE l \in locks /\ l[3] # p
    <3>1. l[3] \in Pid
      BY <2>1 DEF TypeOK
    <3>2. QED
      BY <2>1, <3>1, <1>1 DEF ByteInv
  <2>2. CASE l[3] = p /\ InRange(r, l[2], Depth(r.env.lock) - 1)
    BY <2>2, <1>1
  <2>3. QED
    BY <1>3, <2>1, <2>2
<1>4. QED
  BY <1>2, <1>3 DEF ByteInv

\* A process that goes on with the same command and lock follows its parent as
\* before.
LEMMA FollowsOn ==
  ASSUME NEW q, NEW r, NEW a, q.env.lock \in Int, a.env.lock \in Int,
         Follows(q, a), r.cmd = q.cmd, r.env.lock = q.env.lock,
         r.undo = q.undo \/ r.undo \in {"none", "nothing"},
         q.pc \notin {"zombie", "distcc"}
  PROVE  Follows(r, a)
BY DEF Follows

\* A step that changes nothing but such a process; before it has a lock, it may
\* also change CCONTROL_LOCK.
LEMMA LocalBytes ==
  ASSUME IndInv, IndInv', LineInv, ByteInv, NEW p \in Pid, NoChild(p), NEW r,
         Local(p, r), r.parent = proc[p].parent, r.cmd = proc[p].cmd, InOrder(r),
         \/ /\ r.env.lock = proc[p].env.lock
            /\ r.undo = proc[p].undo \/ r.undo \in {"none", "nothing"}
            /\ proc[p].pc \notin {"zombie", "distcc"}
         \/ /\ proc[p].pc \in Unlocked
            /\ r.parent \in Pid => Follows(r, proc[r.parent])
  PROVE  ByteInv'
<1>a. TypeOK /\ NothingHeld
  BY DEF IndInv
<1>1. proc' = [proc EXCEPT ![p] = r] /\ locks' = locks
  BY DEF Local
<1>2. r \in Process
  BY <1>1 DEF IndInv, TypeOK
<1>3. r.parent \in Pid => Follows(r, proc[proc[p].parent])
  BY <1>a, LockType, FollowsOn DEF ByteInv
<1>4. \A l \in locks' :
        \/ l \in locks /\ l[3] # p
        \/ l[3] = p /\ InRange(r, l[2], Depth(r.env.lock) - 1)
  BY <1>1, <1>a DEF ByteInv, InRange, NothingHeld
<1>5. QED
  BY <1>a, <1>1, <1>2, <1>3, <1>4, AloneBytes

\* The exit of a process whose children have all ended.
LEMMA ExitBytes ==
  ASSUME IndInv, LineInv, ByteInv, NEW p \in Pid,
         NEW status \in {"none", "done", "nodist", "killed"},
         Exit(p, status), \A q \in Children(p) : At(q, "zombie")
  PROVE  ByteInv'
<1>a. TypeOK
  BY DEF IndInv
<1>1. proc' = Ended(p, status) /\ locks' = {l \in locks : l[3] # p}
  BY DEF Exit
<1> DEFINE z == [Idle EXCEPT !.pc = "zombie", !.parent = proc[p].parent,
                             !.status = status]
<1>2. /\ InOrder(Idle) /\ Idle.parent = NoPid
      /\ InOrder(z) /\ z.parent = proc[p].parent /\ z.cmd = "cc" /\ z.pc = "zombie"
  BY DEF InOrder, Idle, SemCalls
<1> HIDE DEF z
<1>3. proc'[p] = z \/ proc'[p] = Idle
  BY <1>1 DEF Ended, z
<1>4. ASSUME NEW q \in Pid \ {p}
      PROVE  \/ proc'[q] = Idle /\ At(q, "zombie")
             \/ proc'[q] = proc[q] /\ proc[q].parent # p
  BY <1>1 DEF Ended, Children
<1>5. ASSUME NEW q \in Pid
      PROVE  /\ InOrder(proc'[q])
             /\ proc'[q].parent \in Pid =>
                  Follows(proc'[q], proc'[proc'[q].parent])
  <2>1. CASE q = p
    BY <2>1, <1>2, <1>3, ConstantsOK DEF Follows
  <2>2. CASE q # p /\ proc'[q] = Idle
    BY <2>2, <1>2, ConstantsOK
  <2>3. CASE q # p /\ proc'[q] = proc[q] /\ proc[q].parent # p
    <3>1. proc[q].parent \in Pid => proc[proc[q].parent].pc # "zombie"
      BY DEF LineInv, FewChildren, Callers
    <3>2. proc[q].parent \in Pid => proc'[proc[q].parent] = proc[proc[q].parent]
      BY <3>1, <2>3, <1>4 DEF At
    <3>3. QED
      BY <2>3, <3>2 DEF ByteInv
  <2>4. QED
    BY <2>1, <2>2, <2>3, <1>4
<1>6. ASSUME NEW l \in locks'
      PROVE  InRange(proc'[l[3]], l[2], Depth(proc'[l[3]].env.lock) - 1)
  <2>1. l \in locks /\ l[3] # p /\ l[3] \in Pid
    BY <1>a, <1>1, <1>6 DEF TypeOK
  <2>2. proc[l[3]].pc # "zombie"
    BY <2>1 DEF IndInv, NothingHeld, Unlocked, SemCalls
  <2>3. proc'[l[3]] = proc[l[3]]
    BY <2>1, <2>2, <1>4 DEF At
  <2>4. QED
    BY <2>1, <2>3 DEF ByteInv
<1>7. QED
  BY <1>5, <1>6 DEF ByteInv

\* A program, or main, starts a child.
LEMMA SpawnBytes ==
  ASSUME IndInv, LineInv, ByteInv, NEW p \in Pid, NEW r \in Process, NEW image \in Process,
         Spawn(p, r, image), proc[p].pc # "free",
         NoChild(p) \/ r.pc = proc[p].pc,
         r.parent = proc[p].parent, r.cmd = proc[p].cmd,
         r.env.lock = proc[p].env.lock, r.undo = proc[p].undo,
         proc[p].pc \notin {"zombie", "distcc"},
         InOrder(r), InOrder([image EXCEPT !.parent = p]),
         Follows([image EXCEPT !.parent = p], r)
  PROVE  ByteInv'
<1>a. TypeOK
  BY DEF IndInv
<1> DEFINE c == [image EXCEPT !.parent = p]
<1>1. PICK q \in Pid : Usable(q) /\ proc' = [proc EXCEPT ![p] = r, ![q] = c]
  BY DEF Spawn
<1>2. q # p /\ proc[q].pc = "free" /\ NoChild(q)
  BY <1>1, Childless DEF Usable, At, Callers
<1>3. c.parent = p
  BY DEF Process
<1>4. locks' = locks /\ InOrder(c) /\ Follows(c, r)
  BY DEF Spawn
<1> HIDE DEF c
<1>5. /\ proc'[p] = r /\ proc'[q] = c
      /\ \A x \in Pid \ {p, q} : proc'[x] = proc[x]
  BY <1>a, <1>1, <1>2 DEF TypeOK
<1>6. ASSUME NEW x \in Pid
      PROVE  /\ InOrder(proc'[x])
             /\ proc'[x].parent \in Pid =>
                  Follows(proc'[x], proc'[proc'[x].parent])
  <2>1. CASE x = q
    BY <2>1, <1>3, <1>4, <1>5
  <2>2. CASE x = p
    <3>1. proc[p].parent # p /\ proc[p].parent # q
      BY <1>2, NotOwnParent DEF NoChild, Children
    <3>2. proc[p].parent \in Pid => Follows(r, proc[proc[p].parent])
      BY <1>a, LockType, FollowsOn DEF ByteInv
    <3>3. QED
      BY <2>2, <3>1, <3>2, <1>5
  <2>3. CASE x \notin {p, q}
    <3>1. proc'[x] = proc[x] /\ proc[x].parent # q
      BY <2>3, <1>2, <1>5 DEF NoChild, Children
    <3>2. proc[x].parent = p => r.pc = proc[p].pc
      BY DEF NoChild, Children
    <3>3. proc[x].parent = p => Follows(proc[x], r)
      BY <3>2 DEF ByteInv, Follows
    <3>4. QED
      BY <3>1, <3>3, <1>5 DEF ByteInv
  <2>4. QED
    BY <2>1, <2>2, <2>3
<1>7. ASSUME NEW l \in locks'
      PROVE  InRange(proc'[l[3]], l[2], Depth(proc'[l[3]].env.lock) - 1)
  <2>1. l[3] \in Pid /\ l[3] # q
    BY <1>a, <1>2, <1>4 DEF TypeOK, IndInv, NothingHeld, Unlocked, SemCalls
  <2>2. QED
    BY <2>1, <1>4, <1>5 DEF ByteInv, InRange
<1>8. QED
  BY <1>6, <1>7 DEF ByteInv

-----------------------------------------------------------------------------
(* The actions.                                                            *)

\* main, up to the lock: the byte it picks is of its own range.
LEMMA BeforeLockBytes ==
  ASSUME IndInv, IndInv', LineInv, ByteInv, Ranked, NEW p \in Pid,
         \/ Main(p) \/ ReadConfig(p) \/ NoName(p) \/ Fstat(p)
         \/ PickMakeByte(p) \/ NeedSlow(p) \/ PickFastByte(p)
         \/ AlreadyGotIt(p) \/ GrabTopMake(p)
  PROVE  ByteInv'
<1>a. /\ TypeOK /\ proc[p] \in Process /\ Proper(proc[p]) /\ InOrder(proc[p])
      /\ proc[p].pc \in {"main", "again", "fstat", "grab"}
  BY OwnType DEF IndInv, LineInv, ByteInv, Main, ReadConfig, NoName, Fstat,
     PickMakeByte, NeedSlow, PickFastByte, AlreadyGotIt, GrabTopMake, Grabbing,
     At
<1>b. NoChild(p)
  BY <1>a, Childless DEF Callers
<1>c. proc[p].pc \in Unlocked /\ proc[p].pc \notin {"zombie", "distcc"}
  BY <1>a DEF Unlocked, SemCalls
<1>d. IsMake(proc[p]) <=> proc[p].cmd = "make"
  BY <1>a DEF IsMake, TypeOf, Process
<1> USE DEF At, Grabbing
<1>1. CASE Main(p) \/ NoName(p)
  <2>1. PICK label \in {"again", "crash"} : Local(p, [proc[p] EXCEPT !.pc = label])
    BY <1>1 DEF Main, NoName
  <2> DEFINE r == [proc[p] EXCEPT !.pc = label]
  <2>2. /\ r.parent = proc[p].parent /\ r.env = proc[p].env /\ r.cmd = proc[p].cmd
        /\ r.undo = proc[p].undo /\ InOrder(r)
    BY <1>a DEF Process, InOrder, SemCalls
  <2>3. Local(p, r)
    BY <2>1
  <2> HIDE DEF r
  <2>4. QED
    BY <1>b, <1>c, <2>2, <2>3, LocalBytes
<1>2. CASE ReadConfig(p)
  <2> DEFINE s == config[proc[p].dir]
             t == [s EXCEPT !.ccache = s.ccache /\ ~proc[p].noccache,
                            !.distcc = DistccDirectly(proc[p], s)]
             r == [proc[p] EXCEPT !.pc = "fstat", !.sec = t,
                     !.ccache_then_distcc = @ \/ DistccByCcache(proc[p], s)]
  <2>1. s \in Section /\ s.cpus = AnySection.cpus
    BY <1>a, ConstantsOK DEF IndInv, TypeOK, Process, Ranked
  <2>2. t.cpus = AnySection.cpus
    BY <2>1 DEF Section
  <2>3. Local(p, r)
    BY <1>2 DEF ReadConfig
  <2> HIDE DEF t, s
  <2>4. /\ r.parent = proc[p].parent /\ r.env = proc[p].env /\ r.sec = t
        /\ r.pc = "fstat" /\ r.cmd = proc[p].cmd /\ r.undo = proc[p].undo
    BY <1>a DEF Process
  <2> HIDE DEF r
  <2>5. InOrder(r)
    BY <1>a, <2>2, <2>4 DEF InOrder, SemCalls
  <2>6. QED
    BY <1>b, <1>c, <2>3, <2>4, <2>5, LocalBytes
<1>3. CASE Fstat(p)
  <2> DEFINE r == [proc[p] EXCEPT !.pc = "grab", !.st = stamp]
  <2>1. /\ r.parent = proc[p].parent /\ r.env = proc[p].env /\ r.cmd = proc[p].cmd
        /\ r.undo = proc[p].undo /\ InOrder(r)
    BY <1>a, <1>3 DEF Fstat, Process, InOrder, SemCalls
  <2>2. Local(p, r)
    BY <1>3 DEF Fstat
  <2> HIDE DEF r
  <2>3. QED
    BY <1>b, <1>c, <2>1, <2>2, LocalBytes
<1>4. CASE PickMakeByte(p) \/ PickFastByte(p)
  <2>1. PICK b : /\ Local(p, [proc[p] EXCEPT !.pc = "fcntl", !.want = b])
                 /\ InRange(proc[p], b, Depth(proc[p].env.lock))
    <3>1. proc[p].pc = "grab" /\ proc[p].sec.cpus = AnySection.cpus
      BY <1>a, <1>4 DEF PickMakeByte, PickFastByte, InOrder
    <3>2. QED
      BY <1>4, <1>d, <3>1, SameRanges DEF PickMakeByte, PickFastByte, InRange
  <2> DEFINE r == [proc[p] EXCEPT !.pc = "fcntl", !.want = b]
  <2>2. proc[p].env.lock # Slow /\ proc[p].pc = "grab"
    BY <1>4 DEF PickMakeByte, PickFastByte
  <2>3. /\ r.parent = proc[p].parent /\ r.env = proc[p].env /\ r.cmd = proc[p].cmd
        /\ r.undo = proc[p].undo /\ r.pc = "fcntl" /\ r.want = b
        /\ r.sec = proc[p].sec
    BY <1>a DEF Process
  <2>4. Local(p, r)
    BY <2>1
  <2> HIDE DEF r
  <2>5. InOrder(r)
    BY <1>a, <2>1, <2>2, <2>3 DEF InOrder, InRange
  <2>6. QED
    BY <1>b, <1>c, <2>3, <2>4, <2>5, LocalBytes
<1>5. CASE NeedSlow(p)
  <2> DEFINE r == [proc[p] EXCEPT !.pc = "sem"]
  <2>1. /\ r.parent = proc[p].parent /\ r.env = proc[p].env /\ r.cmd = proc[p].cmd
        /\ r.undo = proc[p].undo /\ InOrder(r)
    BY <1>a, <1>5 DEF NeedSlow, Process, InOrder
  <2>2. Local(p, r)
    BY <1>5 DEF NeedSlow
  <2> HIDE DEF r
  <2>3. QED
    BY <1>b, <1>c, <2>1, <2>2, LocalBytes
<1>6. CASE AlreadyGotIt(p)
  <2> DEFINE r == [proc[p] EXCEPT !.pc = "restat", !.undo = "nothing"]
  <2>1. proc[p].cmd # "make"
    BY <1>a, <1>6 DEF AlreadyGotIt, Proper, Unset, Slow, Level
  <2>2. /\ r.parent = proc[p].parent /\ r.env = proc[p].env /\ r.cmd = proc[p].cmd
        /\ r.undo = "nothing" /\ InOrder(r)
    BY <1>a, <2>1 DEF Process, InOrder, SemCalls
  <2>3. Local(p, r)
    BY <1>6 DEF AlreadyGotIt
  <2> HIDE DEF r
  <2>4. QED
    BY <1>b, <1>c, <2>2, <2>3, LocalBytes
<1>7. CASE GrabTopMake(p)
  <2> DEFINE r == [proc[p] EXCEPT !.pc = "restat", !.undo = "decrement",
                                  !.env.lock = Level(0)]
  <2>1. proc[p].cmd = "make" /\ proc[p].env.lock = Unset
    BY <1>d, <1>7 DEF GrabTopMake
  <2>2. /\ r.parent = proc[p].parent /\ r.cmd = proc[p].cmd
        /\ r.env.lock = Level(0) /\ r.pc = "restat" /\ r.undo = "decrement"
    BY <1>a DEF Process, Env
  <2>3. Local(p, r)
    BY <1>7 DEF GrabTopMake
  <2>4. proc[p].parent \notin Pid
    <3> SUFFICES ASSUME proc[p].parent \in Pid PROVE FALSE
      OBVIOUS
    <3> DEFINE a == proc[p].parent
    <3>1. proc[a].pc = "make" /\ proc[p].env.lock >= proc[a].env.lock
      BY <2>1 DEF ByteInv, Follows
    <3>2. proc[a].env.lock >= Level(0)
      BY <3>1 DEF ByteInv, InOrder, LineInv, Proper
    <3>3. proc[a].env.lock \in Int
      BY <1>a, LockType
    <3>4. QED
      BY <2>1, <3>1, <3>2, <3>3 DEF Level, Unset
  <2> HIDE DEF r
  <2>5. InOrder(r)
    BY <2>1, <2>2 DEF InOrder, Level, SemCalls
  <2>6. QED
    BY <1>b, <1>c, <2>2, <2>3, <2>4, <2>5, LocalBytes
<1>8. QED
  BY <1>1, <1>2, <1>3, <1>4, <1>5, <1>6, <1>7

\* make_semaphore.
LEMMA SemCallsBytes ==
  ASSUME IndInv, LineInv, ByteInv, NEW p \in Pid,
         CreateSem(p) \/ SetPerm(p) \/ SetVal(p)
  PROVE  ByteInv'
<1>a. /\ TypeOK /\ NothingHeld /\ proc[p] \in Process /\ InOrder(proc[p])
      /\ proc[p].parent \in Pid => Follows(proc[p], proc[proc[p].parent])
  BY OwnType DEF IndInv, ByteInv
<1>1. PICK label \in SemCalls :
        proc' = [proc EXCEPT ![p] = [proc[p] EXCEPT !.pc = label]]
  BY SemCallsStep
<1>2. proc[p].pc \in SemCalls /\ locks' = locks
  BY SemCallsStep
<1>3. NoChild(p)
  BY <1>2, Childless DEF SemCalls, Callers
<1> DEFINE r == [proc[p] EXCEPT !.pc = label]
<1>4. r \in Process
  BY <1>a DEF Process, Label, MainLabel
<1>5. InOrder(r)
  BY <1>a, <1>2 DEF Process, SemCalls, InOrder
<1>6. r.parent = proc[p].parent /\ r.env = proc[p].env /\ r.cmd = proc[p].cmd
      /\ r.undo = proc[p].undo /\ r.pc = label
  BY <1>a DEF Process
<1>7. proc' = [proc EXCEPT ![p] = r]
  BY <1>1
<1> HIDE DEF r
<1>8. r.parent \in Pid => Follows(r, proc[proc[p].parent])
  BY <1>a, <1>2, <1>6 DEF Follows, SemCalls
<1>9. \A l \in locks' : l \in locks /\ l[3] # p
  BY <1>a, <1>2 DEF NothingHeld, Unlocked
<1>10. QED
  BY <1>a, <1>3, <1>4, <1>5, <1>6, <1>7, <1>8, <1>9, AloneBytes

\* The lock itself.
LEMMA LocksBytes ==
  ASSUME IndInv, IndInv', LineInv, ByteInv, NEW p \in Pid, LockByte(p) \/ GrabSem(p)
  PROVE  ByteInv'
<1>a. /\ TypeOK /\ proc[p] \in Process /\ proc[p].env \in Env
      /\ Proper(proc[p]) /\ InOrder(proc[p]) /\ proc' \in [Pid -> Process]
      /\ proc[p].env.lock \in Int /\ proc[p].env.lock # Slow
  BY OwnType, LockType DEF IndInv, TypeOK, LineInv, ByteInv, InOrder, LockByte,
     GrabSem, At, SemCalls
<1>b. NoChild(p)
  BY Childless DEF LockByte, GrabSem, At, Callers
<1>c. \A l \in locks : l[3] # p
  BY DEF IndInv, NothingHeld, Unlocked, SemCalls, LockByte, GrabSem, At
<1>d. proc[p].parent \in Pid =>
        /\ proc[proc[p].parent].env.lock \in Int
        /\ Follows(proc[p], proc[proc[p].parent])
        /\ proc[proc[p].parent].pc = "make"
  <2>1. proc[p].pc \notin {"zombie", "distcc"}
    BY DEF LockByte, GrabSem, At
  <2>2. QED
    BY <1>a, <2>1, LockType DEF ByteInv, Follows
<1>1. CASE LockByte(p)
  <2> DEFINE env == [proc[p].env EXCEPT !.lock =
                IF IsMake(proc[p]) THEN Level(Depth(proc[p].env.lock)) ELSE Fast]
             r == [proc[p] EXCEPT !.pc = "restat", !.want = 0,
                     !.undo = IF IsMake(proc[p]) THEN "decrement" ELSE "unset",
                     !.env = env]
             byte == proc[p].want
  <2>1. /\ proc' = [proc EXCEPT ![p] = r]
        /\ locks' = locks \cup {<<proc[p].sec.lock_file, byte, p>>}
        /\ proc[p].pc = "fcntl"
    BY <1>1 DEF LockByte, At
  <2>2. IsMake(proc[p]) <=> proc[p].cmd = "make"
    BY <1>a DEF IsMake, TypeOf, Process
  <2>3. env.lock = IF proc[p].cmd = "make" THEN proc[p].env.lock + 1 ELSE Fast
    BY <1>a, <2>2 DEF Env, Level, Depth
  <2> HIDE DEF env
  <2>4. /\ r.parent = proc[p].parent /\ r.env = env /\ r.cmd = proc[p].cmd
        /\ r.pc = "restat"
        /\ r.undo = IF proc[p].cmd = "make" THEN "decrement" ELSE "unset"
    BY <1>a, <2>2 DEF Process
  <2>5. r \in Process
    BY <1>a, <2>1
  <2> HIDE DEF r
  <2>6. InRange(proc[p], byte, Depth(proc[p].env.lock))
    BY <1>a, <2>1 DEF InOrder
  <2>7. InRange(r, byte, Depth(r.env.lock) - 1)
    <3>1. proc[p].cmd = "make" => Depth(env.lock) - 1 = Depth(proc[p].env.lock)
      BY <1>a, <2>3 DEF Depth
    <3>2. QED
      BY <2>4, <2>6, <3>1 DEF InRange
  <2>8. proc[p].cmd = "make" => proc[p].env.lock >= 64
    BY <1>a, <2>1 DEF Proper, Level
  <2>9. InOrder(r)
    BY <1>a, <2>3, <2>4, <2>8 DEF InOrder, Level, SemCalls
  <2>10. r.parent \in Pid => Follows(r, proc[proc[p].parent])
    BY <1>a, <1>d, <2>3, <2>4 DEF Follows
  <2>11. \A l \in locks' :
           \/ l \in locks /\ l[3] # p
           \/ l[3] = p /\ InRange(r, l[2], Depth(r.env.lock) - 1)
    BY <1>c, <2>1, <2>7
  <2>12. QED
    BY <1>a, <1>b, <2>1, <2>4, <2>5, <2>9, <2>10, <2>11, AloneBytes
<1>2. CASE GrabSem(p)
  <2> DEFINE env == [proc[p].env EXCEPT !.lock = Slow, !.by = p]
             r == [proc[p] EXCEPT !.pc = "restat", !.undo = "drop", !.env = env]
  <2>1. /\ proc' = [proc EXCEPT ![p] = r] /\ locks' = locks
        /\ proc[p].cmd # "make"
    BY <1>a, <1>2 DEF GrabSem, At, Proper, SemCalls
  <2>2. /\ r.parent = proc[p].parent /\ r.cmd = proc[p].cmd
        /\ r.pc = "restat" /\ r.undo = "drop"
    BY <1>a DEF Process
  <2>3. r \in Process
    BY <1>a, <2>1
  <2> HIDE DEF r
  <2>4. InOrder(r) /\ (r.parent \in Pid => Follows(r, proc[proc[p].parent]))
    BY <1>d, <2>1, <2>2 DEF InOrder, Follows, SemCalls
  <2>5. QED
    BY <1>a, <1>b, <1>c, <2>1, <2>2, <2>3, <2>4, AloneBytes
<1>3. QED
  BY <1>1, <1>2

\* Whoever undoes its lock is where it was when main began.
LEMMA UndoFollows ==
  ASSUME TypeOK, LineInv, ByteInv, NEW p \in Pid, proc[p].pc \in Locked,
         NEW r, r.cmd = proc[p].cmd, r.env.lock = UndoEnv(proc[p]).lock,
         r.undo = "none", proc[p].parent \in Pid
  PROVE  Follows(r, proc[proc[p].parent])
<1> DEFINE a == proc[proc[p].parent]
<1>1. /\ proc[p].env \in Env /\ proc[p].env.lock \in Int /\ a.env.lock \in Int
      /\ Follows(proc[p], a) /\ InOrder(proc[p]) /\ Proper(proc[p])
      /\ proc[p].pc \notin {"zombie", "distcc"}
  BY OwnType, LockType DEF ByteInv, LineInv, Locked
<1> HIDE DEF a
<1>2. CASE proc[p].undo = "decrement"
  <2>1. UndoEnv(proc[p]).lock = proc[p].env.lock - 1
    BY <1>1, <1>2 DEF UndoEnv, Env
  <2>2. QED
    BY <1>1, <1>2, <2>1 DEF Follows, a
<1>3. CASE proc[p].undo \in {"unset", "drop"}
  BY <1>1, <1>3 DEF Follows, InOrder, a
<1>4. CASE proc[p].undo \notin {"decrement", "unset", "drop"}
  <2>1. UndoEnv(proc[p]) = proc[p].env
    BY <1>4 DEF UndoEnv
  <2>2. QED
    BY <1>1, <2>1 DEF Follows, a
<1>5. QED
  BY <1>2, <1>3, <1>4

\* What Restart leaves.
LEMMA RestartFields ==
  ASSUME NEW q \in Process, NEW nodistcc
  PROVE  /\ Restart(q, nodistcc).parent = q.parent
         /\ Restart(q, nodistcc).cmd = q.cmd
         /\ Restart(q, nodistcc).env = UndoEnv(q)
         /\ Restart(q, nodistcc).undo = "none"
         /\ InOrder(Restart(q, nodistcc))
<1>1. /\ Restart(q, nodistcc).parent = q.parent
      /\ Restart(q, nodistcc).cmd = q.cmd
      /\ Restart(q, nodistcc).env = UndoEnv(q)
      /\ Restart(q, nodistcc).undo = "none"
      /\ Restart(q, nodistcc).pc = "again"
  BY DEF Restart, Process
<1>2. QED
  BY <1>1 DEF InOrder, SemCalls

\* main after the lock.
LEMMA AfterLockBytes ==
  ASSUME IndInv, IndInv', LineInv, ByteInv, NEW p \in Pid,
         Unaltered(p) \/ RunExec(p) \/ Altered(p) \/ RunDistcc(p)
  PROVE  ByteInv'
<1>a. /\ TypeOK /\ proc[p] \in Process /\ Proper(proc[p]) /\ InOrder(proc[p])
      /\ proc[p].pc \in {"restat", "run"} /\ proc' \in [Pid -> Process]
  BY OwnType DEF IndInv, TypeOK, LineInv, ByteInv, Unaltered, RunExec, Altered,
     RunDistcc, At
<1>b. NoChild(p)
  BY <1>a, Childless DEF Callers
<1>1. CASE Unaltered(p)
  <2> DEFINE r == [proc[p] EXCEPT !.pc = "run"]
  <2>1. /\ r.parent = proc[p].parent /\ r.env = proc[p].env /\ r.cmd = proc[p].cmd
        /\ r.undo = proc[p].undo /\ InOrder(r)
    BY <1>a DEF Process, InOrder, SemCalls
  <2>2. Local(p, r)
    BY <1>1 DEF Unaltered
  <2> HIDE DEF r
  <2>3. QED
    BY <1>a, <1>b, <2>1, <2>2, LocalBytes
<1>2. CASE RunExec(p)
  <2> DEFINE label == Target(proc[p])
             r == Exec(proc[p], label)
  <2>1. Local(p, r) /\ proc[p].pc = "run"
    BY <1>2 DEF RunExec, At
  <2>2. label \in Program /\ label \in Label
    BY DEF Target, Program, Label
  <2> HIDE DEF label
  <2>3. /\ r.parent = proc[p].parent /\ r.env = proc[p].env /\ r.cmd = proc[p].cmd
        /\ r.undo = "none" /\ r.pc = label
    BY <1>a, <2>2, ExecFields
  <2> HIDE DEF r
  <2>4. InOrder(r)
    BY <1>a, <2>1, <2>2, <2>3 DEF InOrder, Program, SemCalls
  <2>5. QED
    BY <1>a, <1>b, <2>1, <2>3, <2>4, LocalBytes
<1>3. CASE Altered(p)
  <2> DEFINE r == Restart(proc[p], FALSE)
  <2>1. proc' = [proc EXCEPT ![p] = r] /\ CloseLockFile(p)
    BY <1>3 DEF Altered
  <2>2. /\ r \in Process /\ r.pc = "again"
        /\ r.parent = proc[p].parent /\ r.cmd = proc[p].cmd
        /\ r.env = UndoEnv(proc[p]) /\ r.undo = "none" /\ InOrder(r)
    BY <1>a, RestartType, RestartFields
  <2> HIDE DEF r
  <2>3. r.parent \in Pid => Follows(r, proc[proc[p].parent])
    BY <1>a, <2>2, UndoFollows DEF Locked
  <2>4. \A l \in locks' : l \in locks /\ l[3] # p
    <3>1. proc'[p].pc = "again"
      BY <1>a, <2>1, <2>2 DEF TypeOK
    <3>2. QED
      BY <2>1, <3>1 DEF CloseLockFile, IndInv, NothingHeld, Unlocked, SemCalls
  <2>5. QED
    BY <1>a, <1>b, <2>1, <2>2, <2>3, <2>4, AloneBytes
<1>4. CASE RunDistcc(p)
  <2> DEFINE env == NoFallback(proc[p].env)
             r == [proc[p] EXCEPT !.env = env]
             s == [r EXCEPT !.pc = "wait"]
             image == Exec(r, Target(r))
             c == [image EXCEPT !.parent = p]
  <2>1. Fork(p, s, image) /\ proc[p].pc = "run" /\ proc[p].sec.distcc
    BY <1>a, <1>4 DEF RunDistcc, At, Process
  <2>2. env \in Env /\ env.lock = proc[p].env.lock
    BY <1>a DEF NoFallback, Env, Process
  <2> HIDE DEF env
  <2>3. /\ r \in Process /\ r.env = env /\ r.parent = proc[p].parent
        /\ r.sec = proc[p].sec /\ r.cmd = proc[p].cmd /\ r.undo = proc[p].undo
    BY <1>a, <2>2 DEF Process
  <2> HIDE DEF r
  <2>4. /\ s \in Process /\ s.env = env /\ s.parent = proc[p].parent
        /\ s.cmd = proc[p].cmd /\ s.undo = proc[p].undo /\ s.pc = "wait"
    BY <2>3 DEF Process, Label, MainLabel, SemCalls
  <2> HIDE DEF s
  <2>5. InOrder(s)
    BY <1>a, <2>4 DEF InOrder, SemCalls
  <2>6. Target(r) = "distcc" /\ "distcc" \in Label /\ r.cmd # "make"
    BY <1>a, <2>1, <2>3 DEF Target, TypeOf, Proper, Label, Program
  <2>7. /\ image \in Process /\ image.pc = "distcc" /\ image.cmd = r.cmd
        /\ image.undo = "none"
    <3>1. image = Exec(r, "distcc")
      BY <2>6
    <3>2. QED
      BY <2>3, <2>6, <3>1, ExecType, ExecFields
  <2>8. Spawn(p, s, image) \/ Exit(p, "done")
    BY <2>1 DEF Fork
  <2> HIDE DEF image
  <2>9. InOrder(c) /\ Follows(c, s)
    <3>1. c.pc = "distcc" /\ c.cmd # "make" /\ c.undo = "none"
      BY <2>6, <2>7 DEF Process
    <3>2. QED
      BY <3>1 DEF InOrder, Follows, SemCalls
  <2>10. CASE Spawn(p, s, image)
    BY <1>a, <1>b, <2>2, <2>4, <2>5, <2>7, <2>9, <2>10, SpawnBytes
  <2>11. CASE Exit(p, "done")
    BY <1>b, <2>11, ExitBytes DEF NoChild
  <2>12. QED
    BY <2>8, <2>10, <2>11
<1>5. QED
  BY <1>1, <1>2, <1>3, <1>4

\* The zombie of distcc is gone, and main starts again.
LEMMA DistccFailedBytes ==
  ASSUME IndInv, IndInv', LineInv, ByteInv, NEW p \in Pid, DistccFailed(p)
  PROVE  ByteInv'
<1>a. /\ TypeOK /\ proc[p] \in Process /\ proc' \in [Pid -> Process]
      /\ proc[p].pc = "wait" /\ proc[p].pc \in Locked
  BY OwnType DEF IndInv, TypeOK, DistccFailed, At, Locked
<1> DEFINE s == Restart(proc[p], TRUE)
           r == [s EXCEPT !.env.prefix = FALSE]
<1>1. PICK q \in Children(p) : /\ At(q, "zombie")
                               /\ proc' = [proc EXCEPT ![q] = Idle, ![p] = r]
  BY DEF DistccFailed
<1>2. q \in Pid /\ q # p /\ proc[q].pc = "zombie" /\ proc[q].parent = p
  BY <1>a, <1>1 DEF Children, At
<1>3. /\ s \in Process /\ s.pc = "again" /\ s.parent = proc[p].parent
      /\ s.cmd = proc[p].cmd /\ s.env = UndoEnv(proc[p]) /\ s.undo = "none"
  <2>1. TRUE \in BOOLEAN
    OBVIOUS
  <2>2. QED
    BY <1>a, <2>1, RestartType, RestartFields
<1>4. s.env \in Env
  BY <1>3 DEF Process
<1> HIDE DEF s
<1>5. /\ r.pc = "again" /\ r.parent = proc[p].parent /\ r.cmd = proc[p].cmd
      /\ r.env.lock = UndoEnv(proc[p]).lock /\ r.undo = "none"
  BY <1>3, <1>4 DEF Process, Env
<1> HIDE DEF r
<1>6. /\ proc'[p] = r /\ proc'[q] = Idle
      /\ \A x \in Pid \ {p, q} : proc'[x] = proc[x]
  BY <1>a, <1>1, <1>2 DEF TypeOK
<1>7. ASSUME NEW x \in Pid
      PROVE  /\ InOrder(proc'[x])
             /\ proc'[x].parent \in Pid =>
                  Follows(proc'[x], proc'[proc'[x].parent])
  <2>1. CASE x = q
    BY <2>1, <1>6, ConstantsOK DEF Idle, InOrder, SemCalls
  <2>2. CASE x = p
    <3>1. InOrder(r)
      BY <1>5 DEF InOrder, SemCalls
    <3>2. proc[p].parent # p /\ proc[p].parent # q
      <4>1. proc[p].parent # p
        BY NotOwnParent
      <4>2. proc[p].parent # q
        BY <1>2 DEF LineInv, FewChildren, Callers
      <4>3. QED
        BY <4>1, <4>2
    <3>3. r.parent \in Pid => Follows(r, proc[proc[p].parent])
      BY <1>a, <1>5, UndoFollows
    <3>4. QED
      BY <2>2, <3>1, <3>2, <3>3, <1>5, <1>6
  <2>3. CASE x \notin {p, q}
    <3>1. proc'[x] = proc[x]
      BY <2>3, <1>6
    <3>2. proc[x].parent # p
      BY <1>a, <1>2, <2>3 DEF LineInv, FewChildren, At
    <3>3. proc[x].parent # q
      BY <1>2 DEF LineInv, FewChildren, Callers
    <3>4. QED
      BY <3>1, <3>2, <3>3, <1>6 DEF ByteInv
  <2>4. QED
    BY <2>1, <2>2, <2>3
<1>8. ASSUME NEW l \in locks'
      PROVE  InRange(proc'[l[3]], l[2], Depth(proc'[l[3]].env.lock) - 1)
  <2>1. l \in locks /\ l[3] \in Pid
    BY <1>a, <1>8 DEF TypeOK, DistccFailed, CloseLockFile
  <2>2. l[3] # p
    BY <1>5, <1>6, <1>8 DEF IndInv, NothingHeld, Unlocked, SemCalls
  <2>3. l[3] # q
    BY <1>2, <2>1 DEF IndInv, NothingHeld, Unlocked, SemCalls
  <2>4. QED
    BY <2>1, <2>2, <2>3, <1>6 DEF ByteInv
<1>9. QED
  BY <1>7, <1>8 DEF ByteInv

\* The programs.
LEMMA ProgramBytes ==
  ASSUME IndInv, IndInv', LineInv, ByteInv, Ranked, NEW p \in Pid,
         ProgramCalls(p) \/ CcacheStarts(p) \/ CcacheMiss(p) \/ DistccHasNoHost(p)
  PROVE  ByteInv'
<1>a. /\ TypeOK /\ proc[p] \in Process /\ Proper(proc[p]) /\ InOrder(proc[p])
      /\ proc' \in [Pid -> Process] /\ proc[p].env.lock \in Int
  BY OwnType, LockType DEF IndInv, TypeOK, LineInv, ByteInv
<1>1. CASE ProgramCalls(p)
  <2> DEFINE r == [proc[p] EXCEPT !.calls = @ + 1]
  <2>1. PICK c \in Spawns[proc[p].pc], d \in Dir :
          Spawn(p, r, Exec([proc[p] EXCEPT !.cmd = c, !.dir = d], "main"))
    BY <1>1 DEF ProgramCalls
  <2>2. proc[p].pc \in {"make", "compile", "other"}
    BY <1>1, <2>1 DEF ProgramCalls, Callers, Ranked
  <2>3. c \in Cmd
    BY <2>2, ConstantsOK DEF Callers
  <2> DEFINE b == [proc[p] EXCEPT !.cmd = c, !.dir = d]
             image == Exec(b, "main")
             e == [image EXCEPT !.parent = p]
  <2>4. b \in Process /\ b.cmd = c /\ b.env = proc[p].env
    BY <1>a, <2>3 DEF Process
  <2>5. c = "make" => proc[p].pc = "make"
    BY <2>2 DEF Ranked, Orderly, Callers
  <2>6. Spawn(p, r, image)
    BY <2>1
  <2> HIDE DEF b
  <2>7. "main" \in Label
    BY DEF Label, MainLabel, SemCalls
  <2>8. /\ image \in Process /\ image.pc = "main" /\ image.cmd = c
        /\ image.env = proc[p].env /\ image.undo = "none"
    BY <2>4, <2>7, ExecType, ExecFields
  <2> HIDE DEF image
  <2>9. /\ r.pc = proc[p].pc /\ r.env = proc[p].env /\ r.parent = proc[p].parent
        /\ r.cmd = proc[p].cmd /\ r.undo = proc[p].undo /\ InOrder(r)
    <3>1. /\ r.pc = proc[p].pc /\ r.env = proc[p].env
          /\ r.parent = proc[p].parent /\ r.cmd = proc[p].cmd
          /\ r.undo = proc[p].undo
      BY <1>a DEF Process
    <3> HIDE DEF r
    <3>2. InOrder(r)
      BY <1>a, <2>2, <3>1 DEF InOrder
    <3>3. QED
      BY <3>1, <3>2
  <2>10. r \in Process
    <3>1. PICK q \in Pid : Usable(q) /\ proc' = [proc EXCEPT ![p] = r, ![q] = e]
      BY <2>6 DEF Spawn
    <3>2. q # p
      BY <2>2, <3>1 DEF Usable, At
    <3>3. QED
      BY <1>a, <3>1, <3>2 DEF TypeOK
  <2>11. /\ e.pc = "main" /\ e.cmd = c /\ e.env = proc[p].env /\ e.undo = "none"
    BY <2>8 DEF Process
  <2> HIDE DEF r, e
  <2>12. InOrder(e)
    BY <2>11 DEF InOrder, SemCalls
  <2>13. Follows(e, r)
    <3>1. proc[p].pc # "make" => proc[p].env.lock = Slow
      BY <1>a, <2>2 DEF Proper, Program
    <3>2. QED
      BY <1>a, <2>5, <2>9, <2>11, <3>1 DEF Follows
  <2>14. QED
    BY <2>2, <2>6, <2>8, <2>9, <2>10, <2>12, <2>13, SpawnBytes DEF e
<1>2. CASE CcacheStarts(p) \/ CcacheMiss(p)
  <2>1. PICK label \in {"cached", "compile"} : Local(p, [proc[p] EXCEPT !.pc = label])
    BY <1>a, <1>2 DEF CcacheStarts, CcacheMiss, At, Process, Proper
  <2>2. proc[p].pc \in {"ccache", "cached"}
    BY <1>2 DEF CcacheStarts, CcacheMiss, At
  <2>3. NoChild(p)
    BY <2>2, Childless DEF Callers
  <2> DEFINE r == [proc[p] EXCEPT !.pc = label]
  <2>4. /\ r.parent = proc[p].parent /\ r.env = proc[p].env /\ r.cmd = proc[p].cmd
        /\ r.undo = proc[p].undo /\ InOrder(r)
    BY <1>a DEF Process, InOrder, SemCalls
  <2>5. Local(p, r)
    BY <2>1
  <2> HIDE DEF r
  <2>6. QED
    BY <2>2, <2>3, <2>4, <2>5, LocalBytes
<1>3. CASE DistccHasNoHost(p)
  <2>1. Exit(p, "nodist") /\ NoChild(p)
    BY <1>a, <1>3 DEF DistccHasNoHost, At, Proper, SemCalls
  <2>2. QED
    BY <2>1, ExitBytes DEF NoChild
<1>4. QED
  BY <1>1, <1>2, <1>3

\* The exits.
LEMMA ExitsBytes ==
  ASSUME IndInv, LineInv, ByteInv, NEW p \in Pid,
         \/ CalledMyself(p) \/ SemDenied(p) \/ DistccReturned(p)
         \/ ProgramEnds(p) \/ CcacheHit(p) \/ DistccWorks(p) \/ Crash(p)
  PROVE  ByteInv'
<1>1. PICK status \in {"none", "done", "nodist", "killed"} : Exit(p, status)
  BY ExitSteps DEF IndInv
<1>2. \A q \in Children(p) : At(q, "zombie")
  BY ExitsAlone
<1>3. QED
  BY <1>1, <1>2, ExitBytes

\* A command the user types.
LEMMA StartBytes ==
  ASSUME IndInv, IndInv', LineInv, ByteInv, NEW p \in Pid, Start(p)
  PROVE  ByteInv'
<1>1. PICK c \in Cmd, d \in Dir :
        Local(p, [Idle EXCEPT !.pc = "main", !.cmd = c, !.dir = d])
  BY ConstantsOK DEF Start
<1> DEFINE r == [Idle EXCEPT !.pc = "main", !.cmd = c, !.dir = d]
<1>2. r.parent = NoPid /\ InOrder(r)
  BY DEF Idle, InOrder, SemCalls
<1>3. proc' = [proc EXCEPT ![p] = r] /\ locks' = locks
  BY <1>1 DEF Local
<1>4. NoChild(p) /\ \A l \in locks : l[3] # p
  BY Childless DEF Start, Usable, At, Callers, IndInv, NothingHeld, Unlocked,
     SemCalls
<1> HIDE DEF r
<1>5. TypeOK /\ r \in Process
  BY <1>3 DEF IndInv, TypeOK
<1>6. QED
  BY <1>2, <1>3, <1>4, <1>5, AloneBytes, ConstantsOK

LEMMA InitBytes == Init => ByteInv
<1> SUFFICES ASSUME Init PROVE ByteInv
  OBVIOUS
<1>1. locks = {} /\ \A p \in Pid : proc[p] = Idle
  BY DEF Init
<1>2. Idle.parent \notin Pid /\ InOrder(Idle)
  BY ConstantsOK DEF Idle, InOrder, SemCalls
<1>3. QED
  BY <1>1, <1>2 DEF ByteInv

\* Every step keeps ByteInv.
LEMMA NextBytes ==
  ASSUME Ranked, IndInv, IndInv', LineInv, ByteInv, [Next]_vars
  PROVE  ByteInv'
<1>1. ASSUME UNCHANGED <<proc, locks>>
      PROVE  ByteInv'
  BY <1>1 DEF ByteInv
<1>2. CASE UNCHANGED vars
  BY <1>1, <1>2 DEF vars
<1>3. CASE Edit
  BY <1>1, <1>3 DEF Edit
<1>4. ASSUME NEW p \in Pid,
             \/ Step(p) \/ ProgramCalls(p) \/ ProgramProgress(p)
             \/ Start(p) \/ Kill(p)
      PROVE  ByteInv'
  <2>1. /\ ~Preprocess(p) /\ ~TellOwner(p) /\ ~TellNobody(p)
        /\ ~RunCcache(p) /\ ~ReadPipe(p) /\ ~Collect(p) /\ ~Kill(p)
    BY NeverTaken DEF Ranked
  <2>2. CASE CreateSem(p) \/ SetPerm(p) \/ SetVal(p)
    BY <2>2, SemCallsBytes
  <2>3. CASE \/ Main(p) \/ ReadConfig(p) \/ NoName(p) \/ Fstat(p)
             \/ PickMakeByte(p) \/ NeedSlow(p) \/ PickFastByte(p)
             \/ AlreadyGotIt(p) \/ GrabTopMake(p)
    BY <2>3, BeforeLockBytes
  <2>4. CASE LockByte(p) \/ GrabSem(p)
    BY <2>4, LocksBytes
  <2>5. CASE Unaltered(p) \/ RunExec(p) \/ Altered(p) \/ RunDistcc(p)
    BY <2>5, AfterLockBytes
  <2>6. CASE DistccFailed(p)
    BY <2>6, DistccFailedBytes
  <2>7. CASE \/ ProgramCalls(p) \/ CcacheStarts(p) \/ CcacheMiss(p)
             \/ DistccHasNoHost(p)
    BY <2>7, ProgramBytes
  <2>8. CASE \/ CalledMyself(p) \/ SemDenied(p) \/ DistccReturned(p) \/ ProgramEnds(p)
             \/ CcacheHit(p) \/ DistccWorks(p) \/ Crash(p)
    BY <2>8, ExitsBytes
  <2>9. CASE Start(p)
    BY <2>9, StartBytes
  <2>10. QED
    BY <1>4, <2>1, <2>2, <2>3, <2>4, <2>5, <2>6, <2>7, <2>8, <2>9
    DEF Step, ProgramProgress
<1>5. QED
  BY <1>2, <1>3, <1>4 DEF Next

(***************************************************************************)
(* The order of the bytes: each make above a process holds a byte of a     *)
(* lower range than the process waits for, for any number of processes and *)
(* edits.                                                                  *)
(***************************************************************************)
THEOREM ByteInvariance ==
  ASSUME Ranked
  PROVE  Spec => [](IndInv /\ LineInv /\ ByteInv)
<1>1. Init => IndInv /\ LineInv /\ ByteInv
  BY InitInv, InitLine, InitBytes
<1>2. IndInv /\ LineInv /\ ByteInv /\ [Next]_vars
        => (IndInv /\ LineInv /\ ByteInv)'
  BY NextKeeps, NextLine, NextBytes DEF Ranked
<1>3. QED
  BY <1>1, <1>2, PTL DEF Spec

-----------------------------------------------------------------------------
(* What follows.                                                           *)

\* A set of processes that has the parent of p, and with each process its
\* parent, has all of p's ancestors.
LEMMA AncestorsWithin ==
  ASSUME NEW p \in Pid, NEW S \in SUBSET Pid,
         proc[p].parent \in Pid => proc[p].parent \in S,
         \A q \in S : proc[q].parent \in Pid => proc[q].parent \in S
  PROVE  Ancestors(p) \subseteq S
BY DEF Ancestors

(***************************************************************************)
(* Nobody waits in fcntl for a byte that an ancestor of it holds, whose    *)
(* end waits for the descendant's: what the separate ranges of             *)
(* grab_fast_lock and of each depth of make are for                        *)
(* (ccontrol-lock.c:134 and 184).                                          *)
(***************************************************************************)
THEOREM NoCircleOfWaits ==
  ASSUME Ranked
  PROVE  Spec => []NoWaitOnAncestor
<1>1. IndInv /\ LineInv /\ ByteInv => NoWaitOnAncestor
  <2> SUFFICES ASSUME IndInv, LineInv, ByteInv,
                      NEW p \in Pid, At(p, "fcntl"),
                      NEW l \in locks, l[2] = proc[p].want
               PROVE  l[3] \notin Ancestors(p)
    BY DEF NoWaitOnAncestor
  <2> DEFINE Makes == {a \in Pid : proc[a].pc = "make"}
  <2>1. \A a \in Pid : proc[a].env.lock \in Int
    BY LockType DEF IndInv
  <2>2. /\ proc[p].pc = "fcntl" /\ proc[p].env.lock # Slow
        /\ InRange(proc[p], proc[p].want, Depth(proc[p].env.lock))
    BY DEF At, ByteInv, InOrder
  <2>3. \A q \in Pid : proc[q].parent \in Pid =>
          Follows(proc[q], proc[proc[q].parent])
    BY DEF ByteInv
  <2>4. \A a \in Makes : /\ proc[a].cmd = "make"
                         /\ proc[a].env.lock >= Level(0)
    BY DEF LineInv, Proper, ByteInv, InOrder
  <2>5. proc[p].parent \in Pid => proc[p].parent \in Makes
    BY <2>2, <2>3 DEF Follows
  <2>6. ASSUME l[3] \in Makes
        PROVE  l[2] \in MakeBytes(AnySection, Depth(proc[l[3]].env.lock) - 1)
    BY <2>4, <2>6 DEF ByteInv, InRange
  <2>7. ASSUME NEW a \in Makes
        PROVE  Depth(proc[a].env.lock) - 1 \in Int /\ Depth(proc[a].env.lock) - 1 >= 0
    BY <2>1, <2>4 DEF Depth, Level
  <2>8. CASE proc[p].cmd = "make"
    <3> DEFINE S == {a \in Makes : proc[a].env.lock <= proc[p].env.lock}
    <3>1. proc[p].parent \in Pid => proc[p].parent \in S
      BY <2>1, <2>3, <2>5, <2>8 DEF Follows
    <3>2. ASSUME NEW q \in S, proc[q].parent \in Pid
          PROVE  proc[q].parent \in S
      <4>1. /\ proc[proc[q].parent].pc = "make"
            /\ proc[q].env.lock >= proc[proc[q].parent].env.lock
        BY <2>3, <2>4, <3>2 DEF Follows
      <4>2. QED
        BY <2>1, <3>2, <4>1
    <3>3. S \in SUBSET Pid
      OBVIOUS
    <3>4. Ancestors(p) \subseteq S
      BY <3>1, <3>2, <3>3, AncestorsWithin
    <3>5. ASSUME l[3] \in S PROVE FALSE
      <4> DEFINE i == Depth(proc[l[3]].env.lock) - 1
                 j == Depth(proc[p].env.lock)
      <4>1. i \in Int /\ j \in Int /\ 0 <= i /\ i < j
        BY <2>1, <2>7, <3>5 DEF Depth
      <4>2. l[2] \in MakeBytes(AnySection, i)
        BY <2>6, <3>5
      <4>3. l[2] \in MakeBytes(AnySection, j)
        BY <2>2, <2>8 DEF InRange
      <4> HIDE DEF i, j
      <4>4. QED
        BY <4>1, <4>2, <4>3, RangesApart
    <3>6. QED
      BY <3>4, <3>5
  <2>9. CASE proc[p].cmd # "make"
    <3>1. ASSUME NEW q \in Makes, proc[q].parent \in Pid
          PROVE  proc[q].parent \in Makes
      BY <2>3, <2>4, <3>1 DEF Follows
    <3>2. Makes \in SUBSET Pid
      OBVIOUS
    <3>3. Ancestors(p) \subseteq Makes
      BY <2>5, <3>1, <3>2, AncestorsWithin
    <3>4. ASSUME l[3] \in Makes PROVE FALSE
      <4> DEFINE i == Depth(proc[l[3]].env.lock) - 1
      <4>1. i \in Int /\ i + 1 \in Int /\ 0 <= i /\ i < i + 1
        BY <2>7, <3>4
      <4>2. l[2] \in MakeBytes(AnySection, i)
        BY <2>6, <3>4
      <4>3. l[2] \in FastBytes(AnySection)
        BY <2>2, <2>9 DEF InRange
      <4> HIDE DEF i
      <4>4. QED
        BY <4>1, <4>2, <4>3, RangesApart
    <3>5. QED
      BY <3>3, <3>4
  <2>10. QED
    BY <2>8, <2>9
<1>2. QED
  BY <1>1, ByteInvariance, PTL

-----------------------------------------------------------------------------
(***************************************************************************)
(* Who owns the bytes (HeldInv), and what they count.                      *)
(***************************************************************************)

\* A step of a process that has no children, and keeps what others own.
LEMMA AloneHeld ==
  ASSUME TypeOK, HeldInv, NEW p \in Pid, NoChild(p), NEW r,
         proc' = [proc EXCEPT ![p] = r],
         Counts(r), r.pc # "distcc",
         \A l \in locks : l[3] # p => l \in locks',
         \A l, m \in locks' : l[1] = m[1] /\ l[2] = m[2] => l[3] = m[3],
         \A l \in locks' : l[1] = AnySection.lock_file,
         UnderByte(r) => \E l \in locks' : l[3] = p
  PROVE  HeldInv'
<1>1. /\ proc'[p] = r /\ \A q \in Pid \ {p} : proc'[q] = proc[q]
  BY DEF TypeOK
<1>2. ASSUME NEW q \in Pid
      PROVE  /\ Counts(proc'[q])
             /\ UnderByte(proc'[q]) => \E l \in locks' : l[3] = q
             /\ proc'[q].pc = "distcc" =>
                  /\ proc'[q].parent \in Pid
                  /\ proc'[proc'[q].parent].pc = "wait"
  <2>1. CASE q = p
    BY <2>1, <1>1
  <2>2. CASE q # p
    <3>1. proc'[q] = proc[q] /\ proc[q].parent # p
      BY <2>2, <1>1 DEF NoChild, Children
    <3>2. QED
      BY <2>2, <3>1, <1>1 DEF HeldInv, At
  <2>3. QED
    BY <2>1, <2>2
<1>3. QED
  BY <1>2 DEF HeldInv, At

\* The same, where nothing else changes.
LEMMA LocalHeld ==
  ASSUME TypeOK, HeldInv, NEW p \in Pid, NoChild(p), NEW r, Local(p, r),
         Counts(r), r.pc # "distcc", UnderByte(r) => UnderByte(proc[p])
  PROVE  HeldInv'
<1>1. proc' = [proc EXCEPT ![p] = r] /\ locks' = locks
  BY DEF Local
<1>2. UnderByte(r) => \E l \in locks' : l[3] = p
  BY <1>1 DEF HeldInv
<1>3. \A l, m \in locks' : l[1] = m[1] /\ l[2] = m[2] => l[3] = m[3]
  BY <1>1 DEF HeldInv
<1>4. \A l \in locks' : l[1] = AnySection.lock_file
  BY <1>1 DEF HeldInv
<1>5. QED
  BY <1>1, <1>2, <1>3, <1>4, AloneHeld

\* Nobody without a lock runs under a byte.
LEMMA NotUnder ==
  ASSUME IndInv, HeldInv, NEW p \in Pid, proc[p].pc \in Unlocked
  PROVE  ~UnderByte(proc[p])
BY DEF IndInv, NothingHeld, HeldInv

\* The exit of a process whose children have all ended.
LEMMA ExitHeld ==
  ASSUME IndInv, LineInv, HeldInv, NEW p \in Pid,
         NEW status \in {"none", "done", "nodist", "killed"},
         Exit(p, status), \A q \in Children(p) : At(q, "zombie")
  PROVE  HeldInv'
<1>1. proc' = Ended(p, status) /\ locks' = {l \in locks : l[3] # p}
  BY DEF Exit
<1> DEFINE z == [Idle EXCEPT !.pc = "zombie", !.parent = proc[p].parent,
                             !.status = status]
<1>2. /\ Counts(Idle) /\ ~UnderByte(Idle) /\ Idle.pc = "free"
      /\ Counts(z) /\ ~UnderByte(z) /\ z.pc = "zombie"
  BY DEF Counts, UnderByte, Idle, SemCalls
<1> HIDE DEF z
<1>3. proc'[p] = z \/ proc'[p] = Idle
  BY <1>1 DEF Ended, z
<1>4. ASSUME NEW q \in Pid \ {p}
      PROVE  \/ proc'[q] = Idle /\ At(q, "zombie")
             \/ proc'[q] = proc[q] /\ proc[q].parent # p
  BY <1>1 DEF Ended, Children
<1>5. ASSUME NEW q \in Pid
      PROVE  /\ Counts(proc'[q])
             /\ UnderByte(proc'[q]) => \E l \in locks' : l[3] = q
             /\ proc'[q].pc = "distcc" =>
                  /\ proc'[q].parent \in Pid
                  /\ proc'[proc'[q].parent].pc = "wait"
  <2>1. CASE proc'[q] = Idle \/ proc'[q] = z
    BY <2>1, <1>2
  <2>2. CASE q # p /\ proc'[q] = proc[q] /\ proc[q].parent # p
    <3>1. Counts(proc'[q])
      BY <2>2 DEF HeldInv
    <3>2. UnderByte(proc'[q]) => \E l \in locks' : l[3] = q
      BY <2>2, <1>1 DEF HeldInv
    <3>3. ASSUME proc'[q].pc = "distcc"
          PROVE  /\ proc'[q].parent \in Pid
                 /\ proc'[proc'[q].parent].pc = "wait"
      <4>1. proc[q].parent \in Pid /\ proc[proc[q].parent].pc = "wait"
        BY <2>2, <3>3 DEF HeldInv, At
      <4>2. proc'[proc[q].parent] = proc[proc[q].parent]
        BY <2>2, <4>1, <1>4 DEF At
      <4>3. QED
        BY <2>2, <4>1, <4>2
    <3>4. QED
      BY <3>1, <3>2, <3>3
  <2>3. QED
    BY <2>1, <2>2, <1>3, <1>4
<1>6. /\ \A l, m \in locks' : l[1] = m[1] /\ l[2] = m[2] => l[3] = m[3]
      /\ \A l \in locks' : l[1] = AnySection.lock_file
  BY <1>1 DEF HeldInv
<1>7. QED
  BY <1>5, <1>6 DEF HeldInv, At

\* A program, or main, starts a child.
LEMMA SpawnHeld ==
  ASSUME IndInv, LineInv, HeldInv, NEW p \in Pid, NEW r, NEW image \in Process,
         Spawn(p, r, image), proc[p].pc # "free",
         NoChild(p) \/ r.pc = proc[p].pc,
         Counts(r), r.pc # "distcc", UnderByte(r) => UnderByte(proc[p]),
         Counts([image EXCEPT !.parent = p]),
         ~UnderByte([image EXCEPT !.parent = p]),
         image.pc = "distcc" => r.pc = "wait"
  PROVE  HeldInv'
<1>a. TypeOK
  BY DEF IndInv
<1> DEFINE c == [image EXCEPT !.parent = p]
<1>1. PICK q \in Pid : Usable(q) /\ proc' = [proc EXCEPT ![p] = r, ![q] = c]
  BY DEF Spawn
<1>2. q # p /\ proc[q].pc = "free" /\ NoChild(q)
  BY <1>1, Childless DEF Usable, At, Callers
<1>3. /\ c.parent = p /\ c.pc = image.pc
      /\ locks' = locks /\ Counts(c) /\ ~UnderByte(c)
  BY DEF Process, Spawn
<1> HIDE DEF c
<1>4. /\ proc'[p] = r /\ proc'[q] = c
      /\ \A x \in Pid \ {p, q} : proc'[x] = proc[x]
  BY <1>a, <1>1, <1>2 DEF TypeOK
<1>5. ASSUME NEW x \in Pid
      PROVE  /\ Counts(proc'[x])
             /\ UnderByte(proc'[x]) => \E l \in locks' : l[3] = x
             /\ proc'[x].pc = "distcc" =>
                  /\ proc'[x].parent \in Pid
                  /\ proc'[proc'[x].parent].pc = "wait"
  <2>1. CASE x = q
    BY <2>1, <1>3, <1>4
  <2>2. CASE x = p
    BY <2>2, <1>3, <1>4 DEF HeldInv
  <2>3. CASE x \notin {p, q}
    <3>1. proc'[x] = proc[x] /\ proc[x].parent # q
      BY <2>3, <1>2, <1>4 DEF NoChild, Children
    <3>2. proc[x].parent = p => r.pc = proc[p].pc
      BY DEF NoChild, Children
    <3>3. QED
      BY <3>1, <3>2, <1>3, <1>4 DEF HeldInv, At
  <2>4. QED
    BY <2>1, <2>2, <2>3
<1>6. QED
  BY <1>3, <1>5 DEF HeldInv, At

\* main, up to the lock.
LEMMA BeforeLockHeld ==
  ASSUME IndInv, LineInv, ByteInv, HeldInv, Counted, NEW p \in Pid,
         \/ Main(p) \/ ReadConfig(p) \/ NoName(p) \/ Fstat(p)
         \/ PickMakeByte(p) \/ NeedSlow(p) \/ PickFastByte(p)
         \/ AlreadyGotIt(p) \/ GrabTopMake(p)
  PROVE  HeldInv'
<1>a. /\ TypeOK /\ proc[p] \in Process /\ Proper(proc[p]) /\ Counts(proc[p])
      /\ proc[p].pc \in {"main", "again", "fstat", "grab"}
  BY OwnType DEF IndInv, LineInv, HeldInv, Main, ReadConfig, NoName, Fstat,
     PickMakeByte, NeedSlow, PickFastByte, AlreadyGotIt, GrabTopMake, Grabbing,
     At
<1>b. NoChild(p)
  BY <1>a, Childless DEF Callers
<1>c. ~UnderByte(proc[p])
  BY <1>a, NotUnder DEF Unlocked, SemCalls
<1>d. proc[p].undo # "unset"
  BY <1>c DEF UnderByte
<1> USE DEF At, Grabbing
<1>1. CASE \/ Main(p) \/ NoName(p) \/ Fstat(p) \/ PickMakeByte(p)
           \/ NeedSlow(p) \/ PickFastByte(p)
  <2>1. PICK label, r :
          /\ label \in {"again", "crash", "grab", "fcntl", "sem"} /\ Local(p, r)
          /\ r.pc = label /\ r.cmd = proc[p].cmd /\ r.env = proc[p].env
          /\ r.undo = proc[p].undo /\ r.sec = proc[p].sec
          /\ \/ label \in {"again", "crash"}
             \/ label = "grab" /\ proc[p].pc = "fstat"
             \/ label = "fcntl" /\ proc[p].pc = "grab"
             \/ label = "sem" /\ ~proc[p].sec.distcc
          /\ label \in {"again", "grab"} => proc[p].pc \in {"main", "fstat"}
    <3>1. CASE Main(p) \/ NoName(p)
      <4>1. PICK label \in {"again", "crash"} :
              /\ Local(p, [proc[p] EXCEPT !.pc = label])
              /\ label = "again" => proc[p].pc = "main"
        BY <3>1 DEF Main, NoName
      <4> DEFINE r == [proc[p] EXCEPT !.pc = label]
      <4>2. /\ r.pc = label /\ r.cmd = proc[p].cmd /\ r.env = proc[p].env
            /\ r.undo = proc[p].undo /\ r.sec = proc[p].sec
        BY <1>a DEF Process
      <4>3. Local(p, r)
        BY <4>1
      <4> HIDE DEF r
      <4>4. QED
        BY <4>1, <4>2, <4>3
    <3>2. CASE Fstat(p)
      <4> DEFINE r == [proc[p] EXCEPT !.pc = "grab", !.st = stamp]
      <4>1. /\ r.pc = "grab" /\ r.cmd = proc[p].cmd /\ r.env = proc[p].env
            /\ r.undo = proc[p].undo /\ r.sec = proc[p].sec
        BY <1>a DEF Process
      <4>2. Local(p, r) /\ proc[p].pc = "fstat"
        BY <3>2 DEF Fstat
      <4> HIDE DEF r
      <4>3. QED
        BY <4>1, <4>2
    <3>3. CASE PickMakeByte(p) \/ PickFastByte(p)
      <4>1. PICK b : /\ Local(p, [proc[p] EXCEPT !.pc = "fcntl", !.want = b])
                     /\ proc[p].pc = "grab"
        BY <3>3 DEF PickMakeByte, PickFastByte
      <4> DEFINE r == [proc[p] EXCEPT !.pc = "fcntl", !.want = b]
      <4>2. /\ r.pc = "fcntl" /\ r.cmd = proc[p].cmd /\ r.env = proc[p].env
            /\ r.undo = proc[p].undo /\ r.sec = proc[p].sec
        BY <1>a DEF Process
      <4>3. Local(p, r)
        BY <4>1
      <4> HIDE DEF r
      <4>4. QED
        BY <4>1, <4>2, <4>3
    <3>4. CASE NeedSlow(p)
      <4> DEFINE r == [proc[p] EXCEPT !.pc = "sem"]
      <4>1. /\ r.pc = "sem" /\ r.cmd = proc[p].cmd /\ r.env = proc[p].env
            /\ r.undo = proc[p].undo /\ r.sec = proc[p].sec
        BY <1>a DEF Process
      <4>2. Local(p, r) /\ ~proc[p].sec.distcc
        BY <3>4 DEF NeedSlow
      <4> HIDE DEF r
      <4>3. QED
        BY <4>1, <4>2
    <3>5. QED
      BY <1>1, <3>1, <3>2, <3>3, <3>4
  <2>2. Counts(r)
    BY <1>a, <2>1 DEF Counts, SemCalls
  <2>3. ~UnderByte(r)
    BY <1>d, <2>1 DEF UnderByte
  <2>4. QED
    BY <1>a, <1>b, <2>1, <2>2, <2>3, LocalHeld
<1>2. CASE ReadConfig(p)
  <2> DEFINE s == config[proc[p].dir]
             t == [s EXCEPT !.ccache = s.ccache /\ ~proc[p].noccache,
                            !.distcc = DistccDirectly(proc[p], s)]
             r == [proc[p] EXCEPT !.pc = "fstat", !.sec = t,
                     !.ccache_then_distcc = @ \/ DistccByCcache(proc[p], s)]
  <2>1. s \in Section /\ s.lock_file = AnySection.lock_file
    BY <1>a, ConstantsOK DEF IndInv, TypeOK, Process, Counted
  <2>2. t.lock_file = AnySection.lock_file
    BY <2>1 DEF Section
  <2>3. Local(p, r) /\ proc[p].pc = "again"
    BY <1>2 DEF ReadConfig
  <2> HIDE DEF t, s
  <2>4. /\ r.env = proc[p].env /\ r.sec = t /\ r.pc = "fstat"
        /\ r.cmd = proc[p].cmd /\ r.undo = proc[p].undo
    BY <1>a DEF Process
  <2> HIDE DEF r
  <2>5. Counts(r) /\ ~UnderByte(r)
    BY <1>a, <1>d, <2>2, <2>3, <2>4 DEF Counts, UnderByte, SemCalls
  <2>6. QED
    BY <1>a, <1>b, <2>3, <2>4, <2>5, LocalHeld
<1>3. CASE AlreadyGotIt(p)
  <2> DEFINE r == [proc[p] EXCEPT !.pc = "restat", !.undo = "nothing"]
  <2>1. proc[p].cmd # "make" /\ ~can_distcc(proc[p].cmd)
    BY <1>a, <1>3 DEF AlreadyGotIt, Proper, Counts, Unset, Slow, Level
  <2>2. /\ r.env = proc[p].env /\ r.cmd = proc[p].cmd /\ r.sec = proc[p].sec
        /\ r.undo = "nothing" /\ r.pc = "restat"
    BY <1>a DEF Process
  <2>3. Local(p, r)
    BY <1>3 DEF AlreadyGotIt
  <2> HIDE DEF r
  <2>4. Counts(r) /\ ~UnderByte(r)
    BY <2>1, <2>2 DEF Counts, UnderByte, SemCalls
  <2>5. QED
    BY <1>a, <1>b, <2>2, <2>3, <2>4, LocalHeld
<1>4. CASE GrabTopMake(p)
  <2> DEFINE r == [proc[p] EXCEPT !.pc = "restat", !.undo = "decrement",
                                  !.env.lock = Level(0)]
  <2>1. proc[p].cmd = "make"
    BY <1>a, <1>4 DEF GrabTopMake, IsMake, TypeOf, Process
  <2>2. /\ r.cmd = "make" /\ r.sec = proc[p].sec
        /\ r.env.lock = Level(0) /\ r.pc = "restat" /\ r.undo = "decrement"
    BY <1>a, <2>1 DEF Process, Env
  <2>3. Local(p, r)
    BY <1>4 DEF GrabTopMake
  <2> HIDE DEF r
  <2>4. Counts(r) /\ ~UnderByte(r)
    BY <2>2 DEF Counts, UnderByte, can_distcc, Level, SemCalls
  <2>5. QED
    BY <1>a, <1>b, <2>2, <2>3, <2>4, LocalHeld
<1>5. QED
  BY <1>1, <1>2, <1>3, <1>4

\* make_semaphore.
LEMMA SemCallsHeld ==
  ASSUME IndInv, LineInv, HeldInv, NEW p \in Pid,
         CreateSem(p) \/ SetPerm(p) \/ SetVal(p)
  PROVE  HeldInv'
<1>a. TypeOK /\ proc[p] \in Process /\ Counts(proc[p])
  BY OwnType DEF IndInv, HeldInv
<1>1. PICK label \in SemCalls :
        proc' = [proc EXCEPT ![p] = [proc[p] EXCEPT !.pc = label]]
  BY SemCallsStep
<1>2. proc[p].pc \in SemCalls /\ locks' = locks
  BY SemCallsStep
<1>3. NoChild(p)
  BY <1>2, Childless DEF SemCalls, Callers
<1> DEFINE r == [proc[p] EXCEPT !.pc = label]
<1>4. Counts(r) /\ r.pc # "distcc"
  BY <1>a, <1>2 DEF Process, SemCalls, Counts
<1>5. UnderByte(r) => \E l \in locks' : l[3] = p
  BY <1>a, <1>2 DEF Process, SemCalls, UnderByte, HeldInv
<1>6. proc' = [proc EXCEPT ![p] = r]
  BY <1>1
<1> HIDE DEF r
<1>7. /\ \A l, m \in locks' : l[1] = m[1] /\ l[2] = m[2] => l[3] = m[3]
      /\ \A l \in locks' : l[1] = AnySection.lock_file
  BY <1>2 DEF HeldInv
<1>8. QED
  BY <1>a, <1>2, <1>3, <1>4, <1>5, <1>6, <1>7, AloneHeld

\* The lock itself: fcntl gives a byte to one.
LEMMA LocksHeld ==
  ASSUME IndInv, LineInv, HeldInv, NEW p \in Pid, LockByte(p) \/ GrabSem(p)
  PROVE  HeldInv'
<1>a. /\ TypeOK /\ proc[p] \in Process /\ proc[p].env \in Env
      /\ Proper(proc[p]) /\ Counts(proc[p])
  BY OwnType DEF IndInv, LineInv, HeldInv
<1>b. NoChild(p)
  BY Childless DEF LockByte, GrabSem, At, Callers
<1>c. ~UnderByte(proc[p])
  BY NotUnder DEF LockByte, GrabSem, At, Unlocked, SemCalls
<1>1. CASE LockByte(p)
  <2> DEFINE env == [proc[p].env EXCEPT !.lock =
                IF IsMake(proc[p]) THEN Level(Depth(proc[p].env.lock)) ELSE Fast]
             r == [proc[p] EXCEPT !.pc = "restat", !.want = 0,
                     !.undo = IF IsMake(proc[p]) THEN "decrement" ELSE "unset",
                     !.env = env]
             k == <<proc[p].sec.lock_file, proc[p].want, p>>
  <2>1. /\ proc' = [proc EXCEPT ![p] = r]
        /\ locks' = locks \cup {k}
        /\ proc[p].pc = "fcntl" /\ ByteFree(p)
    BY <1>1 DEF LockByte, At
  <2>2. IsMake(proc[p]) <=> proc[p].cmd = "make"
    BY <1>a DEF IsMake, TypeOf, Process
  <2>3. /\ r.cmd = proc[p].cmd /\ r.sec = proc[p].sec /\ r.pc = "restat"
        /\ r.undo = IF proc[p].cmd = "make" THEN "decrement" ELSE "unset"
    BY <1>a, <2>2 DEF Process
  <2>4. /\ k[1] = AnySection.lock_file /\ k[3] = p
        /\ \A l \in locks : l[1] = k[1] /\ l[2] = k[2] => l[3] = p
    BY <1>a, <2>1 DEF Counts, ByteFree
  <2> HIDE DEF r, k
  <2>5. Counts(r)
    BY <2>3 DEF Counts, can_distcc, SemCalls
  <2>6. \E l \in locks' : l[3] = p
    BY <2>1, <2>4
  <2>7. \A l, m \in locks' : l[1] = m[1] /\ l[2] = m[2] => l[3] = m[3]
    BY <2>1, <2>4 DEF HeldInv
  <2>8. \A l \in locks' : l[1] = AnySection.lock_file
    BY <2>1, <2>4 DEF HeldInv
  <2>9. \A l \in locks : l[3] # p => l \in locks'
    BY <2>1
  <2>10. QED
    BY <1>a, <1>b, <2>1, <2>3, <2>5, <2>6, <2>7, <2>8, <2>9, AloneHeld
<1>2. CASE GrabSem(p)
  <2> DEFINE env == [proc[p].env EXCEPT !.lock = Slow, !.by = p]
             r == [proc[p] EXCEPT !.pc = "restat", !.undo = "drop", !.env = env]
  <2>1. /\ proc' = [proc EXCEPT ![p] = r] /\ locks' = locks
        /\ proc[p].cmd # "make" /\ ~proc[p].sec.distcc
    BY <1>a, <1>2 DEF GrabSem, At, Proper, Counts, SemCalls
  <2>2. /\ r.cmd = proc[p].cmd /\ r.sec = proc[p].sec
        /\ r.pc = "restat" /\ r.undo = "drop"
    BY <1>a DEF Process
  <2> HIDE DEF r
  <2>3. Counts(r) /\ ~UnderByte(r)
    BY <2>1, <2>2 DEF Counts, UnderByte
  <2>4. /\ \A l, m \in locks' : l[1] = m[1] /\ l[2] = m[2] => l[3] = m[3]
        /\ \A l \in locks' : l[1] = AnySection.lock_file
    BY <2>1 DEF HeldInv
  <2>5. QED
    BY <1>a, <1>b, <2>1, <2>2, <2>3, <2>4, AloneHeld
<1>3. QED
  BY <1>1, <1>2

\* Whoever begins again has nothing, and a compile knows it.
LEMMA RestartHeld ==
  ASSUME IndInv, HeldInv, NEW p \in Pid, NEW r,
         proc[p].pc \in {"restat", "wait"}, r.pc = "again",
         r.cmd = proc[p].cmd, r.env.lock = UndoEnv(proc[p]).lock, r.undo = "none"
  PROVE  Counts(r) /\ ~UnderByte(r)
<1>1. Counts(proc[p]) /\ proc[p].env \in Env
  BY OwnType DEF IndInv, HeldInv
<1>2. can_distcc(proc[p].cmd) => UndoEnv(proc[p]).lock = Unset
  <2>1. can_distcc(proc[p].cmd) => proc[p].undo \in {"unset", "drop"}
    BY <1>1 DEF Counts
  <2>2. proc[p].undo \in {"unset", "drop"} =>
          UndoEnv(proc[p]) = [proc[p].env EXCEPT !.lock = Unset, !.by = NoPid]
    BY DEF UndoEnv
  <2>3. QED
    BY <1>1, <2>1, <2>2 DEF Env
<1>3. QED
  BY <1>2 DEF Counts, UnderByte, Unset, Slow, SemCalls

\* main after the lock.
LEMMA AfterLockHeld ==
  ASSUME IndInv, IndInv', LineInv, ByteInv, HeldInv, NEW p \in Pid,
         Unaltered(p) \/ RunExec(p) \/ Altered(p) \/ RunDistcc(p)
  PROVE  HeldInv'
<1>a. /\ TypeOK /\ proc[p] \in Process /\ Proper(proc[p]) /\ Counts(proc[p])
      /\ proc[p].pc \in {"restat", "run"} /\ proc' \in [Pid -> Process]
  BY OwnType DEF IndInv, TypeOK, LineInv, HeldInv, Unaltered, RunExec, Altered,
     RunDistcc, At
<1>b. NoChild(p)
  BY <1>a, Childless DEF Callers
<1>1. CASE Unaltered(p)
  <2> DEFINE r == [proc[p] EXCEPT !.pc = "run"]
  <2>1. /\ r.env = proc[p].env /\ r.cmd = proc[p].cmd /\ r.pc = "run"
        /\ r.undo = proc[p].undo /\ r.sec = proc[p].sec
    BY <1>a DEF Process
  <2>2. Local(p, r)
    BY <1>1 DEF Unaltered
  <2> HIDE DEF r
  <2>3. Counts(r) /\ (UnderByte(r) => UnderByte(proc[p]))
    BY <1>a, <2>1 DEF Counts, UnderByte, SemCalls
  <2>4. QED
    BY <1>a, <1>b, <2>1, <2>2, <2>3, LocalHeld
<1>2. CASE RunExec(p)
  <2> DEFINE label == Target(proc[p])
             r == Exec(proc[p], label)
  <2>1. Local(p, r) /\ proc[p].pc = "run" /\ ~proc[p].sec.distcc
    BY <1>2 DEF RunExec, At
  <2>2. label \in Program /\ label \in Label /\ label # "distcc"
    BY <2>1 DEF Target, Program, Label
  <2> HIDE DEF label
  <2>3. /\ r.env = proc[p].env /\ r.cmd = proc[p].cmd
        /\ r.undo = "none" /\ r.pc = label
    BY <1>a, <2>2, ExecFields
  <2> HIDE DEF r
  <2>4. Counts(r) /\ (UnderByte(r) => UnderByte(proc[p]))
    BY <1>a, <2>1, <2>2, <2>3 DEF Counts, UnderByte, Program, SemCalls
  <2>5. QED
    BY <1>a, <1>b, <2>1, <2>2, <2>3, <2>4, LocalHeld
<1>3. CASE Altered(p)
  <2> DEFINE r == Restart(proc[p], FALSE)
  <2>1. proc' = [proc EXCEPT ![p] = r] /\ CloseLockFile(p) /\ proc[p].pc = "restat"
    BY <1>3 DEF Altered, At
  <2>2. /\ r.pc = "again" /\ r.cmd = proc[p].cmd
        /\ r.env = UndoEnv(proc[p]) /\ r.undo = "none"
    BY <1>a, RestartType, RestartFields
  <2> HIDE DEF r
  <2>3. Counts(r) /\ ~UnderByte(r)
    BY <1>a, <2>1, <2>2, RestartHeld
  <2>4. /\ \A l \in locks : l[3] # p => l \in locks'
        /\ \A l, m \in locks' : l[1] = m[1] /\ l[2] = m[2] => l[3] = m[3]
        /\ \A l \in locks' : l[1] = AnySection.lock_file
    BY <2>1 DEF CloseLockFile, HeldInv
  <2>5. QED
    BY <1>a, <1>b, <2>1, <2>2, <2>3, <2>4, AloneHeld
<1>4. CASE RunDistcc(p)
  <2> DEFINE env == NoFallback(proc[p].env)
             r == [proc[p] EXCEPT !.env = env]
             s == [r EXCEPT !.pc = "wait"]
             image == Exec(r, Target(r))
             c == [image EXCEPT !.parent = p]
  <2>1. Fork(p, s, image) /\ proc[p].pc = "run" /\ proc[p].sec.distcc
    BY <1>a, <1>4 DEF RunDistcc, At, Process
  <2>2. env \in Env
    BY <1>a DEF NoFallback, Env, Process
  <2> HIDE DEF env
  <2>3. /\ r \in Process /\ r.sec = proc[p].sec /\ r.cmd = proc[p].cmd
        /\ r.undo = proc[p].undo
    BY <1>a, <2>2 DEF Process
  <2> HIDE DEF r
  <2>4. /\ s.sec = proc[p].sec /\ s.cmd = proc[p].cmd /\ s.undo = proc[p].undo
        /\ s.pc = "wait"
    BY <2>3 DEF Process
  <2> HIDE DEF s
  <2>5. Counts(s) /\ (UnderByte(s) => UnderByte(proc[p]))
    BY <1>a, <2>1, <2>4 DEF Counts, UnderByte, SemCalls
  <2>6. Target(r) = "distcc" /\ "distcc" \in Label
    BY <1>a, <2>1, <2>3 DEF Target, TypeOf, Proper, Label, Program
  <2>7. /\ image \in Process /\ image.pc = "distcc" /\ image.undo = "none"
    <3>1. image = Exec(r, "distcc")
      BY <2>6
    <3> HIDE DEF image
    <3>2. Exec(r, "distcc") \in Process
      BY <2>3, <2>6, ExecType
    <3>3. Exec(r, "distcc").pc = "distcc" /\ Exec(r, "distcc").undo = "none"
      BY <2>3, <2>6, ExecFields
    <3>4. QED
      BY <3>1, <3>2, <3>3
  <2>8. Spawn(p, s, image) \/ Exit(p, "done")
    BY <2>1 DEF Fork
  <2> HIDE DEF image
  <2>9. Counts(c) /\ ~UnderByte(c)
    <3>1. c.pc = "distcc" /\ c.undo = "none"
      BY <2>7 DEF Process
    <3>2. QED
      BY <3>1 DEF Counts, UnderByte, SemCalls
  <2>10. CASE Spawn(p, s, image)
    BY <1>a, <1>b, <2>1, <2>4, <2>5, <2>7, <2>9, <2>10, SpawnHeld
  <2>11. CASE Exit(p, "done")
    BY <1>b, <2>11, ExitHeld DEF NoChild
  <2>12. QED
    BY <2>8, <2>10, <2>11
<1>5. QED
  BY <1>1, <1>2, <1>3, <1>4

\* The zombie of distcc is gone, and main starts again without it.
LEMMA DistccFailedHeld ==
  ASSUME IndInv, LineInv, HeldInv, NEW p \in Pid, DistccFailed(p)
  PROVE  HeldInv'
<1>a. /\ TypeOK /\ proc[p] \in Process /\ proc[p].pc = "wait"
  BY OwnType DEF IndInv, DistccFailed, At
<1> DEFINE s == Restart(proc[p], TRUE)
           r == [s EXCEPT !.env.prefix = FALSE]
<1>1. PICK q \in Children(p) : /\ At(q, "zombie")
                               /\ proc' = [proc EXCEPT ![q] = Idle, ![p] = r]
  BY DEF DistccFailed
<1>2. q \in Pid /\ q # p /\ proc[q].pc = "zombie" /\ proc[q].parent = p
  BY <1>a, <1>1 DEF Children, At
<1>3. s.pc = "again" /\ s.cmd = proc[p].cmd /\ s.env = UndoEnv(proc[p])
      /\ s.undo = "none" /\ s \in Process
  <2>1. TRUE \in BOOLEAN
    OBVIOUS
  <2>2. QED
    BY <1>a, <2>1, RestartType, RestartFields
<1> HIDE DEF s
<1>4. /\ r.pc = "again" /\ r.cmd = proc[p].cmd
      /\ r.env.lock = UndoEnv(proc[p]).lock /\ r.undo = "none"
  BY <1>3 DEF Process, Env
<1> HIDE DEF r
<1>5. /\ proc'[p] = r /\ proc'[q] = Idle
      /\ \A x \in Pid \ {p, q} : proc'[x] = proc[x]
  BY <1>a, <1>1, <1>2 DEF TypeOK
<1>6. Counts(r) /\ ~UnderByte(r)
  BY <1>a, <1>4, RestartHeld
<1>7. Counts(Idle) /\ ~UnderByte(Idle) /\ Idle.pc = "free"
  BY DEF Counts, UnderByte, Idle, SemCalls
<1>8. CloseLockFile(p)
  BY DEF DistccFailed
<1>9. ASSUME NEW x \in Pid
      PROVE  /\ Counts(proc'[x])
             /\ UnderByte(proc'[x]) => \E l \in locks' : l[3] = x
             /\ proc'[x].pc = "distcc" =>
                  /\ proc'[x].parent \in Pid
                  /\ proc'[proc'[x].parent].pc = "wait"
  <2>1. CASE x = q
    BY <2>1, <1>5, <1>7
  <2>2. CASE x = p
    BY <2>2, <1>4, <1>5, <1>6
  <2>3. CASE x \notin {p, q}
    <3>1. proc'[x] = proc[x]
      BY <2>3, <1>5
    <3>2. proc[x].parent # p
      BY <1>a, <1>2, <2>3 DEF LineInv, FewChildren, At
    <3>3. proc[x].parent # q
      BY <1>2 DEF LineInv, FewChildren, Callers
    <3>4. UnderByte(proc'[x]) => \E l \in locks' : l[3] = x
      BY <2>3, <3>1, <1>8 DEF HeldInv, CloseLockFile
    <3>5. QED
      BY <3>1, <3>2, <3>3, <3>4, <1>5 DEF HeldInv, At
  <2>4. QED
    BY <2>1, <2>2, <2>3
<1>10. /\ \A l, m \in locks' : l[1] = m[1] /\ l[2] = m[2] => l[3] = m[3]
       /\ \A l \in locks' : l[1] = AnySection.lock_file
  BY <1>8 DEF HeldInv, CloseLockFile
<1>11. QED
  BY <1>9, <1>10 DEF HeldInv, At

\* The programs.
LEMMA ProgramHeld ==
  ASSUME IndInv, IndInv', LineInv, ByteInv, HeldInv, Counted, NEW p \in Pid,
         ProgramCalls(p) \/ CcacheStarts(p) \/ CcacheMiss(p) \/ DistccHasNoHost(p)
  PROVE  HeldInv'
<1>a. /\ TypeOK /\ proc[p] \in Process /\ Proper(proc[p]) /\ Counts(proc[p])
      /\ InOrder(proc[p])
  BY OwnType DEF IndInv, LineInv, ByteInv, HeldInv
<1>1. CASE ProgramCalls(p)
  <2> DEFINE r == [proc[p] EXCEPT !.calls = @ + 1]
  <2>1. PICK c \in Spawns[proc[p].pc], d \in Dir :
          Spawn(p, r, Exec([proc[p] EXCEPT !.cmd = c, !.dir = d], "main"))
    BY <1>1 DEF ProgramCalls
  <2>2. proc[p].pc \in {"make", "compile", "other"}
    BY <1>1, <2>1 DEF ProgramCalls, Callers, Counted, Ranked
  <2>3. c \in Cmd
    BY <2>2, ConstantsOK DEF Callers
  <2> DEFINE b == [proc[p] EXCEPT !.cmd = c, !.dir = d]
             image == Exec(b, "main")
             e == [image EXCEPT !.parent = p]
  <2>4. b \in Process /\ b.cmd = c /\ b.env = proc[p].env
    BY <1>a, <2>3 DEF Process
  <2>5. can_distcc(c) => proc[p].pc = "make"
    BY <2>2 DEF Counted, Callers, can_distcc
  <2>6. Spawn(p, r, image)
    BY <2>1
  <2> HIDE DEF b
  <2>7. "main" \in Label
    BY DEF Label, MainLabel, SemCalls
  <2>8. /\ image \in Process /\ image.pc = "main" /\ image.cmd = c
        /\ image.env = proc[p].env /\ image.undo = "none"
    BY <2>4, <2>7, ExecType, ExecFields
  <2> HIDE DEF image
  <2>9. /\ r.pc = proc[p].pc /\ r.env = proc[p].env /\ r.sec = proc[p].sec
        /\ r.cmd = proc[p].cmd /\ r.undo = proc[p].undo
    BY <1>a DEF Process
  <2>10. /\ e.pc = "main" /\ e.cmd = c /\ e.env = proc[p].env /\ e.undo = "none"
    BY <2>8 DEF Process
  <2> HIDE DEF r
  <2>11. Counts(r) /\ (UnderByte(r) => UnderByte(proc[p]))
    BY <1>a, <2>9 DEF Counts, UnderByte
  <2>12. Counts(e) /\ ~UnderByte(e)
    <3> HIDE DEF e
    <3>1. proc[p].pc = "make" => proc[p].env.lock # Slow
      <4>1. proc[p].pc = "make" =>
              proc[p].env.lock = Unset \/ proc[p].env.lock >= Level(-1)
        BY <1>a DEF Proper
      <4>2. QED
        BY <4>1 DEF Unset, Level, Slow
    <3>2. QED
      BY <2>5, <2>10, <3>1 DEF Counts, UnderByte, SemCalls
  <2>13. QED
    BY <2>2, <2>6, <2>8, <2>9, <2>11, <2>12, SpawnHeld
<1>2. CASE CcacheStarts(p) \/ CcacheMiss(p)
  <2>1. PICK label \in {"cached", "compile"} : Local(p, [proc[p] EXCEPT !.pc = label])
    BY <1>a, <1>2 DEF CcacheStarts, CcacheMiss, At, Process, Proper
  <2>2. proc[p].pc \in {"ccache", "cached"}
    BY <1>2 DEF CcacheStarts, CcacheMiss, At
  <2>3. NoChild(p)
    BY <2>2, Childless DEF Callers
  <2> DEFINE r == [proc[p] EXCEPT !.pc = label]
  <2>4. r.pc = label /\ r.undo = proc[p].undo
    BY <1>a DEF Process
  <2>5. Local(p, r)
    BY <2>1
  <2> HIDE DEF r
  <2>6. Counts(r) /\ (UnderByte(r) => UnderByte(proc[p]))
    BY <2>4 DEF Counts, UnderByte, SemCalls
  <2>7. QED
    BY <1>a, <2>3, <2>4, <2>5, <2>6, LocalHeld
<1>3. CASE DistccHasNoHost(p)
  <2>1. Exit(p, "nodist") /\ NoChild(p)
    BY <1>a, <1>3 DEF DistccHasNoHost, At, Proper, SemCalls
  <2>2. QED
    BY <2>1, ExitHeld DEF NoChild
<1>4. QED
  BY <1>1, <1>2, <1>3

\* The exits.
LEMMA ExitsHeld ==
  ASSUME IndInv, LineInv, HeldInv, NEW p \in Pid,
         \/ CalledMyself(p) \/ SemDenied(p) \/ DistccReturned(p)
         \/ ProgramEnds(p) \/ CcacheHit(p) \/ DistccWorks(p) \/ Crash(p)
  PROVE  HeldInv'
<1>1. PICK status \in {"none", "done", "nodist", "killed"} : Exit(p, status)
  BY ExitSteps DEF IndInv
<1>2. \A q \in Children(p) : At(q, "zombie")
  BY ExitsAlone
<1>3. QED
  BY <1>1, <1>2, ExitHeld

\* A command the user types.
LEMMA StartHeld ==
  ASSUME IndInv, LineInv, HeldInv, NEW p \in Pid, Start(p)
  PROVE  HeldInv'
<1>1. PICK c \in Cmd, d \in Dir :
        Local(p, [Idle EXCEPT !.pc = "main", !.cmd = c, !.dir = d])
  BY ConstantsOK DEF Start
<1> DEFINE r == [Idle EXCEPT !.pc = "main", !.cmd = c, !.dir = d]
<1>2. r.pc = "main" /\ Counts(r) /\ ~UnderByte(r)
  BY DEF Idle, CleanEnv, Counts, UnderByte, Unset, Slow, SemCalls
<1>3. TypeOK /\ NoChild(p)
  BY Childless DEF Start, Usable, At, Callers, IndInv
<1>4. Local(p, r)
  BY <1>1
<1> HIDE DEF r
<1>5. QED
  BY <1>2, <1>3, <1>4, LocalHeld

LEMMA InitHeld == Init => HeldInv
<1> SUFFICES ASSUME Init PROVE HeldInv
  OBVIOUS
<1>1. locks = {} /\ \A p \in Pid : proc[p] = Idle
  BY DEF Init
<1>2. Counts(Idle) /\ ~UnderByte(Idle) /\ Idle.pc = "free"
  BY DEF Counts, UnderByte, Idle, CleanEnv, Unset, Slow, SemCalls
<1>3. QED
  BY <1>1, <1>2 DEF HeldInv, At

\* Every step keeps HeldInv.
LEMMA NextHeld ==
  ASSUME Counted, IndInv, IndInv', LineInv, ByteInv, HeldInv, [Next]_vars
  PROVE  HeldInv'
<1>a. Ranked /\ Orderly
  BY DEF Counted, Ranked
<1>1. ASSUME UNCHANGED <<proc, locks>>
      PROVE  HeldInv'
  BY <1>1 DEF HeldInv, At
<1>2. CASE UNCHANGED vars
  BY <1>1, <1>2 DEF vars
<1>3. CASE Edit
  BY <1>1, <1>3 DEF Edit
<1>4. ASSUME NEW p \in Pid,
             \/ Step(p) \/ ProgramCalls(p) \/ ProgramProgress(p)
             \/ Start(p) \/ Kill(p)
      PROVE  HeldInv'
  <2>1. /\ ~Preprocess(p) /\ ~TellOwner(p) /\ ~TellNobody(p)
        /\ ~RunCcache(p) /\ ~ReadPipe(p) /\ ~Collect(p) /\ ~Kill(p)
    BY <1>a, NeverTaken
  <2>2. CASE CreateSem(p) \/ SetPerm(p) \/ SetVal(p)
    BY <2>2, SemCallsHeld
  <2>3. CASE \/ Main(p) \/ ReadConfig(p) \/ NoName(p) \/ Fstat(p)
             \/ PickMakeByte(p) \/ NeedSlow(p) \/ PickFastByte(p)
             \/ AlreadyGotIt(p) \/ GrabTopMake(p)
    BY <2>3, BeforeLockHeld
  <2>4. CASE LockByte(p) \/ GrabSem(p)
    BY <2>4, LocksHeld
  <2>5. CASE Unaltered(p) \/ RunExec(p) \/ Altered(p) \/ RunDistcc(p)
    BY <2>5, AfterLockHeld
  <2>6. CASE DistccFailed(p)
    BY <2>6, DistccFailedHeld
  <2>7. CASE \/ ProgramCalls(p) \/ CcacheStarts(p) \/ CcacheMiss(p)
             \/ DistccHasNoHost(p)
    BY <2>7, ProgramHeld
  <2>8. CASE \/ CalledMyself(p) \/ SemDenied(p) \/ DistccReturned(p) \/ ProgramEnds(p)
             \/ CcacheHit(p) \/ DistccWorks(p) \/ Crash(p)
    BY <2>8, ExitsHeld
  <2>9. CASE Start(p)
    BY <2>9, StartHeld
  <2>10. QED
    BY <1>4, <2>1, <2>2, <2>3, <2>4, <2>5, <2>6, <2>7, <2>8, <2>9
    DEF Step, ProgramProgress
<1>5. QED
  BY <1>2, <1>3, <1>4 DEF Next

(***************************************************************************)
(* Who owns the bytes: each has one owner, and every nested make at work   *)
(* and every compile in the hands of distcc has one, through failures and  *)
(* edits.                                                                  *)
(***************************************************************************)
THEOREM HeldInvariance ==
  ASSUME Counted
  PROVE  Spec => [](IndInv /\ LineInv /\ ByteInv /\ HeldInv)
<1>1. Init => IndInv /\ LineInv /\ ByteInv /\ HeldInv
  BY InitInv, InitLine, InitBytes, InitHeld
<1>2. IndInv /\ LineInv /\ ByteInv /\ HeldInv /\ [Next]_vars
        => (IndInv /\ LineInv /\ ByteInv /\ HeldInv)'
  BY NextKeeps, NextLine, NextBytes, NextHeld DEF Counted, Ranked
<1>3. QED
  BY <1>1, <1>2, PTL DEF Spec

-----------------------------------------------------------------------------
(* What follows.                                                           *)

\* Processes that run under bytes of one range, each under one of its own
\* owner, are not more than the bytes.
LEMMA EachItsByte ==
  ASSUME HeldInv, TypeOK, NEW S \in SUBSET Pid, NEW owner \in Injection(S, Pid),
         NEW first \in Int, NEW n \in Nat,
         \A p \in S : \E l \in locks :
           l[3] = owner[p] /\ l[2] \in first .. first + n - 1
  PROVE  Cardinality(S) <= n
<1> DEFINE B == first .. first + n - 1
           f == [p \in S |->
                  CHOOSE b \in B : \E l \in locks : l[3] = owner[p] /\ l[2] = b]
<1>1. ASSUME NEW p \in S
      PROVE  /\ f[p] \in B
             /\ \E l \in locks : l[3] = owner[p] /\ l[2] = f[p]
  OBVIOUS
<1> HIDE DEF f
<1>2. ASSUME NEW p \in S, NEW q \in S, f[p] = f[q]
      PROVE  p = q
  <2>1. PICK l \in locks, m \in locks :
          l[3] = owner[p] /\ l[2] = f[p] /\ m[3] = owner[q] /\ m[2] = f[q]
    BY <1>1
  <2>2. l[1] = m[1] /\ l[2] = m[2]
    BY <1>2, <2>1 DEF HeldInv
  <2>3. owner[p] = owner[q]
    BY <2>1, <2>2 DEF HeldInv
  <2>4. QED
    BY <2>3 DEF Injection, IsInjective
<1>3. f \in [S -> B]
  BY <1>1 DEF f
<1>4. f \in Injection(S, B)
  BY <1>2, <1>3 DEF Injection, IsInjective
<1>5. IsFiniteSet(B) /\ Cardinality(B) = n
  BY FS_Interval
<1> HIDE DEF B
<1>6. Cardinality(S) <= Cardinality(B)
  BY <1>4, <1>5, FS_Injection
<1>7. QED
  BY <1>5, <1>6

\* Where all sections have the same cpus, it is the largest.
LEMMA OneCpus ==
  ASSUME Ranked
  PROVE  MaxCpus = AnySection.cpus
<1>1. {s[d].cpus : s \in Configs, d \in Dir} = {AnySection.cpus}
  <2>1. (\E s \in Configs : TRUE) /\ \E d \in Dir : TRUE
    BY ConstantsOK
  <2>2. \A s \in Configs, d \in Dir : s[d].cpus = AnySection.cpus
    BY DEF Ranked
  <2>3. QED
    BY <2>1, <2>2
<1>2. AnySection.cpus <= AnySection.cpus
  BY AnySectionType
<1>3. QED
  BY <1>1, <1>2 DEF MaxCpus, Ranked

(***************************************************************************)
(* The fast locks limit what runs under them, for any number of processes, *)
(* failures and edits: MAKE_LIMIT makes per cpu and depth, and             *)
(* DISTCC_LIMIT compiles per cpu in the hands of distcc                    *)
(* (ccontrol-lock.c:134 and 184).                                          *)
(***************************************************************************)
THEOREM FastLimitsHold ==
  ASSUME Counted
  PROVE  Spec => []FastLimits
<1>a. Ranked
  BY DEF Counted
<1>1. IndInv /\ LineInv /\ ByteInv /\ HeldInv => FastLimits
  <2> SUFFICES ASSUME IndInv, LineInv, ByteInv, HeldInv PROVE FastLimits
    OBVIOUS
  <2> DEFINE cpus == AnySection.cpus
             m == cpus * MakeLimit
             f == cpus * DistccLimit
             self == [p \in Pid |-> p]
  <2>1. TypeOK /\ cpus \in Nat /\ MakeLimit \in Nat /\ DistccLimit \in Nat
    BY AnySectionType, ConstantsOK DEF IndInv
  <2>2. m \in Nat /\ f \in Nat
    <3> HIDE DEF cpus
    <3>1. QED
      BY <2>1
  <2>3. ASSUME NEW depth \in 1 .. Cardinality(Pid)
        PROVE  Cardinality({p \in Pid : At(p, "make") /\ proc[p].env.lock = Level(depth)})
                 <= m
    <3> DEFINE S == {p \in Pid : At(p, "make") /\ proc[p].env.lock = Level(depth)}
               owner == [p \in S |-> p]
               first == 1 + f + depth * m
    <3>1. depth \in Nat /\ depth >= 1
      BY <2>3, ConstantsOK, FS_CardinalityType
    <3>2. MakeBytes(AnySection, depth) = first .. first + m - 1
      <4>1. depth * cpus * MakeLimit = depth * m
        <5> HIDE DEF cpus
        <5>1. QED
          BY <2>1, <3>1
      <4>2. QED
        BY <4>1 DEF MakeBytes
    <3>3. first \in Int
      <4> HIDE DEF m, f
      <4>1. QED
        BY <2>2, <3>1
    <3>4. ASSUME NEW p \in S
          PROVE  \E l \in locks : l[3] = owner[p] /\ l[2] \in first .. first + m - 1
      <4>1. proc[p].pc = "make" /\ proc[p].cmd = "make" /\ proc[p].env.lock = Level(depth)
        BY DEF At, LineInv, Proper
      <4>2. UnderByte(proc[p])
        BY <3>1, <4>1 DEF UnderByte, Level
      <4>3. PICK l \in locks : l[3] = p
        BY <4>2 DEF HeldInv
      <4>4. l[2] \in MakeBytes(AnySection, Depth(proc[p].env.lock) - 1)
        BY <4>1, <4>3 DEF ByteInv, InRange
      <4>5. Depth(proc[p].env.lock) - 1 = depth
        BY <3>1, <4>1 DEF Depth, Level
      <4>6. QED
        BY <3>2, <4>3, <4>4, <4>5
    <3>5. S \in SUBSET Pid /\ owner \in Injection(S, Pid)
      BY DEF Injection, IsInjective
    <3> HIDE DEF S, owner, first, m
    <3>6. Cardinality(S) <= m
      BY <2>1, <2>2, <3>3, <3>4, <3>5, EachItsByte
    <3>7. QED
      BY <3>6 DEF S
  <2>4. Cardinality({p \in Pid : At(p, "distcc")}) <= f
    <3> DEFINE S == {p \in Pid : At(p, "distcc")}
               owner == [p \in S |-> proc[p].parent]
    <3>1. ASSUME NEW p \in S
          PROVE  proc[p].parent \in Pid /\ proc[proc[p].parent].pc = "wait"
      BY DEF HeldInv, At
    <3>2. ASSUME NEW p \in S, NEW q \in S, proc[p].parent = proc[q].parent
          PROVE  p = q
      BY <3>1, <3>2 DEF LineInv, FewChildren, At
    <3>3. owner \in Injection(S, Pid)
      BY <3>1, <3>2 DEF Injection, IsInjective
    <3>4. ASSUME NEW p \in S
          PROVE  \E l \in locks : l[3] = owner[p] /\ l[2] \in 1 .. 1 + f - 1
      <4> DEFINE a == proc[p].parent
      <4>1. a \in Pid /\ proc[a].pc = "wait" /\ owner[p] = a
        BY <3>1
      <4> HIDE DEF a
      <4>2. Counts(proc[a]) /\ Proper(proc[a])
        BY <4>1 DEF HeldInv, LineInv
      <4>3. proc[a].sec.distcc /\ can_distcc(proc[a].cmd) /\ proc[a].cmd # "make"
        BY <4>1, <4>2 DEF Counts, Proper, can_distcc
      <4>4. UnderByte(proc[a])
        BY <4>1, <4>2, <4>3 DEF Counts, UnderByte
      <4>5. PICK l \in locks : l[3] = a
        BY <4>1, <4>4 DEF HeldInv
      <4>6. l[2] \in FastBytes(AnySection)
        BY <4>3, <4>5 DEF ByteInv, InRange
      <4>7. FastBytes(AnySection) = 1 .. 1 + f - 1
        <5>1. 1 + f - 1 = f
          BY <2>2
        <5>2. QED
          BY <5>1 DEF FastBytes
      <4>8. QED
        BY <4>1, <4>5, <4>6, <4>7
    <3>5. S \in SUBSET Pid
      OBVIOUS
    <3> HIDE DEF S, owner, f
    <3>6. 1 \in Int /\ Cardinality(S) <= f
      BY <2>1, <2>2, <3>3, <3>4, <3>5, EachItsByte
    <3>7. QED
      BY <3>6 DEF S
  <2>5. QED
    BY <1>a, <2>3, <2>4, OneCpus DEF FastLimits
<1>2. QED
  BY <1>1, HeldInvariance, PTL

-----------------------------------------------------------------------------
(* CCONTROL_LOCK is a char.                                                *)

\* The processes that change change to something that fits.
LEMMA FitsKeeps ==
  ASSUME LockIsChar,
         \A q \in Pid : proc'[q] = proc[q] \/ LockFits(proc'[q])
  PROVE  LockIsChar'
<1>1. ASSUME NEW q \in Pid
      PROVE  LockFits(proc[q])'
  <2>1. CASE proc'[q] = proc[q]
    BY <2>1 DEF LockIsChar, LockFits
  <2>2. CASE LockFits(proc'[q])
    BY <2>2 DEF LockFits
  <2>3. QED
    BY <2>1, <2>2
<1>2. QED
  BY <1>1 DEF LockIsChar

\* An unused slot, and what a process leaves behind, fit.
LEMMA IdleFits ==
  ASSUME NEW r, r.env = CleanEnv, r.cmd = "cc" \/ r.pc = "main",
         r.undo = "none"
  PROVE  LockFits(r)
<1>1. CleanEnv.lock = 0 /\ MaxDepth \in 0 .. 62
  BY ConstantsOK DEF CleanEnv, Unset
<1>2. r.env.lock = 0
  BY <1>1
<1>3. QED
  BY <1>1, <1>2 DEF LockFits, Level

\* A process that goes on with its lock.
LEMMA FitsLike ==
  ASSUME NEW r, NEW s, LockFits(r), s.env.lock = r.env.lock, s.cmd = r.cmd,
         s.undo = r.undo, r.pc \in Program => s.pc \in Program,
         r.pc \in Locked => s.pc \in Locked \cup Program,
         \/ s.pc \notin {"ccache", "cached", "ccached"}
         \/ r.pc \in {"ccache", "cached", "ccached"}
  PROVE  LockFits(s)
BY DEF LockFits

\* execv.
LEMMA FitsExec ==
  ASSUME NEW r \in Process, r.env.lock \in 0 .. Level(MaxDepth),
         NEW label \in Label,
         r.cmd = "make" /\ label \notin Program =>
           r.env.lock < Level(MaxDepth),
         r.cmd = "make" => label \notin {"ccache", "cached", "ccached"}
  PROVE  LockFits(Exec(r, label))
BY ExecFields DEF LockFits

\* exit.
LEMMA ExitFits ==
  ASSUME TypeOK, LockIsChar, NEW p \in Pid, NEW status, Exit(p, status)
  PROVE  LockIsChar'
<1>1. ASSUME NEW q \in Pid
      PROVE  proc'[q] = proc[q] \/ LockFits(proc'[q])
  <2>1. proc'[q] = Ended(p, status)[q]
    BY DEF Exit
  <2>2. Idle.env = CleanEnv /\ Idle.cmd = "cc" /\ Idle.undo = "none"
    BY DEF Idle
  <2>3. CASE q = p /\ Awaited(p)
    <3> DEFINE z == [Idle EXCEPT !.pc = "zombie", !.parent = proc[p].parent,
                                 !.status = status]
    <3>1. proc'[q] = z
      BY <2>1, <2>3 DEF Ended
    <3>2. z.env = CleanEnv /\ z.cmd = "cc" /\ z.undo = "none"
      BY DEF Idle
    <3> HIDE DEF z
    <3>3. QED
      BY <3>1, <3>2, IdleFits
  <2>4. CASE proc'[q] = Idle
    BY <2>2, <2>4, IdleFits
  <2>5. CASE proc'[q] = [proc[q] EXCEPT !.parent = NoPid]
    <3> DEFINE r == [proc[q] EXCEPT !.parent = NoPid]
    <3>1. /\ r.env = proc[q].env /\ r.cmd = proc[q].cmd /\ r.pc = proc[q].pc
          /\ r.undo = proc[q].undo
      BY OwnType DEF Process
    <3>2. LockFits(proc[q])
      BY DEF LockIsChar
    <3> HIDE DEF r
    <3>3. LockFits(r)
      BY <3>1, <3>2, FitsLike
    <3>4. QED
      BY <2>5, <3>3 DEF r
  <2>6. QED
    BY <2>1, <2>3, <2>4, <2>5 DEF Ended
<1>2. QED
  BY <1>1, FitsKeeps

\* A step of main that changes nothing but the process.
LEMMA OneFits ==
  ASSUME TypeOK, LockIsChar, NEW p \in Pid, NEW r, LockFits(r),
         proc' = [proc EXCEPT ![p] = r]
  PROVE  LockIsChar'
BY FitsKeeps DEF TypeOK

\* fork.
LEMMA ForkFits ==
  ASSUME TypeOK, LockIsChar, NEW p \in Pid, NEW r, NEW image \in Process,
         LockFits(r), LockFits(image), Spawn(p, r, image) \/ Fork(p, r, image)
  PROVE  LockIsChar'
<1>1. CASE Spawn(p, r, image)
  <2>1. PICK q \in Pid :
          proc' = [proc EXCEPT ![p] = r, ![q] = [image EXCEPT !.parent = p]]
    BY <1>1 DEF Spawn
  <2> DEFINE c == [image EXCEPT !.parent = p]
  <2>2. /\ c.env = image.env /\ c.cmd = image.cmd /\ c.pc = image.pc
        /\ c.undo = image.undo
    BY DEF Process
  <2>3. proc' = [proc EXCEPT ![p] = r, ![q] = c]
    BY <2>1
  <2> HIDE DEF c
  <2>4. LockFits(c)
    BY <2>2, FitsLike
  <2>5. QED
    BY <2>3, <2>4, FitsKeeps DEF TypeOK
<1>2. QED
  BY <1>1, ExitFits DEF Fork


\* The steps of main up to its lock, and the change of image after it.
LEMMA MainFits ==
  ASSUME IndInv, LockIsChar, NEW p \in Pid,
         \/ Preprocess(p) \/ TellNobody(p) \/ Main(p) \/ ReadConfig(p)
         \/ NoName(p) \/ Fstat(p) \/ PickMakeByte(p) \/ NeedSlow(p)
         \/ PickFastByte(p) \/ AlreadyGotIt(p) \/ GrabTopMake(p)
         \/ Unaltered(p) \/ RunExec(p)
  PROVE  LockIsChar'
<1>a. TypeOK /\ proc[p] \in Process /\ proc[p].env \in Env
      /\ LockFits(proc[p]) /\ MaxDepth \in 0 .. 62
  BY OwnType, ConstantsOK DEF IndInv, LockIsChar
<1>1. ASSUME NEW r, proc' = [proc EXCEPT ![p] = r], LockFits(r)
      PROVE  LockIsChar'
  BY <1>a, <1>1, OneFits
<1>2. ASSUME NEW r, proc' = [proc EXCEPT ![p] = r],
             r.env.lock = proc[p].env.lock, r.cmd = proc[p].cmd,
             r.undo = proc[p].undo, proc[p].pc \notin Program,
             r.pc \notin Program, proc[p].pc \in Locked => r.pc \in Locked
      PROVE  LockIsChar'
  BY <1>a, <1>1, <1>2, FitsLike DEF Program
<1>3. CASE Preprocess(p)
  <2>1. "compile" \in Label /\ "compile" \in Program
    BY DEF Label, Program
  <2>2. LockFits(Exec(proc[p], "compile"))
    BY <1>a, <2>1, FitsExec DEF LockFits
  <2>3. QED
    BY <1>1, <1>3, <2>2 DEF Preprocess, Local
<1>4. CASE TellNobody(p)
  <2> DEFINE r == Compiling(proc[p])
  <2>1. [[proc[p].env EXCEPT !.prefix = FALSE] EXCEPT !.lockfd = NoPid] \in Env
    BY <1>a DEF Env
  <2>2. /\ r.env.lock = proc[p].env.lock /\ r.cmd = proc[p].cmd
        /\ r.undo = proc[p].undo /\ r.pc = "again"
    BY <1>a, <2>1 DEF Compiling, Process, Env
  <2>3. proc' = [proc EXCEPT ![p] = r] /\ proc[p].pc = "main"
    BY <1>4 DEF TellNobody, Local, At
  <2> HIDE DEF r
  <2>4. QED
    BY <1>2, <2>2, <2>3 DEF Program, Locked
<1>5. CASE \/ Main(p) \/ ReadConfig(p) \/ NoName(p) \/ Fstat(p)
           \/ PickMakeByte(p) \/ NeedSlow(p) \/ PickFastByte(p)
           \/ Unaltered(p)
  <2>1. ASSUME NEW r, proc' = [proc EXCEPT ![p] = r], r.env = proc[p].env,
               r.cmd = proc[p].cmd, r.undo = proc[p].undo,
               \/ /\ proc[p].pc \in {"main", "again", "fstat", "grab"}
                  /\ r.pc \in {"again", "crash", "fstat", "grab", "fcntl",
                               "sem"}
               \/ proc[p].pc = "restat" /\ r.pc = "run"
        PROVE  LockIsChar'
    BY <1>2, <2>1 DEF Program, Locked
  <2>2. CASE Main(p)
    BY <1>a, <2>1, <2>2 DEF Main, Local, At, Process
  <2>3. CASE ReadConfig(p)
    <3>1. PICK sec, then, r :
            /\ r = [proc[p] EXCEPT !.pc = "fstat", !.sec = sec,
                                   !.ccache_then_distcc = then]
            /\ proc' = [proc EXCEPT ![p] = r] /\ proc[p].pc = "again"
      BY <2>3 DEF ReadConfig, Local, At
    <3>2. /\ r.env = proc[p].env /\ r.cmd = proc[p].cmd
          /\ r.undo = proc[p].undo /\ r.pc = "fstat"
      BY <1>a, <3>1 DEF Process
    <3>3. QED
      BY <2>1, <3>1, <3>2
  <2>4. CASE NoName(p)
    BY <1>a, <2>1, <2>4 DEF NoName, Local, At, Process
  <2>5. CASE Fstat(p)
    BY <1>a, <2>1, <2>5 DEF Fstat, Local, At, Process
  <2>6. CASE PickMakeByte(p)
    BY <1>a, <2>1, <2>6 DEF PickMakeByte, Grabbing, Local, At, Process
  <2>7. CASE NeedSlow(p)
    BY <1>a, <2>1, <2>7 DEF NeedSlow, Grabbing, Local, At, Process
  <2>8. CASE PickFastByte(p)
    BY <1>a, <2>1, <2>8 DEF PickFastByte, Grabbing, Local, At, Process
  <2>9. CASE Unaltered(p)
    BY <1>a, <2>1, <2>9 DEF Unaltered, Local, At, Process
  <2>10. QED
    BY <1>5, <2>2, <2>3, <2>4, <2>5, <2>6, <2>7, <2>8, <2>9
<1>6. CASE AlreadyGotIt(p)
  <2> DEFINE r == [proc[p] EXCEPT !.pc = "restat", !.undo = "nothing"]
  <2>1. /\ r.pc = "restat" /\ r.undo = "nothing" /\ r.env = proc[p].env
    BY <1>a DEF Process
  <2>2. proc' = [proc EXCEPT ![p] = r] /\ proc[p].env.lock = Slow
    BY <1>6 DEF AlreadyGotIt, Local
  <2> HIDE DEF r
  <2>3. LockFits(r)
    BY <1>a, <2>1, <2>2 DEF LockFits, Slow, Level
  <2>4. QED
    BY <1>1, <2>2, <2>3
<1>7. CASE GrabTopMake(p)
  <2> DEFINE r == [proc[p] EXCEPT !.pc = "restat", !.undo = "decrement",
                                  !.env.lock = Level(0)]
  <2>1. [proc[p].env EXCEPT !.lock = Level(0)] \in Env
    BY <1>a DEF Env, Level
  <2>2. r.pc = "restat" /\ r.undo = "decrement" /\ r.env.lock = Level(0)
    BY <1>a, <2>1 DEF Process, Env
  <2>3. proc' = [proc EXCEPT ![p] = r]
    BY <1>7 DEF GrabTopMake, Local
  <2> HIDE DEF r
  <2>4. LockFits(r)
    BY <1>a, <2>2 DEF LockFits, Level, Locked
  <2>5. QED
    BY <1>1, <2>3, <2>4
<1>8. CASE RunExec(p)
  <2>1. /\ Target(proc[p]) \in Program /\ Target(proc[p]) \in Label
        /\ proc[p].cmd = "make" =>
             Target(proc[p]) \notin {"ccache", "cached", "ccached"}
    BY DEF Target, TypeOf, Program, Label
  <2>2. LockFits(Exec(proc[p], Target(proc[p])))
    BY <1>a, <2>1, FitsExec DEF LockFits
  <2>3. QED
    BY <1>1, <1>8, <2>2 DEF RunExec, Local
<1>9. QED
  BY <1>3, <1>4, <1>5, <1>6, <1>7, <1>8

\* The pipe is written to.
LEMMA TellOwnerFits ==
  ASSUME IndInv, LockIsChar, NEW p \in Pid, TellOwner(p)
  PROVE  LockIsChar'
<1>1. PICK o : o = proc[p].env.lockfd
  OBVIOUS
<1>2. /\ TypeOK /\ o \in Pid /\ proc[p].pc = "main"
      /\ LockFits(proc[p]) /\ LockFits(proc[o])
  BY <1>1 DEF TellOwner, At, IndInv, LockIsChar
<1>3. PICK t, told, r : /\ t = [proc[o] EXCEPT !.told = TRUE]
                        /\ told = [proc EXCEPT ![o] = t]
                        /\ r = Compiling(told[p])
  OBVIOUS
<1>4. /\ t \in Process /\ t.env = proc[o].env /\ t.cmd = proc[o].cmd
      /\ t.undo = proc[o].undo /\ t.pc = proc[o].pc
  BY <1>2, <1>3, OwnType DEF Process
<1>5. /\ told[p] \in Process /\ told[p].env \in Env
      /\ told[p].env = proc[p].env /\ told[p].cmd = proc[p].cmd
      /\ told[p].undo = proc[p].undo
  BY <1>2, <1>3, <1>4, OwnType DEF TypeOK
<1>6. [[told[p].env EXCEPT !.prefix = FALSE] EXCEPT !.lockfd = NoPid] \in Env
  BY <1>5 DEF Env
<1>7. /\ r.env.lock = proc[p].env.lock /\ r.cmd = proc[p].cmd
      /\ r.undo = proc[p].undo /\ r.pc = "again"
  BY <1>3, <1>5, <1>6 DEF Compiling, Process, Env
<1>8. proc' = [told EXCEPT ![p] = r]
  BY <1>1, <1>3 DEF TellOwner
<1>9. LockFits(t) /\ LockFits(r)
  <2>1. LockFits(t)
    BY <1>2, <1>4, FitsLike
  <2>2. LockFits(r)
    BY <1>2, <1>7, FitsLike DEF Program, Locked
  <2>3. QED
    BY <2>1, <2>2
<1>10. QED
  BY <1>2, <1>3, <1>8, <1>9, FitsKeeps DEF TypeOK

\* grab_lock gives the lock.
LEMMA LocksFit ==
  ASSUME IndInv, LockIsChar, NEW p \in Pid, LockByte(p) \/ GrabSem(p)
  PROVE  LockIsChar'
<1>a. TypeOK /\ proc[p] \in Process /\ proc[p].env \in Env
      /\ LockFits(proc[p]) /\ MaxDepth \in 0 .. 62
  BY OwnType, ConstantsOK DEF IndInv, LockIsChar
<1>1. CASE LockByte(p)
  <2>1. PICK undo, lock, env, r :
          /\ undo = IF IsMake(proc[p]) THEN "decrement" ELSE "unset"
          /\ lock = IF IsMake(proc[p]) THEN Level(Depth(proc[p].env.lock))
                                       ELSE Fast
          /\ env = [proc[p].env EXCEPT !.lock = lock]
          /\ r = [proc[p] EXCEPT !.pc = "restat", !.want = 0, !.undo = undo,
                                 !.env = env]
    OBVIOUS
  <2>2. proc' = [proc EXCEPT ![p] = r] /\ proc[p].pc = "fcntl"
    BY <1>1, <2>1 DEF LockByte, At
  <2>3. IsMake(proc[p]) <=> proc[p].cmd = "make"
    BY <1>a DEF IsMake, TypeOf, Process, Cmd
  <2>4. env.lock = lock
    BY <1>a, <2>1 DEF Env
  <2>5. /\ r.pc = "restat" /\ r.env = env /\ r.undo = undo
        /\ r.cmd = proc[p].cmd
    BY <1>a, <2>1 DEF Process
  <2>6. CASE proc[p].cmd = "make"
    <3>1. lock = proc[p].env.lock + 1 /\ undo = "decrement"
      BY <1>a, <2>1, <2>3, <2>6 DEF Level, Depth, Env
    <3>2. proc[p].env.lock \in Nat /\ proc[p].env.lock < Level(MaxDepth)
      BY <1>a, <2>2, <2>6 DEF LockFits, Program, Locked, Level
    <3>3. r.env.lock \in 0 .. Level(MaxDepth) /\ r.env.lock > 0
      BY <1>a, <2>4, <2>5, <3>1, <3>2 DEF Level
    <3>4. LockFits(r)
      BY <2>5, <3>1, <3>3 DEF LockFits, Locked
    <3>5. QED
      BY <1>a, <2>2, <3>4, OneFits
  <2>7. CASE proc[p].cmd # "make"
    <3>1. lock = Fast /\ undo = "unset"
      BY <2>1, <2>3, <2>7
    <3>2. LockFits(r)
      BY <1>a, <2>4, <2>5, <2>7, <3>1 DEF LockFits, Level, Fast
    <3>3. QED
      BY <1>a, <2>2, <3>2, OneFits
  <2>8. QED
    BY <2>6, <2>7
<1>2. CASE GrabSem(p)
  <2>1. PICK env, r :
          /\ env = [proc[p].env EXCEPT !.lock = Slow, !.by = p]
          /\ r = [proc[p] EXCEPT !.pc = "restat", !.undo = "drop",
                                 !.env = env]
    OBVIOUS
  <2>2. proc' = [proc EXCEPT ![p] = r]
    BY <1>2, <2>1 DEF GrabSem
  <2>3. env.lock = Slow
    BY <1>a, <2>1 DEF Env
  <2>4. r.pc = "restat" /\ r.env = env /\ r.undo = "drop"
    BY <1>a, <2>1 DEF Process
  <2>5. LockFits(r)
    BY <1>a, <2>3, <2>4 DEF LockFits, Level, Slow
  <2>6. QED
    BY <1>a, <2>2, <2>5, OneFits
<1>3. QED
  BY <1>1, <1>2

\* undo() lowers what grab_lock has raised.
LEMMA UndoFits ==
  ASSUME NEW r \in Process, LockFits(r), r.pc \in Locked
  PROVE  /\ UndoEnv(r).lock \in 0 .. Level(MaxDepth)
         /\ r.cmd = "make" => UndoEnv(r).lock < Level(MaxDepth)
<1>1. r.env \in Env /\ r.env.lock \in Int /\ MaxDepth \in 0 .. 62
  BY ConstantsOK DEF Process, Env
<1>2. CASE r.undo = "decrement"
  <2>1. UndoEnv(r).lock = r.env.lock - 1
    BY <1>1, <1>2 DEF UndoEnv, Env
  <2>2. QED
    BY <1>1, <1>2, <2>1 DEF LockFits, Level
<1>3. CASE r.undo \in {"unset", "drop"}
  <2>1. UndoEnv(r) = [r.env EXCEPT !.lock = Unset, !.by = NoPid]
    BY <1>3 DEF UndoEnv
  <2>2. UndoEnv(r).lock = 0
    BY <1>1, <2>1 DEF Env, Unset
  <2>3. QED
    BY <1>1, <2>2 DEF Level
<1>4. CASE r.undo \notin {"decrement", "unset", "drop"}
  <2>1. UndoEnv(r) = r.env
    BY <1>4 DEF UndoEnv
  <2>2. QED
    BY <1>4, <2>1 DEF LockFits, Locked, Program
<1>5. QED
  BY <1>2, <1>3, <1>4

\* main lets go of its lock.
LEMMA LetGoFits ==
  ASSUME IndInv, LockIsChar, NEW p \in Pid,
         Altered(p) \/ ReadPipe(p) \/ DistccFailed(p)
  PROVE  LockIsChar'
<1>a. TypeOK /\ proc[p] \in Process /\ LockFits(proc[p])
  BY OwnType DEF IndInv, LockIsChar
<1>b. proc[p].pc \in {"restat", "pipe", "wait"} /\ proc[p].pc \in Locked
  BY DEF Altered, ReadPipe, DistccFailed, At, Locked
<1>c. /\ UndoEnv(proc[p]) \in Env
      /\ UndoEnv(proc[p]).lock \in 0 .. Level(MaxDepth)
      /\ proc[p].cmd = "make" => UndoEnv(proc[p]).lock < Level(MaxDepth)
  BY <1>a, <1>b, UndoType, UndoFits
<1>d. ASSUME NEW r, r.env.lock = UndoEnv(proc[p]).lock,
             r.cmd = proc[p].cmd, r.undo = "none",
             r.pc \in {"again", "collect"}
      PROVE  LockFits(r)
  BY <1>c, <1>d DEF LockFits
<1>1. CASE Altered(p)
  <2> DEFINE r == Restart(proc[p], FALSE)
  <2>1. /\ r.env = UndoEnv(proc[p]) /\ r.cmd = proc[p].cmd
        /\ r.undo = "none" /\ r.pc = "again"
    BY <1>a DEF Restart, Process
  <2>2. proc' = [proc EXCEPT ![p] = r]
    BY <1>1 DEF Altered
  <2> HIDE DEF r
  <2>3. QED
    BY <1>a, <1>d, <2>1, <2>2, OneFits
<1>2. CASE ReadPipe(p)
  <2> DEFINE r == [proc[p] EXCEPT !.pc = "collect",
                                  !.env = UndoEnv(proc[p]), !.undo = "none"]
  <2>1. /\ r.env = UndoEnv(proc[p]) /\ r.cmd = proc[p].cmd
        /\ r.undo = "none" /\ r.pc = "collect"
    BY <1>a DEF Process
  <2>2. proc' = [proc EXCEPT ![p] = r]
    BY <1>2 DEF ReadPipe
  <2> HIDE DEF r
  <2>3. QED
    BY <1>a, <1>d, <2>1, <2>2, OneFits
<1>3. CASE DistccFailed(p)
  <2> DEFINE s == Restart(proc[p], TRUE)
             r == [s EXCEPT !.env.prefix = FALSE]
  <2>1. PICK q \in Pid : proc' = [proc EXCEPT ![q] = Idle, ![p] = r]
    BY <1>3 DEF DistccFailed, Children
  <2>2. /\ s \in Process /\ s.env = UndoEnv(proc[p]) /\ s.cmd = proc[p].cmd
        /\ s.undo = "none" /\ s.pc = "again"
    BY <1>a, RestartType DEF Restart, Process
  <2> HIDE DEF s
  <2>3. /\ r.env.lock = UndoEnv(proc[p]).lock /\ r.cmd = proc[p].cmd
        /\ r.undo = "none" /\ r.pc = "again"
    <3>1. [s.env EXCEPT !.prefix = FALSE].lock = s.env.lock
      BY <1>c, <2>2 DEF Env
    <3>2. r.env = [s.env EXCEPT !.prefix = FALSE]
      BY <2>2 DEF Process
    <3>3. r.cmd = s.cmd /\ r.undo = s.undo /\ r.pc = s.pc
      BY <2>2 DEF Process
    <3>4. QED
      BY <2>2, <3>1, <3>2, <3>3
  <2> HIDE DEF r
  <2>4. LockFits(r) /\ LockFits(Idle)
    BY <1>d, <2>3, IdleFits DEF Idle
  <2>5. QED
    BY <1>a, <2>1, <2>4, FitsKeeps DEF TypeOK
<1>4. QED
  BY <1>1, <1>2, <1>3

\* The children of main and of the programs.
LEMMA ForksFit ==
  ASSUME IndInv, LockIsChar, NEW p \in Pid,
         \/ RunCcache(p) \/ RunDistcc(p) \/ ProgramCalls(p)
         \/ CcacheStarts(p) \/ CcacheMiss(p) \/ DistccHasNoHost(p)
  PROVE  LockIsChar'
<1>a. /\ TypeOK /\ proc[p] \in Process /\ proc[p].env \in Env
      /\ LockFits(proc[p]) /\ MaxDepth \in 0 .. 62
  BY OwnType, ConstantsOK DEF IndInv, LockIsChar
<1>b. /\ Program \subseteq Label /\ "main" \in Label
      /\ "main" \notin Program
  BY DEF Label, MainLabel, Program
<1>c. ASSUME NEW label \in Program, proc[p].pc \in Program,
             \/ label \notin {"ccache", "cached", "ccached"}
             \/ proc[p].pc \in {"ccache", "cached", "ccached"}
      PROVE  /\ LockFits([proc[p] EXCEPT !.pc = label])
             /\ [proc[p] EXCEPT !.pc = label] \in Process
  <2> DEFINE r == [proc[p] EXCEPT !.pc = label]
  <2>1. /\ r \in Process /\ r.env = proc[p].env /\ r.cmd = proc[p].cmd
        /\ r.undo = proc[p].undo /\ r.pc = label
    BY <1>a, <1>b DEF Process
  <2> HIDE DEF r
  <2>2. LockFits(r)
    BY <1>a, <1>c, <2>1, FitsLike
  <2>3. QED
    BY <2>1, <2>2 DEF r
<1>d. ASSUME NEW r \in Process, r.env.lock = proc[p].env.lock,
             r.cmd = proc[p].cmd
      PROVE  LockFits(Exec(r, Target(r))) /\ Exec(r, Target(r)) \in Process
  <2>1. /\ Target(r) \in Program /\ Target(r) \in Label
        /\ r.cmd = "make" => Target(r) \notin {"ccache", "cached", "ccached"}
    BY DEF Target, TypeOf, Program, Label
  <2>2. LockFits(Exec(r, Target(r)))
    BY <1>a, <1>d, <2>1, FitsExec DEF LockFits
  <2>3. QED
    BY <2>1, <2>2, ExecType
<1>1. CASE RunCcache(p)
  <2> DEFINE r == [proc[p] EXCEPT !.env.lockfd = p, !.env.prefix = TRUE]
             s == [r EXCEPT !.pc = "pipe"]
             c == [r EXCEPT !.wfd = @ \cup {p}]
  <2>1. [[proc[p].env EXCEPT !.lockfd = p] EXCEPT !.prefix = TRUE] \in Env
    BY <1>a DEF Env
  <2>2. /\ r \in Process /\ r.env.lock = proc[p].env.lock
        /\ r.cmd = proc[p].cmd /\ r.undo = proc[p].undo
    BY <1>a, <2>1 DEF Process, Env
  <2>3. Fork(p, s, Exec(c, Target(r))) /\ proc[p].pc = "run"
    BY <1>1 DEF RunCcache, At
  <2> HIDE DEF r
  <2>4. /\ s.env = r.env /\ s.cmd = r.cmd /\ s.undo = r.undo /\ s.pc = "pipe"
        /\ c \in Process /\ c.env = r.env /\ c.cmd = r.cmd /\ c.sec = r.sec
    BY <2>2 DEF Process
  <2> HIDE DEF s, c
  <2>5. LockFits(s)
    BY <1>a, <2>2, <2>3, <2>4, FitsLike DEF Program, Locked
  <2>6. Target(c) = Target(r)
    BY <2>4 DEF Target
  <2>7. LockFits(Exec(c, Target(r))) /\ Exec(c, Target(r)) \in Process
    BY <1>d, <2>2, <2>4, <2>6
  <2>8. QED
    BY <1>a, <2>3, <2>5, <2>7, ForkFits
<1>2. CASE RunDistcc(p)
  <2> DEFINE r == [proc[p] EXCEPT !.env = NoFallback(@)]
             s == [r EXCEPT !.pc = "wait"]
  <2>1. /\ NoFallback(proc[p].env) \in Env
        /\ NoFallback(proc[p].env).lock = proc[p].env.lock
    BY <1>a DEF NoFallback, Env
  <2>2. /\ r \in Process /\ r.env.lock = proc[p].env.lock
        /\ r.cmd = proc[p].cmd /\ r.undo = proc[p].undo
    BY <1>a, <2>1 DEF Process
  <2>3. Fork(p, s, Exec(r, Target(r))) /\ proc[p].pc = "run"
    BY <1>2 DEF RunDistcc, At
  <2> HIDE DEF r
  <2>4. s.env = r.env /\ s.cmd = r.cmd /\ s.undo = r.undo /\ s.pc = "wait"
    BY <2>2 DEF Process
  <2> HIDE DEF s
  <2>5. LockFits(s)
    BY <1>a, <2>2, <2>3, <2>4, FitsLike DEF Program, Locked
  <2>6. QED
    BY <1>a, <1>d, <2>2, <2>3, <2>5, ForkFits
<1>3. CASE ProgramCalls(p)
  <2> DEFINE r == [proc[p] EXCEPT !.calls = @ + 1]
  <2>1. PICK c \in Cmd, d \in Dir :
          /\ Spawn(p, r, Exec([proc[p] EXCEPT !.cmd = c, !.dir = d], "main"))
          /\ c = "make" => proc[p].env.lock < Level(MaxDepth)
    <3>1. proc[p].pc \in Callers
      BY <1>3 DEF ProgramCalls
    <3>2. Spawns[proc[p].pc] \subseteq Cmd
      BY <3>1, ConstantsOK
    <3>3. QED
      BY <1>3, <3>2 DEF ProgramCalls
  <2>2. /\ r.env = proc[p].env /\ r.cmd = proc[p].cmd /\ r.pc = proc[p].pc
        /\ r.undo = proc[p].undo
    BY <1>a DEF Process
  <2> DEFINE s == [proc[p] EXCEPT !.cmd = c, !.dir = d]
  <2>3. s \in Process /\ s.env = proc[p].env /\ s.cmd = c
    BY <1>a DEF Process
  <2>4. Spawn(p, r, Exec(s, "main"))
    BY <2>1
  <2> HIDE DEF r, s
  <2>5. LockFits(r)
    BY <1>a, <2>2, FitsLike
  <2>6. LockFits(Exec(s, "main")) /\ Exec(s, "main") \in Process
    <3>1. s.env.lock \in 0 .. Level(MaxDepth)
      BY <1>a, <2>3 DEF LockFits
    <3>2. QED
      BY <1>b, <2>1, <2>3, <3>1, FitsExec, ExecType
  <2>7. QED
    BY <1>a, <2>4, <2>5, <2>6, ForkFits
<1>4. CASE CcacheStarts(p)
  <2> DEFINE r == [proc[p] EXCEPT !.pc = "cached"]
             s == [r EXCEPT !.cmd = "pre"]
  <2>1. proc[p].pc = "ccache"
    BY <1>4 DEF CcacheStarts, At
  <2>2. LockFits(r) /\ r \in Process /\ r.env = proc[p].env
    BY <1>a, <1>c, <2>1 DEF Program, Process
  <2>3. Fork(p, r, Exec(s, "main")) \/ Local(p, r)
    BY <1>4 DEF CcacheStarts
  <2> HIDE DEF r
  <2>4. s \in Process /\ s.env = proc[p].env /\ s.cmd = "pre"
    BY <2>2 DEF Process, Cmd
  <2> HIDE DEF s
  <2>5. LockFits(Exec(s, "main")) /\ Exec(s, "main") \in Process
    <3>1. s.env.lock \in 0 .. Level(MaxDepth)
      BY <1>a, <2>4 DEF LockFits
    <3>2. QED
      BY <1>b, <2>4, <3>1, FitsExec, ExecType
  <2>6. QED
    BY <1>a, <2>2, <2>3, <2>5, ForkFits, OneFits DEF Local
<1>5. CASE CcacheMiss(p)
  <2> DEFINE r == [proc[p] EXCEPT !.pc = "ccached"]
             s == [proc[p] EXCEPT !.pc = "compile"]
  <2>1. proc[p].pc = "cached"
    BY <1>5 DEF CcacheMiss, At
  <2>2. LockFits(r) /\ LockFits(s)
    BY <1>c, <2>1 DEF Program
  <2>3. Fork(p, r, Exec(proc[p], "main")) \/ Local(p, s)
    BY <1>5 DEF CcacheMiss
  <2> HIDE DEF r, s
  <2>4. LockFits(Exec(proc[p], "main")) /\ Exec(proc[p], "main") \in Process
    <3>1. proc[p].env.lock \in 0 .. Level(MaxDepth) /\ proc[p].cmd # "make"
      BY <1>a, <2>1 DEF LockFits
    <3>2. QED
      BY <1>a, <1>b, <3>1, FitsExec, ExecType
  <2>5. QED
    BY <1>a, <2>2, <2>3, <2>4, ForkFits, OneFits DEF Local
<1>6. CASE DistccHasNoHost(p)
  <2> DEFINE s == [proc[p] EXCEPT !.pc = "compile"]
  <2>1. proc[p].pc = "distcc"
    BY <1>6 DEF DistccHasNoHost, At
  <2>2. LockFits(s)
    BY <1>c, <2>1 DEF Program
  <2>3. Exit(p, "nodist") \/ Local(p, s)
    BY <1>6 DEF DistccHasNoHost
  <2> HIDE DEF s
  <2>4. QED
    BY <1>a, <2>2, <2>3, ExitFits, OneFits DEF Local
<1>7. QED
  BY <1>1, <1>2, <1>3, <1>4, <1>5, <1>6

\* Every step keeps CCONTROL_LOCK in a char.
LEMMA NextFits ==
  ASSUME IndInv, LockIsChar, [Next]_vars
  PROVE  LockIsChar'
<1>1. TypeOK
  BY DEF IndInv
<1>2. CASE UNCHANGED proc
  BY <1>2, FitsKeeps
<1>3. ASSUME NEW p \in Pid,
             \/ Step(p) \/ ProgramCalls(p) \/ ProgramProgress(p)
             \/ Start(p) \/ Kill(p)
      PROVE  LockIsChar'
  <2>1. CASE CreateSem(p) \/ SetPerm(p) \/ SetVal(p)
    <3> PICK label \in SemCalls :
          proc' = [proc EXCEPT ![p] = [proc[p] EXCEPT !.pc = label]]
      BY <2>1, SemCallsStep
    <3>1. PICK r : /\ r = [proc[p] EXCEPT !.pc = label]
                   /\ proc' = [proc EXCEPT ![p] = r]
      OBVIOUS
    <3>2. proc[p].pc \in SemCalls /\ LockFits(proc[p])
      BY <2>1, SemCallsStep DEF LockIsChar
    <3>3. /\ r.env = proc[p].env /\ r.cmd = proc[p].cmd
          /\ r.undo = proc[p].undo /\ r.pc = label
      BY <1>1, <3>1, OwnType DEF Process
    <3>4. LockFits(r)
      BY <3>2, <3>3, FitsLike DEF SemCalls, Program, Locked
    <3>5. QED
      BY <1>1, <3>1, <3>4, OneFits
  <2>2. CASE \/ CalledMyself(p) \/ SemDenied(p) \/ Collect(p)
             \/ DistccReturned(p) \/ ProgramEnds(p) \/ CcacheHit(p)
             \/ DistccWorks(p) \/ Crash(p) \/ Kill(p)
    BY <1>1, <2>2, ExitSteps, ExitFits
  <2>3. CASE Start(p)
    <3> PICK c \in Cmd, d \in Dir :
          proc' = [proc EXCEPT ![p] =
                     [Idle EXCEPT !.pc = "main", !.cmd = c, !.dir = d]]
      BY <2>3, ConstantsOK DEF Start, Local
    <3>1. PICK r : /\ r = [Idle EXCEPT !.pc = "main", !.cmd = c, !.dir = d]
                   /\ proc' = [proc EXCEPT ![p] = r]
      OBVIOUS
    <3>2. r.env = CleanEnv /\ r.pc = "main" /\ r.undo = "none"
      BY <3>1 DEF Idle
    <3>3. LockFits(r)
      BY <3>2, IdleFits
    <3>4. QED
      BY <1>1, <3>1, <3>3, OneFits
  <2>4. QED
    BY <1>3, <2>1, <2>2, <2>3, MainFits, TellOwnerFits, LocksFit, LetGoFits,
       ForksFit DEF Step, ProgramProgress
<1>4. QED
  BY <1>2, <1>3 DEF Next, Edit, vars

(***************************************************************************)
(* CCONTROL_LOCK, a char, holds every depth it is ever given: the integer  *)
(* of the model is exact for makes that nest no deeper than MaxDepth.      *)
(***************************************************************************)
THEOREM DepthIsChar == Spec => []LockIsChar
<1>1. Init => LockIsChar
  <2>1. Idle.env = CleanEnv /\ Idle.cmd = "cc" /\ Idle.undo = "none"
    BY DEF Idle
  <2>2. LockFits(Idle)
    BY <2>1, IdleFits
  <2>3. QED
    BY <2>2 DEF Init, LockIsChar
<1>2. IndInv /\ LockIsChar /\ [Next]_vars => LockIsChar'
  BY NextFits
<1>3. QED
  BY <1>1, <1>2, Invariance, PTL DEF Spec
=============================================================================
